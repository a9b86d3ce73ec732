----------------------------- MODULE Generation -----------------------------
(***************************************************************************)
(* Autoregressive generation (generation.py, model.py, attention.py): rows *)
(* of a batch grow a sampled token at a time, from the whole context       *)
(* ("naive") or, for one row, from the last token and a key/value cache.   *)
(*                                                                         *)
(* What a position carries into a layer is a term: the token and its       *)
(* position, then, after each layer, the terms it attended to.  Equal      *)
(* terms are equal activations.  Sampling is an unknown function of a      *)
(* row's seed, the number of its draws and its final term.                 *)
(***************************************************************************)
EXTENDS KVCache, SequencesExt

CONSTANTS GenTokens,    \* the vocabulary
          GenStops,     \* stop_token_ids
          MaxNewTokens, \* bound on max_new_tokens
          MaxPrompt     \* bound on the length of a prompt

ASSUME GenerationAssumption ==
  /\ GenStops \subseteq GenTokens /\ Junk \notin GenTokens
  /\ {MaxNewTokens, MaxPrompt} \subseteq Nat \ {0}
  /\ IsFiniteSet(CacheLayers) /\ CacheLayers = 0 .. Cardinality(CacheLayers) - 1

VARIABLES gen,      \* the request being generated
          ambient   \* the caller's module mode and global generator state

generationVars == <<gen, ambient, kvVars>>

MaxSeqLen  == CacheCapacity   \* the cache of a request has the model's context
LayerCount == Cardinality(CacheLayers)
LastOf(s, n) == SubSeq(s, IF Len(s) > n THEN Len(s) - n + 1 ELSE 1, Len(s))

(***************************************************************************)
(* The model.                                                              *)
(***************************************************************************)
Embedded(context, start) == [i \in DOMAIN context |-> <<context[i], start + i>>]

KeysUpTo(keys, n) == [p \in 1 .. n |-> keys[p]]

\* Causal attention: query i, at position start + i, attends to the keys up
\* to its own.
Attended(keys, start, count) == [i \in 1 .. count |-> KeysUpTo(keys, start + i)]

\* What enters each layer, and comes out of the last one, without a cache.
LayerTerms(context) ==
  LET terms[l \in 0 .. LayerCount] ==
        IF l = 0 THEN Embedded(context, 0)
        ELSE Attended(terms[l - 1], 0, Len(context))
  IN  terms

FullForward(context) == LayerTerms(context)[LayerCount][Len(context)]

(***************************************************************************)
(* Requests.                                                               *)
(***************************************************************************)
NoRequest == [at |-> "idle", mode |-> "naive", limit |-> 0, prompt |-> 0, rows |-> <<>>,
              stopped |-> <<>>, sampled |-> <<>>, drawn |-> <<>>, step |-> 0,
              layer |-> 0, terms |-> <<>>, final |-> <<>>, saved |-> <<>>]

Active == {i \in DOMAIN gen.rows : gen.stopped[i] = Junk}
ActiveIndices ==
  CHOOSE order \in [1 .. Cardinality(Active) -> Active] :
    \A j, k \in DOMAIN order : j < k => order[j] < order[k]

Open(mode, prompts, limit) ==
  /\ gen.at = "idle"
  /\ mode = "cached" =>
       /\ Len(prompts) = 1
       /\ LET context == IF Len(prompts[1]) < MaxSeqLen THEN Len(prompts[1]) ELSE MaxSeqLen
          IN  context + limit - 1 <= MaxSeqLen
  /\ gen' = [NoRequest EXCEPT
       !.at = "context", !.mode = mode, !.limit = limit, !.rows = prompts,
       !.prompt = Len(prompts[1]),
       !.stopped = [i \in DOMAIN prompts |-> Junk],
       !.sampled = [i \in DOMAIN prompts |-> 0],
       !.drawn = [i \in DOMAIN prompts |-> 0], !.saved = ambient]
  /\ ambient' = [ambient EXCEPT !.training = FALSE]
  /\ NewCache

\* The loop ends, or the next context is taken.
Finished == gen.step = gen.limit \/ Active = {}

Context(i) ==
  IF gen.mode = "cached" /\ gen.step > 0 THEN <<Last(gen.rows[i])>>
  ELSE LastOf(gen.rows[i], MaxSeqLen)

NaiveForward ==
  /\ gen.at = "context" /\ ~Finished /\ gen.mode = "naive"
  /\ gen' = [gen EXCEPT !.at = "sample",
       !.final = [k \in DOMAIN ActiveIndices |-> FullForward(Context(ActiveIndices[k]))]]
  /\ UNCHANGED <<ambient, kvVars>>

BeginCachedForward ==
  /\ gen.at = "context" /\ ~Finished /\ gen.mode = "cached"
  /\ BeginTransaction(Len(Context(1)))
  /\ gen' = [gen EXCEPT !.at = "forward", !.layer = 0,
                        !.terms = Embedded(Context(1), kvPosition)]
  /\ UNCHANGED ambient

\* A block: write the layer, attend to its storage up to the end.
ForwardBlock ==
  /\ gen.at = "forward" /\ gen.layer < LayerCount
  /\ WriteLayer(gen.layer, gen.terms)
  /\ gen' = [gen EXCEPT !.layer = @ + 1,
       !.terms = Attended(store'[gen.layer], Start, Len(@))]
  /\ UNCHANGED ambient

CommitForward ==
  /\ gen.at = "forward" /\ gen.layer = LayerCount
  /\ Commit
  /\ gen' = [gen EXCEPT !.at = "sample", !.final = <<Last(gen.terms)>>, !.terms = <<>>]
  /\ UNCHANGED ambient

\* An exception: the transaction is rolled back and the request ends.
ForwardFails ==
  /\ gen.at = "forward"
  /\ RollBack
  /\ gen' = [gen EXCEPT !.at = "close"]
  /\ UNCHANGED ambient

\* An exception that is no Exception (KeyboardInterrupt) leaves the
\* transaction open.
ForwardInterrupted ==
  /\ gen.at = "forward"
  /\ gen' = [gen EXCEPT !.at = "close"]
  /\ UNCHANGED <<ambient, kvVars>>

\* Mutant: a token is appended to the row of its rank in the batch.
SampleByRank(tokens) ==
  /\ gen.at = "sample" /\ DOMAIN tokens = DOMAIN ActiveIndices
  /\ LET continues(k) == tokens[k] \notin GenStops
         rank(i) == CHOOSE k \in DOMAIN ActiveIndices : ActiveIndices[k] = i
     IN  gen' = [gen EXCEPT
           !.at = "yield", !.step = @ + 1, !.final = <<>>,
           !.sampled = [i \in DOMAIN @ |-> IF i \in Active THEN @[i] + 1 ELSE @[i]],
           !.drawn = [i \in DOMAIN @ |-> IF i \in DOMAIN tokens THEN @[i] + 1 ELSE @[i]],
           !.stopped = [i \in DOMAIN @ |->
              IF i \in Active /\ ~continues(rank(i)) THEN tokens[rank(i)] ELSE @[i]],
           !.rows = [i \in DOMAIN @ |->
              IF i \in Active /\ continues(rank(i)) THEN Append(@[i], tokens[rank(i)]) ELSE @[i]]]
  /\ UNCHANGED <<ambient, kvVars>>

\* Each active row draws from its own generator; a stop token ends its row
\* and is not part of it.
Sample(tokens) ==
  /\ gen.at = "sample" /\ DOMAIN tokens = DOMAIN ActiveIndices
  /\ LET continues(k) == tokens[k] \notin GenStops
         rank(i) == CHOOSE k \in DOMAIN ActiveIndices : ActiveIndices[k] = i
     IN  gen' = [gen EXCEPT
           !.at = "yield", !.step = @ + 1, !.final = <<>>,
           !.sampled = [i \in DOMAIN @ |-> IF i \in Active THEN @[i] + 1 ELSE @[i]],
           !.drawn = [i \in DOMAIN @ |-> IF i \in Active THEN @[i] + 1 ELSE @[i]],
           !.stopped = [i \in DOMAIN @ |->
              IF i \in Active /\ ~continues(rank(i)) THEN tokens[rank(i)] ELSE @[i]],
           !.rows = [i \in DOMAIN @ |->
              IF i \in Active /\ continues(rank(i)) THEN Append(@[i], tokens[rank(i)]) ELSE @[i]]]
  /\ UNCHANGED <<ambient, kvVars>>

\* The caller takes the step; it may draw from the global generator before
\* it asks for the next one, or close the stream.
Resume(draws) ==
  /\ gen.at = "yield"
  /\ gen' = [gen EXCEPT !.at = "context"]
  /\ ambient' = [ambient EXCEPT !.random = IF draws THEN 1 ELSE @]
  /\ UNCHANGED kvVars

CloseEarly ==
  /\ gen.at = "yield"
  /\ gen' = [gen EXCEPT !.at = "close"]
  /\ UNCHANGED <<ambient, kvVars>>

Complete ==
  /\ gen.at = "context" /\ Finished
  /\ gen' = [gen EXCEPT !.at = "close"]
  /\ UNCHANGED <<ambient, kvVars>>

\* The finally clause: reset the cache, which an open transaction refuses,
\* and in any case restore the caller's modes and generators.
Close ==
  /\ gen.at = "close"
  /\ IF transaction.active THEN UNCHANGED kvVars ELSE ResetCache
  /\ ambient' = gen.saved
  /\ gen' = NoRequest

GenerationInit ==
  /\ gen = NoRequest
  /\ ambient \in [training : BOOLEAN, random : {0}]

Prompts == UNION {[1 .. n -> GenTokens \ GenStops] : n \in 1 .. MaxPrompt}
Batches == {<<p>> : p \in Prompts} \cup {<<p, q>> : p \in Prompts, q \in Prompts}

GenerationNext ==
  \/ \E mode \in {"naive", "cached"}, prompts \in Batches, limit \in 1 .. MaxNewTokens :
       (\A p \in ToSet(prompts) : Len(p) = Len(prompts[1])) /\ Open(mode, prompts, limit)
  \/ NaiveForward \/ BeginCachedForward \/ ForwardBlock \/ CommitForward
  \/ ForwardFails \/ ForwardInterrupted
  \/ \E tokens \in [DOMAIN ActiveIndices -> GenTokens] : Sample(tokens)
  \/ \E draws \in BOOLEAN : Resume(draws)
  \/ CloseEarly \/ Complete \/ Close

GenerationSpec == KVInit /\ GenerationInit /\ [][GenerationNext]_generationVars

(***************************************************************************)
(* Properties.                                                             *)
(***************************************************************************)
\* Whatever the mode and whichever rows have stopped, a row is sampled from
\* its own latest context, as it would be alone and without a cache, with
\* its own draws; it never grows past its limit or past a stop token.  The
\* caller finds the global generators as it left them.
GenerationIsExact ==
  /\ gen.at = "sample" =>
       \A k \in DOMAIN ActiveIndices :
         gen.final[k] = FullForward(LastOf(gen.rows[ActiveIndices[k]], MaxSeqLen))
  /\ \A i \in DOMAIN gen.rows :
       /\ gen.drawn[i] = gen.sampled[i] /\ gen.sampled[i] <= gen.limit
       /\ Len(gen.rows[i]) - gen.prompt
            = gen.sampled[i] - (IF gen.stopped[i] = Junk THEN 0 ELSE 1)
  /\ gen.at = "idle" => ambient.random = 0
=============================================================================
