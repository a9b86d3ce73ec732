---------------------------- MODULE ChatRendering ----------------------------
(***************************************************************************)
(* The chat template (chat/rendering.py): a conversation is rendered into  *)
(* tokens and loss flags for training, and into a prompt, bounded by       *)
(* dropping its oldest turns, for generation.                              *)
(*                                                                         *)
(* The text of a message or part is its number of tokens; a rendered token *)
(* is a control, or its message, part and position.                        *)
(***************************************************************************)
EXTENDS Integers, SequencesExt

CONSTANTS Systems,         \* system messages explored: sequences of at most one
                           \* text size
          UserSizes,       \* sizes of user texts
          AssistantParts,  \* contents of assistant messages: sequences of
                           \* [kind, size]
          MaxTurns,        \* bound on the turns before the last user message
          TokenLimits      \* bounds on the prompt explored

ContentPart == [kind : {"text", "python", "output"}, size : Nat]

ASSUME RenderingAssumption ==
  /\ UserSizes \subseteq Nat /\ MaxTurns \in Nat /\ TokenLimits \subseteq Nat \ {0}
  /\ \A s \in Systems : s \in Seq(Nat) /\ Len(s) <= 1
  /\ AssistantParts \subseteq Seq(ContentPart)

VARIABLE prompting  \* a call of render_completion_prompt

Control(name) == <<0, name>>
Text(m, p, size) == [k \in 1 .. size |-> <<m, p, k>>]

(***************************************************************************)
(* Rendering.  A piece is a sequence of tokens with one loss flag.         *)
(***************************************************************************)
SupervisedAs(tokens, loss) == [i \in DOMAIN tokens |-> [token |-> tokens[i], loss |-> loss]]
Unsupervised(tokens) == SupervisedAs(tokens, FALSE)

RenderedUser(texts) ==
  Unsupervised(<<Control("user_start")>> \o texts \o <<Control("user_end")>>)

PartTokens(m, p, part) ==
  CASE part.kind = "text"   -> Text(m, p, part.size)
    [] part.kind = "python" ->
         <<Control("python_start")>> \o Text(m, p, part.size) \o <<Control("python_end")>>
    [] part.kind = "output" ->
         <<Control("output_start")>> \o Text(m, p, part.size) \o <<Control("output_end")>>

\* Mutant: the output of what the assistant ran is supervised too.
RenderedPartUnmasked(m, p, part) == SupervisedAs(PartTokens(m, p, part), TRUE)

RenderedPart(m, p, part) == SupervisedAs(PartTokens(m, p, part), part.kind # "output")

RenderedAssistant(m, parts) ==
  Unsupervised(<<Control("assistant_start")>>)
    \o FlattenSeq([p \in DOMAIN parts |-> RenderedPart(m, p, parts[p])])
    \o SupervisedAs(<<Control("assistant_end")>>, TRUE)

\* A message: who says it, its number in the conversation, and its parts; a
\* user's are the texts of a merged system message and of its own.
UserTokens(message) ==
  FlattenSeq([p \in DOMAIN message.parts |-> Text(message.id, p, message.parts[p].size)])

\* _render_messages, with the tokens of the last user message as given.
RenderedMessages(messages, lastUser) ==
  Unsupervised(<<Control("bos")>>) \o FlattenSeq([i \in DOMAIN messages |->
    IF messages[i].role = "assistant" THEN RenderedAssistant(messages[i].id, messages[i].parts)
    ELSE RenderedUser(IF i = Len(messages) THEN lastUser ELSE UserTokens(messages[i]))])

TokensOf(rendered) == [i \in DOMAIN rendered |-> rendered[i].token]
LossOf(rendered) == [i \in DOMAIN rendered |-> rendered[i].loss]

\* render_conversation, which a final user message does not change.
Training(messages) ==
  RenderedMessages(messages,
    IF Last(messages).role = "user" THEN UserTokens(Last(messages)) ELSE <<>>)

PromptOf(messages, lastUser) ==
  TokensOf(RenderedMessages(messages, lastUser)) \o <<Control("assistant_start")>>
WholePrompt(messages) == PromptOf(messages, UserTokens(Last(messages)))

(***************************************************************************)
(* render_completion_prompt                                                *)
(***************************************************************************)
\* _merge_leading_system: a leading system text becomes part of the first
\* user message.
MessagesOf(system, users, replies) ==
  [i \in 1 .. 2 * Len(users) - 1 |->
     IF i % 2 = 0 THEN [role |-> "assistant", id |-> i, parts |-> replies[i \div 2]]
     ELSE [role |-> "user", id |-> i,
           parts |-> [p \in DOMAIN (IF i = 1 THEN system ELSE <<>>) |->
                        [kind |-> "text", size |-> system[p]]]
                     \o <<[kind |-> "text", size |-> users[(i + 1) \div 2]]>>]]

RenderingInit ==
  \E system \in Systems, turns \in 0 .. MaxTurns, limit \in TokenLimits :
    \E users \in [1 .. turns + 1 -> UserSizes], replies \in [1 .. turns -> AssistantParts] :
      prompting = [at |-> "bound", given |-> MessagesOf(system, users, replies),
                   messages |-> MessagesOf(system, users, replies), limit |-> limit,
                   dropped |-> 0, truncated |-> 0,
                   prompt |-> WholePrompt(MessagesOf(system, users, replies))]

TooLong == Len(prompting.prompt) > prompting.limit

\* The oldest turn, a user message and its reply, is dropped.
DropTurn ==
  /\ prompting.at = "bound" /\ TooLong /\ Len(prompting.messages) > 1
  /\ LET rest == SubSeq(prompting.messages, 3, Len(prompting.messages))
     IN  prompting' = [prompting EXCEPT !.messages = rest, !.dropped = @ + 1,
                                        !.prompt = WholePrompt(rest)]

FixedTokens == Len(PromptOf(<<[role |-> "user", id |-> 0, parts |-> <<>>]>>, <<>>))

TruncateUser ==
  /\ prompting.at = "bound" /\ TooLong /\ Len(prompting.messages) = 1
  /\ FixedTokens <= prompting.limit
  /\ LET texts == UserTokens(prompting.messages[1])
         kept == SubSeq(texts, Len(texts) - (prompting.limit - FixedTokens) + 1, Len(texts))
     IN  prompting' = [prompting EXCEPT
           !.at = "done", !.truncated = Len(texts) - Len(kept),
           !.prompt = PromptOf(prompting.messages, kept)]

RefusePrompt ==
  /\ prompting.at = "bound" /\ TooLong /\ Len(prompting.messages) = 1
  /\ FixedTokens > prompting.limit
  /\ prompting' = [prompting EXCEPT !.at = "refused"]

ReturnPrompt ==
  /\ prompting.at = "bound" /\ ~TooLong
  /\ prompting' = [prompting EXCEPT !.at = "done"]

RenderingNext == DropTurn \/ TruncateUser \/ RefusePrompt \/ ReturnPrompt
RenderingSpec == RenderingInit /\ [][RenderingNext]_prompting

(***************************************************************************)
(* Properties.                                                             *)
(***************************************************************************)
\* The prompt is the longest run of whole latest turns that fits; when the
\* last user message alone does not, the latest part of it that does.
Suffix(dropped) == SubSeq(prompting.given, 2 * dropped + 1, Len(prompting.given))
LastUserOnly == Suffix((Len(prompting.given) - 1) \div 2)
PromptIsLatest ==
  prompting.at = "done" =>
    /\ Len(prompting.prompt) <= prompting.limit
    /\ prompting.messages = Suffix(prompting.dropped)
    /\ \A fewer \in 0 .. prompting.dropped - 1 :
         Len(WholePrompt(Suffix(fewer))) > prompting.limit
    /\ IF prompting.truncated = 0 THEN prompting.prompt = WholePrompt(prompting.messages)
       ELSE /\ Len(prompting.prompt) = prompting.limit
            /\ prompting.messages = LastUserOnly
            /\ IsSuffix(SubSeq(prompting.prompt, 3, prompting.limit), WholePrompt(LastUserOnly))

\* The text the assistant itself writes in message m.
WrittenIn(m, parts, token) ==
  \E p \in DOMAIN parts : \E k \in 1 .. parts[p].size :
    parts[p].kind # "output" /\ token = <<m, p, k>>
Replied(parts) ==
  Append(prompting.given,
         [role |-> "assistant", id |-> Len(prompting.given) + 1, parts |-> parts])

\* What generation continues is what training supervised: the unbounded
\* prompt is a prefix of the conversation with any reply, the reply's loss
\* flags begin where the prompt ends, and within the reply exactly what the
\* assistant itself would write is supervised.  It is about the messages
\* received, not about what is dropped later.
PromptMatchesTraining ==
  prompting.at = "bound" /\ prompting.dropped = 0 => \A parts \in AssistantParts :
    LET rendered == Training(Replied(parts))
        whole == WholePrompt(prompting.given)
    IN  /\ IsPrefix(whole, TokensOf(rendered))
        /\ \A i \in Len(whole) + 1 .. Len(rendered) :
             LossOf(rendered)[i] <=>
               \/ WrittenIn(Len(prompting.given) + 1, parts, TokensOf(rendered)[i])
               \/ TokensOf(rendered)[i] \in
                    {Control("python_start"), Control("python_end"), Control("assistant_end")}

PromptIsFaithful == PromptIsLatest /\ PromptMatchesTraining
=============================================================================
