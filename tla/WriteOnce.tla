----------------------------- MODULE WriteOnce -----------------------------
(***************************************************************************)
(* What a directory of published artifacts promises the processes that     *)
(* share it (data/hub.py, tokenization/artifacts.py): it is written once,  *)
(* as a whole, and whoever is told that it is there is given that one      *)
(* content, which is its own if it asked for its own.                      *)
(***************************************************************************)
CONSTANTS Clients, Nothing

VARIABLES content,  \* what the directory holds, or Nothing
          answer,   \* what each client was given last, or Nothing
          wish      \* the content a client asks for, or Nothing if any will do

onceVars == <<content, answer, wish>>

OnceInit ==
  /\ content = Nothing
  /\ answer = [c \in Clients |-> Nothing] /\ wish = [c \in Clients |-> Nothing]

\* Whatever is installed, nothing replaces it.
Write == content = Nothing /\ content' # Nothing /\ UNCHANGED <<answer, wish>>

Ask(c) ==
  /\ answer' = [answer EXCEPT ![c] = Nothing]
  /\ wish' = [wish EXCEPT ![c] = wish'[c]]
  /\ UNCHANGED content

Answer(c) ==
  /\ content # Nothing /\ wish[c] \in {Nothing, content}
  /\ answer' = [answer EXCEPT ![c] = content]
  /\ UNCHANGED <<content, wish>>

OnceNext == Write \/ \E c \in Clients : Ask(c) \/ Answer(c)
OnceSpec == OnceInit /\ [][OnceNext]_onceVars
=============================================================================
