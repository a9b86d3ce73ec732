------------------------- MODULE PublicationProofs --------------------------
(***************************************************************************)
(* Theorems about what processes publish beside each other: ArtifactCache, *)
(* for any processes, versions and number of files; RunComparison, for any *)
(* finite set of runs, target and reports; and ChatEvaluation, for any     *)
(* problems, settings, batch size and number of samples.                   *)
(***************************************************************************)
EXTENDS ArtifactCache, RunComparison, ChatEvaluation, FiniteOrders, SequenceTheorems,
        FunctionTheorems, FiniteSetTheorems, TLAPS

(***************************************************************************)
(* ArtifactCache: its destination is written once and as a whole.  The     *)
(* argument: a process that reaches the rename has staged every file, with *)
(* its own content if it has one, and the rename succeeds only over        *)
(* nothing, when nobody can be about to return what he wrote.              *)
(***************************************************************************)
Content == [1 .. DataFiles -> Versions]
Places  == {"idle", "check", "stage", "install", "load", "sync"}

Written == directory \notin {NoContent, <<>>}

\* A call in progress: its files, as far as they are staged, and what it may
\* conclude from where it is.
CallOK(call) ==
  /\ call \in [at : Places, kind : {"none", "prepare", "local", "load", "save"},
               own : Content \cup {NoContent}, staged : Seq(Versions),
               given : Content \cup {NoContent}]
  /\ call.at = "check" => call.staged = <<>>
  /\ call.at = "stage" => Len(call.staged) <= DataFiles
  /\ call.at = "install" => Len(call.staged) = DataFiles + 1
  /\ call.own # NoContent =>
       \A i \in 1 .. DataFiles : i <= Len(call.staged) => call.staged[i] = call.own[i]
  /\ call.kind = "save" => call.own # NoContent
  /\ call.at = "load" => directory # NoContent
  /\ call.at = "sync" => Written /\ call.own = Contents(directory)

DirectoryOK == Written => directory \in Seq(Versions) /\ Len(directory) = DataFiles + 1

CacheInv ==
  /\ remote \in Versions /\ DirectoryOK
  /\ DOMAIN publisher = Publishers
  /\ publisher = [p \in Publishers |-> publisher[p]]
  /\ \A p \in Publishers : CallOK(publisher[p])

-----------------------------------------------------------------------------
\* A full list of files holds a content, which is not NoContent.
LEMMA FullIsContent ==
  ASSUME NEW s \in Seq(Versions), Len(s) = DataFiles + 1
  PROVE  /\ Contents(s) \in Content /\ Contents(s) # NoContent
         /\ \A i \in 1 .. DataFiles : Contents(s)[i] = s[i]
         /\ s \notin {NoContent, <<>>}
<1>1. DataFiles \in Nat \ {0}
  BY ArtifactAssumption
<1>2. \A n \in 0 .. DataFiles + 1 : NoContent \notin [1 .. n -> Versions]
  BY ArtifactAssumption
<1>3. \A i \in 1 .. DataFiles : s[i] \in Versions
  BY <1>1
<1>4. /\ SubSeq(s, 1, DataFiles) \in Seq(Versions) /\ Len(SubSeq(s, 1, DataFiles)) = DataFiles
      /\ \A i \in 1 .. DataFiles : SubSeq(s, 1, DataFiles)[i] = s[i]
  BY <1>1, <1>3, SubSeqProperties
<1>5. SubSeq(s, 1, DataFiles) \in Content
  <2> DEFINE content == SubSeq(s, 1, DataFiles)
  <2>1. content \in Seq(Versions) /\ Len(content) = DataFiles
    BY <1>4
  <2> HIDE DEF content
  <2>2. content \in [1 .. DataFiles -> Versions]
    BY <1>1, <2>1
  <2> QED BY <2>2 DEF content, Content
<1>6. NoContent \notin Content
  BY <1>1, <1>2 DEF Content
<1>7. s \in [1 .. DataFiles + 1 -> Versions]
  BY <1>1
<1>8. s # NoContent
  BY <1>1, <1>2, <1>7
<1>9. s # <<>>
  BY <1>1
<1> QED BY <1>4, <1>5, <1>6, <1>8, <1>9 DEF Contents

\* Contents are equal when their files are.
LEMMA SameContent ==
  ASSUME NEW f \in Content, NEW g \in Content, \A i \in 1 .. DataFiles : f[i] = g[i]
  PROVE  f = g
<1>1. DataFiles \in Nat
  BY ArtifactAssumption
<1> QED BY <1>1 DEF Content

LEMMA InitOK == ArtifactInit => CacheInv
<1> SUFFICES ASSUME ArtifactInit PROVE CacheInv
  OBVIOUS
<1>1. <<>> \in Seq(Versions)
  OBVIOUS
<1>2. CallOK(NoCall)
  BY <1>1, ArtifactAssumption DEF CallOK, NoCall, Places, Content
<1>3. \A p \in Publishers : publisher[p] = NoCall
  BY DEF ArtifactInit
<1>4. remote \in Versions /\ DirectoryOK
  BY DEF ArtifactInit, DirectoryOK, Written
<1> QED BY <1>2, <1>3, <1>4 DEF ArtifactInit, CacheInv

\* A step in which p goes on to `call`, and that leaves the directory alone,
\* preserves the invariant if it holds of that call.
LEMMA GoesOK ==
  ASSUME CacheInv, NEW p \in Publishers, NEW call, CallOK(call),
         Goes(p, call), UNCHANGED directory, remote' \in Versions
  PROVE  CacheInv'
<1>1. \A q \in Publishers : publisher'[q] = IF q = p THEN call ELSE publisher[q]
  BY DEF Goes, CacheInv
<1>2. \A q \in Publishers : CallOK(publisher'[q])
  BY <1>1 DEF CacheInv
<1>3. Written' = Written /\ DirectoryOK'
  BY DEF CacheInv, DirectoryOK, Written
<1>4. \A q \in Publishers : CallOK(publisher[q])'
  BY <1>2, <1>3 DEF CallOK, Contents
<1> QED BY <1>3, <1>4 DEF CacheInv, Goes

\* No files are staged before and after a call, nor when it gives up.
LEMMA Emptied ==
  ASSUME NEW call, CallOK(call), NEW none \in Seq(Versions), Len(none) = 0
  PROVE  CallOK([call EXCEPT !.at = "idle", !.staged = none])
<1> DEFINE next == [call EXCEPT !.at = "idle", !.staged = none]
<1>1. next \in [at : Places, kind : {"none", "prepare", "local", "load", "save"},
                own : Content \cup {NoContent}, staged : Seq(Versions),
                given : Content \cup {NoContent}]
  BY DEF CallOK, Places
<1>2. next.at = "idle" /\ next.staged = none /\ next.own = call.own /\ next.kind = call.kind
  BY DEF CallOK
<1>3. \A i \in 1 .. DataFiles : ~(i <= Len(none))
  BY ArtifactAssumption
<1>4. call.kind = "save" => call.own # NoContent
  BY DEF CallOK
<1> HIDE DEF next
<1>5. CallOK(next)
  BY <1>1, <1>2, <1>3, <1>4 DEF CallOK
<1> QED BY <1>5 DEF next

LEMMA FailsOK == ASSUME NEW call, CallOK(call) PROVE CallOK(Fails(call))
<1>1. <<>> \in Seq(Versions) /\ Len(<<>>) = 0
  OBVIOUS
<1> QED BY <1>1, Emptied DEF Fails

LEMMA Begun ==
  ASSUME NEW kind \in {"prepare", "local", "load", "save"},
         NEW own \in Content \cup {NoContent}, kind = "save" => own # NoContent
  PROVE  CallOK([NoCall EXCEPT !.at = "check", !.kind = kind, !.own = own])
<1> DEFINE none == <<>>
<1>1. none \in Seq(Versions) /\ Len(none) = 0 /\ none = <<>>
  OBVIOUS
<1> DEFINE next == [NoCall EXCEPT !.at = "check", !.kind = kind, !.own = own]
<1>0. NoCall = [at |-> "idle", kind |-> "none", own |-> NoContent, staged |-> none,
                given |-> NoContent]
  BY DEF NoCall
<1> HIDE DEF none
<1>2. next.at = "check" /\ next.kind = kind /\ next.own = own /\ next.staged = none
  BY <1>0
<1>3. next \in [at : Places, kind : {"none", "prepare", "local", "load", "save"},
                own : Content \cup {NoContent}, staged : Seq(Versions),
                given : Content \cup {NoContent}]
  BY <1>0, <1>1 DEF Places
<1>4. \A i \in 1 .. DataFiles : ~(i <= Len(none))
  BY <1>1, ArtifactAssumption
<1> HIDE DEF next
<1>5. CallOK(next)
  BY <1>1, <1>2, <1>3, <1>4 DEF CallOK
<1> QED BY <1>5 DEF next

LEMMA StepOK == CacheInv /\ [ArtifactNext]_artifactVars => CacheInv'
<1> SUFFICES ASSUME CacheInv, [ArtifactNext]_artifactVars PROVE CacheInv'
  OBVIOUS
<1>0. DataFiles \in Nat \ {0} /\ remote \in Versions
  BY ArtifactAssumption DEF CacheInv
<1>a. \A p \in Publishers : CallOK(publisher[p])
  BY DEF CacheInv
<1>1. ASSUME NEW p \in Publishers, NEW kind \in Kinds, NEW version \in Versions,
             Calls(p, kind, version)
      PROVE  CacheInv'
  <2> DEFINE call == [NoCall EXCEPT !.at = "check", !.kind = kind,
                        !.own = IF kind \in {"local", "save"}
                                THEN [i \in 1 .. DataFiles |-> version] ELSE NoContent]
  <2>1. kind \in {"prepare", "local", "load", "save"}
    BY DEF Kinds
  <2>3. [i \in 1 .. DataFiles |-> version] \in Content
    BY DEF Content
  <2>4. NoContent \notin Content
    BY <1>0, ArtifactAssumption DEF Content
  <2>5. CallOK(call)
    BY <2>1, <2>3, <2>4, Begun
  <2> QED BY <1>1, <2>5, <1>0, GoesOK DEF Calls
<1>2. ASSUME NEW p \in Publishers, CheckDestination(p) PROVE CacheInv'
  <2> DEFINE call == publisher[p]
  <2>1. CallOK(call) /\ call.at = "check" /\ CallOK(Fails(call))
    BY <1>a, <1>2, FailsOK DEF CheckDestination
  <2>2. CallOK([call EXCEPT !.at = "stage"])
    BY <2>1, <1>0 DEF CallOK, Places
  <2>3. directory # NoContent => CallOK([call EXCEPT !.at = "load"])
    BY <2>1 DEF CallOK, Places
  <2>4. PICK next : CallOK(next) /\ Goes(p, next)
    <3>1. CASE call.kind = "save"
      BY <3>1, <1>2, <2>1, <2>2 DEF CheckDestination
    <3>2. CASE call.kind = "load"
      BY <3>2, <1>2, <2>1, <2>3 DEF CheckDestination
    <3>3. CASE call.kind \notin {"save", "load"}
      <4>1. Goes(p, [call EXCEPT !.at = IF directory # NoContent THEN "load" ELSE "stage"])
        BY <3>3, <1>2 DEF CheckDestination
      <4> QED BY <4>1, <2>2, <2>3
    <3> QED BY <3>1, <3>2, <3>3
  <2> QED BY <1>2, <2>4, <1>0, GoesOK DEF CheckDestination, Elsewhere
<1>3. ASSUME NEW p \in Publishers, StageFile(p) PROVE CacheInv'
  <2> DEFINE call == publisher[p]
             file == IF call.own = NoContent THEN remote ELSE call.own[Len(call.staged) + 1]
             staged == Append(call.staged, file)
  <2>1. CallOK(call) /\ call.at = "stage" /\ Len(call.staged) < DataFiles
    BY <1>a, <1>3 DEF StageFile
  <2>2. Len(call.staged) \in Nat /\ call.staged \in Seq(Versions)
    BY <2>1 DEF CallOK
  <2>3. file \in Versions
    BY <2>1, <2>2, <1>0 DEF CallOK, Content
  <2>4. /\ staged \in Seq(Versions) /\ Len(staged) = Len(call.staged) + 1
        /\ \A i \in 1 .. Len(call.staged) : staged[i] = call.staged[i]
        /\ staged[Len(call.staged) + 1] = file
    <3> HIDE DEF file
    <3> QED BY <2>2, <2>3, AppendProperties
  <2>5. call.own # NoContent =>
          \A i \in 1 .. DataFiles : i <= Len(staged) => staged[i] = call.own[i]
    <3> SUFFICES ASSUME call.own # NoContent, NEW i \in 1 .. DataFiles, i <= Len(staged)
                 PROVE  staged[i] = call.own[i]
      OBVIOUS
    <3>1. CASE i <= Len(call.staged)
      <4>1. staged[i] = call.staged[i]
        BY <3>1, <2>2, <2>4, <1>0
      <4> QED BY <4>1, <3>1, <2>1 DEF CallOK
    <3>2. CASE i = Len(call.staged) + 1
      BY <3>2, <2>4
    <3> QED BY <3>1, <3>2, <2>2, <2>4, <1>0
  <2>6. CallOK([call EXCEPT !.staged = staged])
    <3> HIDE DEF staged
    <3> QED BY <2>1, <2>2, <2>4, <2>5, <1>0 DEF CallOK
  <2>7. Goes(p, [call EXCEPT !.staged = staged])
    BY <1>3 DEF StageFile
  <2> QED BY <1>3, <2>6, <2>7, <1>0, GoesOK DEF StageFile, Elsewhere
<1>4. ASSUME NEW p \in Publishers, StageLast(p) PROVE CacheInv'
  <2> DEFINE call == publisher[p]
             staged == Append(call.staged, call.staged[1])
  <2>1. CallOK(call) /\ call.at = "stage" /\ Len(call.staged) = DataFiles
    BY <1>a, <1>4 DEF StageLast
  <2>2. call.staged \in Seq(Versions) /\ call.staged[1] \in Versions
    BY <2>1, <1>0 DEF CallOK
  <2>3. /\ staged \in Seq(Versions) /\ Len(staged) = DataFiles + 1
        /\ \A i \in 1 .. DataFiles : staged[i] = call.staged[i]
    BY <2>1, <2>2, AppendProperties
  <2>4. CallOK([call EXCEPT !.at = "install", !.staged = staged])
    <3>1. call.own # NoContent => \A i \in 1 .. DataFiles : staged[i] = call.own[i]
      BY <2>1, <2>3, <1>0 DEF CallOK
    <3> HIDE DEF staged
    <3> QED BY <2>1, <2>3, <3>1, <1>0 DEF CallOK, Places
  <2>5. Goes(p, [call EXCEPT !.at = "install", !.staged = staged])
    BY <1>4 DEF StageLast
  <2> QED BY <1>4, <2>4, <2>5, <1>0, GoesOK DEF StageLast, Elsewhere
<1>5. ASSUME NEW p \in Publishers, InstallStaged(p) PROVE CacheInv'
  <2> DEFINE call == publisher[p]
  <2>1. CallOK(call) /\ call.at = "install"
    BY <1>a, <1>5 DEF InstallStaged
  <2>2. CASE ~Replaces(directory)
    <3>1. CallOK(Fails(call)) /\ Goes(p, Fails(call)) /\ UNCHANGED <<directory, remote>>
      BY <2>1, <2>2, <1>5, FailsOK DEF InstallStaged
    <3> QED BY <3>1, <1>0, GoesOK
  <2>3. CASE Replaces(directory)
    <3> DEFINE next == [call EXCEPT !.staged = <<>>,
                          !.at = IF call.kind = "save" THEN "sync" ELSE "load"]
    <3>1. directory' = call.staged /\ Goes(p, next) /\ remote' = remote
      BY <2>3, <1>5 DEF InstallStaged
    <3>2. /\ directory' \in Seq(Versions) /\ Len(directory') = DataFiles + 1
          /\ Contents(directory') \in Content
          /\ \A i \in 1 .. DataFiles : Contents(directory')[i] = directory'[i]
          /\ directory' \notin {NoContent, <<>>}
      BY <2>1, <3>1, FullIsContent DEF CallOK
    <3>3. call.own # NoContent => call.own = Contents(directory')
      <4> SUFFICES ASSUME call.own # NoContent PROVE call.own = Contents(directory')
        OBVIOUS
      <4>1. call.own \in Content
        BY <2>1 DEF CallOK
      <4>2. \A i \in 1 .. DataFiles : call.staged[i] = call.own[i]
        BY <2>1, <1>0 DEF CallOK
      <4>3. \A i \in 1 .. DataFiles : call.own[i] = Contents(directory')[i]
        BY <4>2, <3>1, <3>2
      <4> QED BY <4>1, <4>3, <3>2, SameContent
    <3>4. Written' /\ ~Written
      BY <2>3, <3>2 DEF Written, Replaces
    <3>5. <<>> \in Seq(Versions) /\ Len(<<>>) = 0
      OBVIOUS
    <3>6. CallOK(publisher[p])'
      <4>1. publisher'[p] = next
        BY <3>1 DEF Goes, CacheInv
      <4>2. next \in [at : Places, kind : {"none", "prepare", "local", "load", "save"},
                      own : Content \cup {NoContent}, staged : Seq(Versions),
                      given : Content \cup {NoContent}]
        BY <2>1, <3>5 DEF CallOK, Places
      <4>3. /\ next.at \in {"sync", "load"} /\ Len(next.staged) = 0 /\ next.own = call.own
            /\ next.kind = call.kind /\ (next.at = "sync" => call.kind = "save")
        BY <2>1, <3>5 DEF CallOK
      <4>4. call.kind = "save" => call.own # NoContent
        BY <2>1 DEF CallOK
      <4> HIDE DEF next, call
      <4> QED BY <4>1, <4>2, <4>3, <4>4, <3>2, <3>3, <3>4, <1>0 DEF CallOK
    <3>7. \A q \in Publishers : CallOK(publisher[q])'
      <4> SUFFICES ASSUME NEW q \in Publishers PROVE CallOK(publisher[q])'
        OBVIOUS
      <4>1. CASE q = p
        BY <4>1, <3>6
      <4>2. CASE q # p
        <5>1. publisher'[q] = publisher[q] /\ CallOK(publisher[q])
          BY <4>2, <3>1, <1>a DEF Goes, CacheInv
        <5> QED BY <5>1, <3>2, <3>4 DEF CallOK
      <4> QED BY <4>1, <4>2
    <3> QED BY <3>1, <3>2, <3>7, <1>0 DEF CacheInv, DirectoryOK, Goes
  <2> QED BY <2>2, <2>3
<1>6. ASSUME NEW p \in Publishers, LoadDirectory(p) PROVE CacheInv'
  <2> DEFINE call == publisher[p]
  <2>1. CallOK(call) /\ call.at = "load" /\ CallOK(Fails(call))
    BY <1>a, <1>6, FailsOK DEF LoadDirectory
  <2>2. CASE IsComplete(directory) /\ call.own \in {NoContent, Contents(directory)}
    <3>1. directory # NoContent /\ Len(directory) = DataFiles + 1
      BY <2>1, <2>2 DEF CallOK, IsComplete
    <3>2. Written
      BY <3>1, <1>0 DEF Written
    <3>3. Contents(directory) \in Content
      BY <3>1, <3>2, FullIsContent DEF CacheInv, DirectoryOK
    <3>4. CallOK([call EXCEPT !.at = "idle", !.given = Contents(directory)])
      BY <2>1, <3>3 DEF CallOK, Places
    <3> QED BY <2>2, <3>4, <1>6, <1>0, GoesOK DEF LoadDirectory, Elsewhere
  <2>3. CASE ~(IsComplete(directory) /\ call.own \in {NoContent, Contents(directory)})
    BY <2>1, <2>3, <1>6, <1>0, GoesOK DEF LoadDirectory, Elsewhere
  <2> QED BY <2>2, <2>3
<1>7. ASSUME NEW p \in Publishers, ReturnSaved(p) PROVE CacheInv'
  <2> DEFINE call == publisher[p]
  <2>1. CallOK(call) /\ call.at = "sync"
    BY <1>a, <1>7 DEF ReturnSaved
  <2>2. CallOK([call EXCEPT !.at = "idle", !.given = call.own])
    BY <2>1 DEF CallOK, Places
  <2> QED BY <1>7, <2>2, <1>0, GoesOK DEF ReturnSaved, Elsewhere
<1>8. ASSUME NEW p \in Publishers, CallFails(p) PROVE CacheInv'
  BY <1>8, <1>a, <1>0, FailsOK, GoesOK DEF CallFails, Elsewhere
<1>9. CASE RemoteChanges
  BY <1>9 DEF RemoteChanges, CacheInv, CallOK, DirectoryOK, Written, Contents
<1>10. CASE UNCHANGED artifactVars
  BY <1>10 DEF artifactVars, CacheInv, CallOK, DirectoryOK, Written, Contents
<1> QED BY <1>1, <1>2, <1>3, <1>4, <1>5, <1>6, <1>7, <1>8, <1>9, <1>10 DEF ArtifactNext

LEMMA CacheInvAlways == ArtifactSpec => []CacheInv
  BY InitOK, StepOK, PTL DEF ArtifactSpec

-----------------------------------------------------------------------------
\* What the directory holds, what callers were given, what they ask for.
Held   == IF directory \in {NoContent, <<>>} THEN NoContent ELSE Contents(directory)
Given  == [p \in Publishers |-> publisher[p].given]
Wished == [p \in Publishers |-> publisher[p].own]

\* A step in which p goes on with the same answer and wish, and that leaves
\* the directory alone, changes nothing that is promised.
LEMMA Unseen ==
  ASSUME CacheInv, NEW p \in Publishers, NEW call, Goes(p, call), UNCHANGED directory,
         call.given = publisher[p].given, call.own = publisher[p].own
  PROVE  UNCHANGED <<Held, Given, Wished>>
<1>1. \A q \in Publishers : publisher'[q] = IF q = p THEN call ELSE publisher[q]
  BY DEF Goes, CacheInv
<1>2. \A q \in Publishers : /\ publisher'[q].given = publisher[q].given
                            /\ publisher'[q].own = publisher[q].own
  BY <1>1
<1>3. Given' = Given /\ Wished' = Wished
  BY <1>2 DEF Given, Wished
<1>4. Held' = Held
  BY DEF Held, Contents
<1> QED BY <1>3, <1>4

\* A step in which p is given what the directory holds is an answer.
LEMMA Answers ==
  ASSUME CacheInv, Written, NEW p \in Publishers, NEW call, Goes(p, call),
         UNCHANGED directory, call.own = publisher[p].own,
         call.given = Contents(directory), call.own \in {NoContent, Contents(directory)}
  PROVE  Once!Answer(p)
<1>1. \A q \in Publishers : publisher'[q] = IF q = p THEN call ELSE publisher[q]
  BY DEF Goes, CacheInv
<1>2. Held = Contents(directory) /\ Held # NoContent /\ Held' = Held
  BY FullIsContent DEF Held, Written, CacheInv, DirectoryOK, Contents
<1>3. Wished' = Wished
  BY <1>1 DEF Wished
<1>4. Given' = [Given EXCEPT ![p] = Held]
  BY <1>1, <1>2 DEF Given
<1>5. Wished[p] \in {NoContent, Held}
  BY <1>2 DEF Wished
<1> QED BY <1>2, <1>3, <1>4, <1>5 DEF Once!Answer, Held, Given, Wished

\* Each step is one of the promise, or changes nothing that is promised.
LEMMA OnceStep ==
  CacheInv /\ [ArtifactNext]_artifactVars => [Once!OnceNext]_(Once!onceVars)
<1> SUFFICES ASSUME CacheInv, [ArtifactNext]_artifactVars
             PROVE  Once!OnceNext \/ UNCHANGED <<Held, Given, Wished>>
  BY DEF Once!onceVars, Held, Given, Wished
<1>a. \A p \in Publishers : CallOK(publisher[p])
  BY DEF CacheInv
<1>b. \A p \in Publishers : /\ Fails(publisher[p]).given = publisher[p].given
                            /\ Fails(publisher[p]).own = publisher[p].own
  BY <1>a DEF CallOK, Fails
<1>1. ASSUME NEW p \in Publishers, NEW kind \in Kinds, NEW version \in Versions,
             Calls(p, kind, version)
      PROVE  Once!Ask(p)
  <2>1. /\ \A q \in Publishers \ {p} : publisher'[q] = publisher[q]
        /\ publisher'[p].given = NoContent
        /\ directory' = directory
    BY <1>1 DEF Calls, Goes, CacheInv, NoCall
  <2>2. Given' = [Given EXCEPT ![p] = NoContent]
    BY <2>1 DEF Given
  <2>3. Wished' = [Wished EXCEPT ![p] = Wished'[p]]
    BY <2>1 DEF Wished
  <2>4. Held' = Held
    BY <2>1 DEF Held, Contents
  <2> QED BY <2>2, <2>3, <2>4 DEF Once!Ask, Held, Given, Wished
<1>2. ASSUME NEW p \in Publishers, CheckDestination(p)
      PROVE  UNCHANGED <<Held, Given, Wished>>
  <2> DEFINE call == publisher[p]
  <2>1. PICK next : Goes(p, next) /\ next.given = call.given /\ next.own = call.own
    <3>1. \A place : /\ [call EXCEPT !.at = place].given = call.given
                     /\ [call EXCEPT !.at = place].own = call.own
      BY <1>a DEF CallOK
    <3>2. CASE call.kind = "save"
      BY ZenonT(60), <3>1, <3>2, <1>2, <1>b DEF CheckDestination
    <3>3. CASE call.kind = "load"
      BY ZenonT(60), <3>1, <3>3, <1>2, <1>b DEF CheckDestination
    <3>4. CASE call.kind \notin {"save", "load"}
      <4>1. Goes(p, [call EXCEPT !.at = IF directory # NoContent THEN "load" ELSE "stage"])
        BY <3>4, <1>2 DEF CheckDestination
      <4> QED BY <4>1, <3>1
    <3> QED BY <3>2, <3>3, <3>4
  <2> QED BY <1>2, <2>1, Unseen DEF CheckDestination, Elsewhere
<1>3. ASSUME NEW p \in Publishers, StageFile(p) \/ StageLast(p)
      PROVE  UNCHANGED <<Held, Given, Wished>>
  <2> DEFINE call == publisher[p]
  <2>1. \A files :
          /\ [call EXCEPT !.staged = files].given = call.given
          /\ [call EXCEPT !.staged = files].own = call.own
    BY <1>a DEF CallOK
  <2>2. PICK next : Goes(p, next) /\ next.given = call.given /\ next.own = call.own
    <3>1. CASE StageFile(p)
      <4>1. Goes(p, [call EXCEPT !.staged = Append(call.staged,
              IF call.own = NoContent THEN remote ELSE call.own[Len(call.staged) + 1])])
        BY <3>1 DEF StageFile
      <4> QED BY <4>1, <2>1
    <3>2. CASE StageLast(p)
      <4> DEFINE last == [call EXCEPT !.at = "install",
                                      !.staged = Append(call.staged, call.staged[1])]
      <4>1. Goes(p, last)
        BY <3>2 DEF StageLast
      <4>2. last.given = call.given /\ last.own = call.own
        BY <1>a DEF CallOK
      <4> HIDE DEF last
      <4> QED BY <4>1, <4>2
    <3> QED BY <1>3, <3>1, <3>2
  <2>3. UNCHANGED directory
    BY <1>3 DEF StageFile, StageLast, Elsewhere
  <2> QED BY <2>2, <2>3, Unseen
<1>4. ASSUME NEW p \in Publishers, InstallStaged(p)
      PROVE  Once!Write \/ UNCHANGED <<Held, Given, Wished>>
  <2> DEFINE call == publisher[p]
  <2>1. CASE ~Replaces(directory)
    <3>1. Goes(p, Fails(call)) /\ UNCHANGED directory
      BY <2>1, <1>4 DEF InstallStaged
    <3> QED BY <3>1, <1>b, Unseen
  <2>2. CASE Replaces(directory)
    <3> DEFINE next == [call EXCEPT !.staged = <<>>,
                          !.at = IF call.kind = "save" THEN "sync" ELSE "load"]
    <3>1. directory' = call.staged /\ Goes(p, next)
      BY <2>2, <1>4 DEF InstallStaged
    <3>2. call.staged \in Seq(Versions) /\ Len(call.staged) = DataFiles + 1
      BY <1>a, <1>4 DEF InstallStaged, CallOK
    <3>3. Held = NoContent /\ Held' # NoContent
      BY <2>2, <3>1, <3>2, FullIsContent DEF Held, Replaces, Contents
    <3>4. next.given = call.given /\ next.own = call.own
      BY <1>a DEF CallOK
    <3>5. \A q \in Publishers : /\ publisher'[q].given = publisher[q].given
                                /\ publisher'[q].own = publisher[q].own
      BY <3>1, <3>4 DEF Goes, CacheInv
    <3>6. Given' = Given /\ Wished' = Wished
      BY <3>5 DEF Given, Wished
    <3> QED BY <3>3, <3>6 DEF Once!Write, Held, Given, Wished
  <2> QED BY <2>1, <2>2
<1>5. ASSUME NEW p \in Publishers, LoadDirectory(p)
      PROVE  Once!Answer(p) \/ UNCHANGED <<Held, Given, Wished>>
  <2> DEFINE call == publisher[p]
             next == [call EXCEPT !.at = "idle", !.given = Contents(directory)]
  <2>1. CallOK(call) /\ call.at = "load" /\ UNCHANGED directory
    BY <1>a, <1>5 DEF LoadDirectory, Elsewhere
  <2>2. CASE IsComplete(directory) /\ call.own \in {NoContent, Contents(directory)}
    <3>1. Written
      BY <2>1, <2>2, ArtifactAssumption DEF Written, CallOK, IsComplete
    <3>2. Goes(p, next) /\ next.own = call.own /\ next.given = Contents(directory)
      BY <2>1, <2>2, <1>5 DEF LoadDirectory, CallOK
    <3> QED BY <2>1, <2>2, <3>1, <3>2, Answers
  <2>3. CASE ~(IsComplete(directory) /\ call.own \in {NoContent, Contents(directory)})
    <3>1. Goes(p, Fails(call))
      BY <2>3, <1>5 DEF LoadDirectory
    <3> QED BY <3>1, <2>1, <1>b, Unseen
  <2> QED BY <2>2, <2>3
<1>6. ASSUME NEW p \in Publishers, ReturnSaved(p) PROVE Once!Answer(p)
  <2> DEFINE call == publisher[p]
             next == [call EXCEPT !.at = "idle", !.given = call.own]
  <2>1. CallOK(call) /\ call.at = "sync" /\ UNCHANGED directory /\ Goes(p, next)
    BY <1>a, <1>6 DEF ReturnSaved, Elsewhere
  <2>2. Written /\ call.own = Contents(directory)
    BY <2>1 DEF CallOK
  <2>3. next.own = call.own /\ next.given = call.own
    BY <2>1 DEF CallOK
  <2> QED BY <2>1, <2>2, <2>3, Answers
<1>7. ASSUME NEW p \in Publishers, CallFails(p) PROVE UNCHANGED <<Held, Given, Wished>>
  BY <1>7, <1>b, Unseen DEF CallFails, Elsewhere
<1>8. CASE RemoteChanges
  BY <1>8 DEF RemoteChanges, Held, Given, Wished, Contents
<1>9. CASE UNCHANGED artifactVars
  BY <1>9 DEF artifactVars, Held, Given, Wished, Contents
<1> QED BY <1>1, <1>2, <1>3, <1>4, <1>5, <1>6, <1>7, <1>8, <1>9 DEF ArtifactNext, Once!OnceNext

\* However calls interleave, fail or are killed, a published directory is
\* written once and as a whole, and who is told that it is there is given
\* what it holds.
THEOREM PublishesOnceHolds == ArtifactSpec => PublishesOnce
<1>1. ArtifactInit => Once!OnceInit
  BY DEF ArtifactInit, Once!OnceInit, NoCall
<1> QED BY <1>1, OnceStep, CacheInvAlways, PTL DEF ArtifactSpec, PublishesOnce, Once!OnceSpec

(***************************************************************************)
(* RunComparison: a ranking is of final runs, and their places are their   *)
(* scores'.  The argument: a run whose summary says that it is completed   *)
(* has its last event in its log, and a report, once there, is never       *)
(* replaced; so what a comparison has read of such a run is still so when  *)
(* it publishes.  It refuses a report of another version.  The listing of the scores exists because the runs are    *)
(* finitely many and compared by score and place, a strict total order.    *)
(***************************************************************************)
\* A contestant's files as they can be.
Directories == [at : {"train", "summary", "over", "dead", "evaluate", "evaluated"},
                status : {"running", "completed", "failed"},
                latest : Nat, logged : Nat, torn : BOOLEAN,
                report : Reports]

\* Entries of a ranking.
Placings == [run : Contestants, score : Nat, rank : Nat]
\* How many scores, and how many places of a ranking, are better than the nth.
LessThan(scores, n) == Cardinality({m \in DOMAIN scores : scores[m] < scores[n]})
BetterThan(v, n)    == Cardinality({m \in DOMAIN v : v[m].score < v[n].score})
Verdicts == [ranking : {<<>>} \cup [1 .. Cardinality(Contestants) -> Placings],
             blocked : SUBSET Contestants, quiet : BOOLEAN]

ComparisonTypeOK ==
  /\ contest \in [Contestants -> Directories]
  /\ judge \in [at : {"idle", "summary", "metrics", "evaluation", "report", "json"},
                run : Nat, read : [Contestants -> Directories], quiet : BOOLEAN,
                reply : {"none", "refused"}]
  /\ verdict \in [markdown : Verdicts, json : Verdicts]
  /\ comparisons \in Nat
  /\ judge.at \in {"summary", "metrics", "evaluation"} => judge.run \in Contestants

\* Training is over and the log is whole, for good.
Past(d) == d.at \in {"over", "dead", "evaluate", "evaluated"} /\ ~d.torn

DirectoriesOK ==
  \A r \in Contestants : LET d == contest[r] IN
    /\ d.status = "completed" => d.at = "over"
    /\ d.torn => d.at = "dead"

\* What the running comparison has read of a run so far.
HasRead(r, stages) ==
  \/ judge.at \in {"report", "json"}
  \/ judge.at \in {"summary", "metrics", "evaluation"} /\ r < judge.run
  \/ judge.at \in stages /\ r = judge.run
SummaryRead(r)    == HasRead(r, {"metrics", "evaluation"})
MetricsRead(r)    == HasRead(r, {"evaluation"})
EvaluationRead(r) == HasRead(r, {})

JudgeRunOK(r) ==
  LET d == contest[r]
      seen == judge.read[r] IN
    /\ SummaryRead(r) =>
         /\ seen.status = "completed" => Past(d)
         /\ judge.quiet => seen.status = d.status /\ seen.latest = d.latest
    /\ MetricsRead(r) =>
         /\ seen.status = "completed" => seen.logged = d.logged
         /\ judge.quiet => seen.logged = d.logged
    /\ EvaluationRead(r) =>
         /\ Readable(seen.report)
         /\ seen.report # Unevaluated => d.report = seen.report
         /\ judge.quiet => d.report = seen.report
JudgeOK == \A r \in Contestants : JudgeRunOK(r)

\* A published ranking is of runs whose files no longer change.
Placed(v) == {v[n].run : n \in DOMAIN v}
VerdictOK(v) ==
  /\ v.ranking # <<>> =>
       /\ Placed(v.ranking) = Contestants
       /\ \A n, m \in DOMAIN v.ranking : v.ranking[n].run = v.ranking[m].run => n = m
       /\ \A r \in Contestants :
            Past(contest[r]) /\ contest[r].logged = ContestTarget
            /\ contest[r].report.bpb /\ contest[r].report.version = ReadVersion
       /\ \A n \in DOMAIN v.ranking :
            /\ v.ranking[n].score = contest[v.ranking[n].run].report.score
            /\ v.ranking[n].rank = 1 + BetterThan(v.ranking, n)
       /\ \A p, q \in Contestants : contest[p].report.key = contest[q].report.key
  /\ v.quiet =>
       /\ \A r \in Contestants : Comparable(contest[r]) => r \notin v.blocked
       /\ v.ranking = <<>> /\ v.blocked = {} =>
            \E p, q \in Contestants : contest[p].report.key # contest[q].report.key

ComparisonInv ==
  /\ ComparisonTypeOK /\ DirectoriesOK /\ JudgeOK
  /\ VerdictOK(verdict.markdown) /\ VerdictOK(verdict.json)

USE ComparisonAssumption

-----------------------------------------------------------------------------
\* What is no report has no result, and what is one has a score.
LEMMA UnevaluatedIs ==
  /\ Unevaluated = [score |-> 0, key |-> "none", bpb |-> FALSE, version |-> 0]
  /\ ~Unevaluated.bpb /\ Unevaluated.score = 0
  BY DEF Unevaluated, Versioned

LEMMA ReportsType == \A y \in Reports : y.score \in Nat
<1>1. ASSUME NEW x \in ContestReports, NEW n PROVE Versioned(x, n).score \in Nat
  BY DEF Versioned
<1>2. ASSUME NEW y \in Reports PROVE y.score \in Nat
  <2>1. CASE y = Unevaluated
    BY <2>1, UnevaluatedIs
  <2>2. CASE y # Unevaluated
    <3>1. PICK x \in ContestReports, n \in {ReadVersion, ReportVersion} : y = Versioned(x, n)
      BY ONLY y \in Reports, <2>2 DEF Reports
    <3> QED BY <1>1, <3>1
  <2> QED BY <2>1, <2>2
<1> QED BY <1>2

LEMMA WrittenIsReport ==
  ASSUME NEW x \in ContestReports, NEW n \in {ReadVersion, ReportVersion}
  PROVE  Versioned(x, n) \in Reports
  BY ONLY x \in ContestReports, n \in {ReadVersion, ReportVersion} DEF Reports

LEMMA NewRunIs == NewRun \in Directories /\ ~NewRun.torn /\ NewRun.status = "running"
  BY DEF NewRun, Directories, Reports

LEMMA ContestantsFinite ==
  /\ IsFiniteSet(Contestants) /\ Cardinality(Contestants) \in Nat
  /\ Cardinality(Contestants) >= 2 /\ Contestants # {}
<1>1. Cardinality(Contestants) \in Nat
  BY FS_CardinalityType
<1> QED BY <1>1, FS_EmptySet

\* Of a non-empty set of contestants, Min is one of them.
LEMMA MinContestant ==
  ASSUME NEW T \in SUBSET Contestants, T # {}
  PROVE  Min(T) \in T /\ \A r \in T : Min(T) <= r
<1>1. \E n \in T : \A m \in T : n <= m
  BY LeastNatural
<1> QED BY <1>1 DEF Min

\* The loop gives each score one more than the number of the better ones.
LEMMA TiedRanksCount ==
  ASSUME NEW N \in Nat, NEW scores \in [1 .. N -> Nat],
         \A m, n \in 1 .. N : m < n => scores[m] <= scores[n]
  PROVE  TiedRanks(scores) = [n \in 1 .. N |-> 1 + LessThan(scores, n)]
<1> DEFINE better(n)  == {m \in 1 .. N : scores[m] < scores[n]}
           counts     == [n \in 1 .. N |-> 1 + Cardinality(better(n))]
           next(g, n) == IF n > 1 /\ scores[n] = scores[n - 1] THEN g[n - 1] ELSE n
           ranks      == TiedRanks(scores)
<1>1. ASSUME NEW n \in 1 .. N PROVE counts[n] = next(counts, n)
  <2>1. CASE n > 1 /\ scores[n] = scores[n - 1]
    <3>1. n - 1 \in 1 .. N /\ better(n) = better(n - 1)
      BY <2>1
    <3> QED BY <2>1, <3>1
  <2>2. CASE ~(n > 1 /\ scores[n] = scores[n - 1])
    <3>1. ASSUME NEW m \in 1 .. N PROVE m \in better(n) <=> m < n
      <4>1. CASE m < n
        <5>1. n - 1 \in 1 .. N /\ n > 1 /\ scores[n - 1] < scores[n]
          BY <2>2, <4>1
        <5>2. scores[m] <= scores[n - 1]
          BY <4>1, <5>1
        <5> QED BY <4>1, <5>1, <5>2
      <4>2. CASE m >= n
        BY <4>2
      <4> QED BY <4>1, <4>2
    <3>2. better(n) = 1 .. n - 1
      BY <3>1
    <3>3. Cardinality(1 .. n - 1) = n - 1
      BY FS_Interval
    <3> HIDE DEF better
    <3>4. counts[n] = n
      BY <3>2, <3>3
    <3> QED BY <2>2, <3>4
  <2> QED BY <2>1, <2>2
<1> HIDE DEF better
<1>2. counts = [n \in 1 .. N |-> next(counts, n)]
  BY <1>1
<1>3. ranks = CHOOSE g : g = [n \in 1 .. N |-> next(g, n)]
  BY DEF TiedRanks
<1> HIDE DEF counts, ranks
<1>4. ranks = [n \in 1 .. N |-> next(ranks, n)]
  BY <1>2, <1>3
<1>5. \A n \in 1 .. N : ranks[n] = counts[n]
  <2> DEFINE wrong == {n \in 1 .. N : ranks[n] # counts[n]}
  <2> SUFFICES ASSUME wrong # {} PROVE FALSE
    OBVIOUS
  <2>0. wrong \in SUBSET Nat
    OBVIOUS
  <2>1. PICK n \in wrong : \A m \in wrong : n <= m
    <3> HIDE DEF wrong
    <3> QED BY <2>0, LeastNatural
  <2>2. next(ranks, n) = next(counts, n)
    <3>1. CASE n > 1
      <4>1. n - 1 \in 1 .. N /\ n - 1 \notin wrong
        BY <2>1, <3>1
      <4> QED BY <4>1
    <3>2. CASE ~(n > 1)
      BY <3>2
    <3> QED BY <3>1, <3>2
  <2>3. ranks[n] = next(ranks, n) /\ counts[n] = next(counts, n)
    BY <1>1, <1>4
  <2> QED BY <2>2, <2>3
<1>6. ranks = counts
  BY <1>2, <1>4, <1>5
<1>7. \A n \in 1 .. N : LessThan(scores, n) = Cardinality(better(n))
  BY DEF LessThan, better
<1> QED BY <1>6, <1>7 DEF counts, ranks

-----------------------------------------------------------------------------
\* The order lists every contestant once, best first.
LEMMA OrderedLists ==
  ASSUME NEW read \in [Contestants -> Directories]
  PROVE  LET N == Cardinality(Contestants)
             order == Ordered(read)
         IN  /\ order \in [1 .. N -> Contestants]
             /\ \A m, n \in 1 .. N : m < n => Before(read, order[m], order[n])
             /\ \A r \in Contestants : \E n \in 1 .. N : order[n] = r
             /\ \A m, n \in 1 .. N : order[m] = order[n] => m = n
<1> DEFINE N == Cardinality(Contestants)
           order == Ordered(read)
           R == {pair \in Contestants \X Contestants : Before(read, pair[1], pair[2])}
<1>1. \A r \in Contestants : read[r].report.score \in Nat
  BY ReportsType DEF Directories
<1>2. \A p, q \in Contestants : <<p, q>> \in R <=> Before(read, p, q)
  OBVIOUS
<1> HIDE DEF R
<1>3. Orders(R, Contestants)
  BY <1>1, <1>2 DEF Orders, Before
<1>4. \A s : s \in Listings(R, Contestants) <=>
         /\ s \in [1 .. N -> Contestants]
         /\ \A m, n \in 1 .. N : m < n => Before(read, s[m], s[n])
  BY <1>2 DEF Listings
<1>5. \E s \in [1 .. N -> Contestants] : \A m, n \in DOMAIN s : m < n => Before(read, s[m], s[n])
  BY <1>3, <1>4, ContestantsFinite, ListingExists
<1>6. /\ order \in [1 .. N -> Contestants]
      /\ \A m, n \in DOMAIN order : m < n => Before(read, order[m], order[n])
  BY <1>5 DEF Ordered
<1> HIDE DEF order
<1>7. order \in Listings(R, Contestants)
  BY <1>4, <1>6
<1>8. /\ \A r \in Contestants : \E n \in 1 .. N : order[n] = r
      /\ \A m, n \in 1 .. N : order[m] = order[n] => m = n
  BY <1>3, <1>7, ContestantsFinite, ListingIsOnto
<1> QED BY <1>6, <1>8 DEF order

\* One key: the set of the keys that were read has one element.
LEMMA OneKey ==
  ASSUME NEW read \in [Contestants -> Directories]
  PROVE  Cardinality({read[r].report.key : r \in Contestants}) = 1
           <=> \A p, q \in Contestants : read[p].report.key = read[q].report.key
<1> DEFINE keys == {read[r].report.key : r \in Contestants}
           f == [r \in Contestants |-> read[r].report.key]
<1>1. f \in Surjection(Contestants, keys)
  BY DEF Surjection
<1> HIDE DEF f
<1>2. IsFiniteSet(keys)
  BY <1>1, ContestantsFinite, FS_Surjection
<1>3. Cardinality(keys) = 1 <=> \E x : keys = {x}
  <2> HIDE DEF keys
  <2> QED BY <1>2, FS_Singleton
<1>4. (\E x : keys = {x}) <=> \A p, q \in Contestants : read[p].report.key = read[q].report.key
  <2>1. PICK r \in Contestants : TRUE
    BY ContestantsFinite
  <2>2. ASSUME \A p, q \in Contestants : read[p].report.key = read[q].report.key
        PROVE  keys = {read[r].report.key}
    BY <2>1, <2>2
  <2>3. ASSUME NEW x, keys = {x}, NEW p \in Contestants PROVE read[p].report.key = x
    <3>1. read[p].report.key \in keys
      OBVIOUS
    <3> QED BY <2>3, <3>1
  <2> QED BY <2>2, <2>3
<1> QED BY <1>3, <1>4

\* What _rank_protocol returns for what was read.
LEMMA RankingOfRead ==
  ASSUME NEW read \in [Contestants -> Directories]
  PROVE  LET N == Cardinality(Contestants)
             v == Ranking(read)
         IN  /\ v # <<>> <=> /\ \A r \in Contestants : ~Blocked(read[r])
                             /\ \A p, q \in Contestants : read[p].report.key = read[q].report.key
             /\ v = <<>> \/ v \in [1 .. N -> Placings]
             /\ v # <<>> =>
                  /\ {v[n].run : n \in 1 .. N} = Contestants
                  /\ \A n, m \in 1 .. N : v[n].run = v[m].run => n = m
                  /\ \A n \in 1 .. N :
                       /\ v[n].score = read[v[n].run].report.score
                       /\ v[n].rank = 1 + BetterThan(v, n)
<1> DEFINE N == Cardinality(Contestants)
           v == Ranking(read)
           order == Ordered(read)
           scores == [n \in 1 .. N |-> read[order[n]].report.score]
           ranked == [n \in 1 .. N |-> [run |-> order[n], score |-> scores[n],
                                        rank |-> TiedRanks(scores)[n]]]
           open == \/ \E r \in Contestants : Blocked(read[r])
                   \/ ~ \A p, q \in Contestants : read[p].report.key = read[q].report.key
<1>1. /\ order \in [1 .. N -> Contestants]
      /\ \A m, n \in 1 .. N : m < n => Before(read, order[m], order[n])
      /\ \A r \in Contestants : \E n \in 1 .. N : order[n] = r
      /\ \A m, n \in 1 .. N : order[m] = order[n] => m = n
  BY OrderedLists
<1>2. DOMAIN order = 1 .. N
  BY <1>1
<1>3. v = IF open THEN <<>> ELSE ranked
  <2> HIDE DEF order
  <2>1. [n \in DOMAIN order |-> read[order[n]].report.score] = scores
    BY <1>2
  <2> DEFINE one == Cardinality({read[r].report.key : r \in Contestants}) = 1
  <2>2. one <=> \A p, q \in Contestants : read[p].report.key = read[q].report.key
    BY OneKey
  <2>3. v = IF (\E r \in Contestants : Blocked(read[r])) \/ ~one THEN <<>> ELSE ranked
    BY <2>1, <1>2 DEF Ranking, order
  <2> HIDE DEF one, ranked, v
  <2> QED BY <2>2, <2>3
<1> HIDE DEF order
<1>4. \A r \in Contestants : read[r].report.score \in Nat
  BY ReportsType DEF Directories
<1>5. scores \in [1 .. N -> Nat] /\ \A m, n \in 1 .. N : m < n => scores[m] <= scores[n]
  <2>1. \A n \in 1 .. N : order[n] \in Contestants
    BY <1>1
  <2>2. \A n \in 1 .. N : scores[n] \in Nat /\ scores[n] = read[order[n]].report.score
    BY <1>4, <2>1
  <2>3. \A m, n \in 1 .. N : m < n => scores[m] <= scores[n]
    BY <1>1, <2>2 DEF Before
  <2> QED BY <2>2, <2>3
<1>6. TiedRanks(scores) = [n \in 1 .. N |-> 1 + LessThan(scores, n)]
  <2> HIDE DEF scores
  <2> QED BY <1>5, ContestantsFinite, TiedRanksCount
<1>7. \A n \in 1 .. N : 1 + LessThan(scores, n) \in Nat
  <2> HIDE DEF scores
  <2> TAKE n \in 1 .. N
  <2> DEFINE less == {m \in DOMAIN scores : scores[m] < scores[n]}
  <2>1. less \in SUBSET (1 .. N) /\ IsFiniteSet(1 .. N)
    BY <1>5, ContestantsFinite, FS_Interval
  <2>2. LessThan(scores, n) = Cardinality(less)
    BY DEF LessThan
  <2> HIDE DEF less
  <2>3. Cardinality(less) \in Nat
    BY <2>1, FS_Subset, FS_CardinalityType
  <2> QED BY <2>2, <2>3
<1>8. \A n \in 1 .. N :
         /\ ranked[n].run = order[n] /\ ranked[n].score = scores[n]
         /\ ranked[n].rank = 1 + LessThan(scores, n)
  BY <1>6
<1>9. ranked \in [1 .. N -> Placings]
  <2> SUFFICES ASSUME NEW n \in 1 .. N
               PROVE  [run |-> order[n], score |-> scores[n],
                       rank |-> TiedRanks(scores)[n]] \in Placings
    OBVIOUS
  <2>1. TiedRanks(scores)[n] \in Nat
    BY <1>6, <1>7
  <2>2. order[n] \in Contestants /\ scores[n] \in Nat
    BY <1>1, <1>5
  <2> HIDE DEF scores
  <2> QED BY <2>1, <2>2 DEF Placings
<1>10. ranked # <<>>
  <2>1. 1 \in DOMAIN ranked
    BY ContestantsFinite
  <2> HIDE DEF ranked
  <2> QED BY <2>1
<1>11. \A n \in 1 .. N : BetterThan(ranked, n) = LessThan(scores, n)
  <2> TAKE n \in 1 .. N
  <2>1. DOMAIN ranked = 1 .. N /\ DOMAIN scores = 1 .. N
    OBVIOUS
  <2> HIDE DEF ranked, scores
  <2>2. {m \in DOMAIN ranked : ranked[m].score < ranked[n].score}
          = {m \in DOMAIN scores : scores[m] < scores[n]}
    BY <1>8, <2>1
  <2> QED BY <2>2 DEF BetterThan, LessThan
<1>12. \A n \in 1 .. N : scores[n] = read[order[n]].report.score
  OBVIOUS
<1>13. {ranked[n].run : n \in 1 .. N} = Contestants
  <2> HIDE DEF ranked
  <2>0. \A n \in 1 .. N : order[n] \in Contestants /\ ranked[n].run = order[n]
    BY <1>1, <1>8
  <2>1. \A n \in 1 .. N : ranked[n].run \in Contestants
    BY <2>0
  <2>2. \A r \in Contestants : \E n \in 1 .. N : ranked[n].run = r
    <3> TAKE r \in Contestants
    <3>1. PICK n \in 1 .. N : order[n] = r
      BY <1>1
    <3> QED BY <3>1, <1>8
  <2> QED BY <2>1, <2>2
<1> HIDE DEF ranked, scores, v
<1>14. v # <<>> <=> ~open
  BY <1>3, <1>10
<1>15. v # <<>> => v = ranked
  BY <1>3
<1>16. /\ \A n, m \in 1 .. N : ranked[n].run = ranked[m].run => n = m
       /\ \A n \in 1 .. N :
            /\ ranked[n].score = read[ranked[n].run].report.score
            /\ ranked[n].rank = 1 + BetterThan(ranked, n)
  <2>1. \A n, m \in 1 .. N : ranked[n].run = ranked[m].run => n = m
    BY <1>1, <1>8
  <2>2. \A n \in 1 .. N : ranked[n].score = read[ranked[n].run].report.score
    BY <1>8, <1>12
  <2>3. \A n \in 1 .. N : ranked[n].rank = 1 + BetterThan(ranked, n)
    BY <1>8, <1>11
  <2> QED BY <2>1, <2>2, <2>3
<1> HIDE DEF N
<1>17. /\ v # <<>> <=> ~open
       /\ v = <<>> \/ v \in [1 .. N -> Placings]
       /\ v # <<>> =>
            /\ {v[n].run : n \in 1 .. N} = Contestants
            /\ \A n, m \in 1 .. N : v[n].run = v[m].run => n = m
            /\ \A n \in 1 .. N :
                 /\ v[n].score = read[v[n].run].report.score
                 /\ v[n].rank = 1 + BetterThan(v, n)
  <2>1. CASE v = <<>>
    BY <2>1, <1>14
  <2>2. CASE v # <<>>
    <3>1. v = ranked
      BY <2>2, <1>15
    <3> HIDE DEF open
    <3> QED BY <2>2, <3>1, <1>9, <1>13, <1>14, <1>16
  <2> QED BY <2>1, <2>2
<1> QED BY <1>17 DEF v, N

-----------------------------------------------------------------------------
\* What a write of a contestant's owner leaves of what others rely on.
Extends(e, d) ==
  /\ e \in Directories
  /\ e.status = "completed" => e.at = "over"
  /\ e.torn => e.at = "dead"
  /\ Past(d) => Past(e) /\ e.logged = d.logged
  /\ d.report # Unevaluated => e.report = d.report

Owner(r) == \/ AppendStep(r) \/ WriteSummary(r) \/ EndCommand(r) \/ DieAppending(r)
            \/ OpenForEvaluation(r) \/ PublishEvaluation(r)

LEMMA OwnerExtends ==
  ASSUME ComparisonInv, NEW r \in Contestants, Owner(r)
  PROVE  \E e : Writes(r, e) /\ Extends(e, contest[r])
<1> DEFINE d == contest[r]
<1>0. /\ d \in Directories
      /\ d.status = "completed" => d.at = "over"
      /\ d.torn => d.at = "dead"
  BY DEF ComparisonInv, ComparisonTypeOK, DirectoriesOK
<1> USE DEF Extends, Directories, Past
<1>1. CASE AppendStep(r)
  <2> DEFINE e == [d EXCEPT !.logged = @ + 1, !.at = "summary"]
  <2>1. Writes(r, e) /\ d.at = "train"
    BY <1>1 DEF AppendStep
  <2>2. d.status # "completed" /\ ~d.torn /\ d.logged + 1 \in Nat
    BY <1>0, <2>1
  <2>3. /\ e \in Directories /\ e.at = "summary" /\ e.status = d.status
        /\ e.torn = d.torn /\ e.report = d.report
    BY <1>0, <2>2
  <2> HIDE DEF e
  <2>4. Extends(e, d)
    BY <2>1, <2>2, <2>3
  <2> QED BY <2>1, <2>4
<1>2. CASE WriteSummary(r)
  <2> DEFINE e == [d EXCEPT !.latest = d.logged, !.at = "train"]
  <2>1. Writes(r, e) /\ d.at = "summary"
    BY <1>2 DEF WriteSummary
  <2>2. Extends(e, d)
    BY <1>0, <2>1
  <2> QED BY <2>1, <2>2
<1>3. CASE EndCommand(r)
  <2>1. PICK status \in {"completed", "failed"} :
          Writes(r, [d EXCEPT !.status = status, !.at = "over"])
    BY <1>3 DEF EndCommand
  <2> DEFINE e == [d EXCEPT !.status = status, !.at = "over"]
  <2>2. d.at \in {"train", "evaluate", "evaluated"}
    BY <1>3 DEF EndCommand
  <2>3. Extends(e, d)
    BY <1>0, <2>2
  <2> QED BY <2>1, <2>3
<1>4. CASE DieAppending(r)
  <2>1. PICK torn \in {FALSE, d.at = "train"} :
          Writes(r, [d EXCEPT !.torn = torn, !.at = "dead"])
    BY <1>4 DEF DieAppending
  <2> DEFINE e == [d EXCEPT !.torn = torn, !.at = "dead"]
  <2>2. d.at \in {"train", "summary", "evaluated"} /\ torn \in BOOLEAN
        /\ (torn => d.at = "train")
    BY <1>4 DEF DieAppending
  <2>3. d.status # "completed"
    BY <1>0, <2>2
  <2>4. Extends(e, d)
    BY <1>0, <2>2, <2>3
  <2> QED BY <2>1, <2>4
<1>5. CASE OpenForEvaluation(r)
  <2> DEFINE e == [d EXCEPT !.status = "running", !.at = "evaluate"]
  <2>1. Writes(r, e) /\ d.at \in {"over", "dead"} /\ ~d.torn
    BY <1>5 DEF OpenForEvaluation
  <2>2. Extends(e, d)
    BY <1>0, <2>1
  <2> QED BY <2>1, <2>2
<1>6. CASE PublishEvaluation(r)
  <2>0. PICK result \in ContestReports :
          LET report == Versioned(result, ReportVersion) IN
          /\ d.report \in {Unevaluated, report}
          /\ Writes(r, [d EXCEPT !.report = report, !.at = "evaluated"])
    BY <1>6 DEF PublishEvaluation
  <2> DEFINE report == Versioned(result, ReportVersion)
  <2>1. /\ d.report \in {Unevaluated, report}
        /\ Writes(r, [d EXCEPT !.report = report, !.at = "evaluated"])
    BY <2>0
  <2>4. report \in Reports
    BY WrittenIsReport
  <2> HIDE DEF report
  <2> DEFINE e == [d EXCEPT !.report = report, !.at = "evaluated"]
  <2>2. d.at = "evaluate"
    BY <1>6 DEF PublishEvaluation
  <2>3. Extends(e, d)
    BY <1>0, <2>1, <2>2, <2>4
  <2> QED BY <2>1, <2>3
<1> QED BY <1>1, <1>2, <1>3, <1>4, <1>5, <1>6 DEF Owner

\* Such a write takes nothing from what was read or published before it.
LEMMA WriteKeepsComparison ==
  ASSUME ComparisonInv, NEW r \in Contestants, NEW e, Writes(r, e), Extends(e, contest[r])
  PROVE  ComparisonInv'
<1> USE DEF ComparisonInv
<1>1. /\ contest' = [contest EXCEPT ![r] = e]
      /\ judge' = [judge EXCEPT !.quiet = judge.at = "idle"]
      /\ verdict' = [verdict EXCEPT !.markdown.quiet = FALSE, !.json.quiet = FALSE]
      /\ comparisons' = comparisons
  BY DEF Writes
<1>2. /\ judge'.at = judge.at /\ judge'.run = judge.run /\ judge'.read = judge.read
      /\ judge'.quiet = (judge.at = "idle")
      /\ verdict'.markdown = [verdict.markdown EXCEPT !.quiet = FALSE]
      /\ verdict'.json = [verdict.json EXCEPT !.quiet = FALSE]
  BY <1>1 DEF ComparisonTypeOK, Verdicts
<1>3. \A q \in Contestants : contest'[q] = IF q = r THEN e ELSE contest[q]
  BY <1>1 DEF ComparisonTypeOK
<1>4. ComparisonTypeOK'
  <2>1. contest' \in [Contestants -> Directories]
    BY <1>1 DEF ComparisonTypeOK, Extends
  <2>2. /\ judge' \in [at : {"idle", "summary", "metrics", "evaluation", "report", "json"},
                       run : Nat, read : [Contestants -> Directories], quiet : BOOLEAN,
                       reply : {"none", "refused"}]
        /\ judge'.at \in {"summary", "metrics", "evaluation"} => judge'.run \in Contestants
    BY <1>1, <1>2 DEF ComparisonTypeOK
  <2>3. verdict' \in [markdown : Verdicts, json : Verdicts]
    BY <1>1 DEF ComparisonTypeOK, Verdicts
  <2> QED BY <1>1, <2>1, <2>2, <2>3 DEF ComparisonTypeOK
<1>5. DirectoriesOK'
  BY <1>3 DEF DirectoriesOK, Extends
<1>6. \A q \in Contestants :
        /\ Past(contest[q]) => Past(contest'[q]) /\ contest'[q].logged = contest[q].logged
        /\ contest[q].report # Unevaluated => contest'[q].report = contest[q].report
  BY <1>3 DEF Extends
<1>7. JudgeOK'
  <2> SUFFICES ASSUME NEW q \in Contestants PROVE JudgeRunOK(q)'
    BY DEF JudgeOK
  <2>1. /\ (SummaryRead(q)' <=> SummaryRead(q)) /\ (MetricsRead(q)' <=> MetricsRead(q))
        /\ (EvaluationRead(q)' <=> EvaluationRead(q))
    BY <1>2 DEF SummaryRead, MetricsRead, EvaluationRead, HasRead
  <2>2. MetricsRead(q) => SummaryRead(q)
    BY DEF SummaryRead, MetricsRead, HasRead
  <2>3. SummaryRead(q) \/ MetricsRead(q) \/ EvaluationRead(q) => judge.at # "idle"
    BY DEF SummaryRead, MetricsRead, EvaluationRead, HasRead
  <2>4. JudgeRunOK(q)
    BY DEF JudgeOK
  <2>5. judge'.read[q] = judge.read[q] /\ (judge'.quiet => judge.at = "idle")
    BY <1>2
  <2> QED BY <1>6, <2>1, <2>2, <2>3, <2>4, <2>5 DEF JudgeRunOK
<1>8. ASSUME NEW v \in Verdicts, VerdictOK(v)
      PROVE  LET w == [v EXCEPT !.quiet = FALSE] IN VerdictOK(w)'
  <2> DEFINE w == [v EXCEPT !.quiet = FALSE]
             ranking == v.ranking
  <2>1. w.ranking = ranking /\ w.quiet = FALSE
    BY DEF Verdicts
  <2> HIDE DEF w
  <2>2. ranking # <<>> => \A n \in DOMAIN ranking : ranking[n].run \in Contestants
    BY <1>8 DEF VerdictOK, Placed
  <2>3. ASSUME ranking # <<>>
        PROVE  \A c \in Contestants :
                 /\ contest'[c].report = contest[c].report /\ Past(contest'[c])
                 /\ contest'[c].logged = ContestTarget
                 /\ contest'[c].report.bpb /\ contest'[c].report.version = ReadVersion
    <3>1. \A c \in Contestants :
            /\ Past(contest[c]) /\ contest[c].logged = ContestTarget
            /\ contest[c].report.bpb /\ contest[c].report.version = ReadVersion
      BY <1>8, <2>3 DEF VerdictOK
    <3>2. \A c \in Contestants : contest[c].report # Unevaluated
      BY <3>1, UnevaluatedIs
    <3> QED BY <1>6, <3>1, <3>2
  <2>4. ASSUME ranking # <<>>, NEW n \in DOMAIN ranking
        PROVE  /\ ranking[n].score = contest'[ranking[n].run].report.score
               /\ ranking[n].rank = 1 + BetterThan(ranking, n)
    <3>1. /\ ranking[n].score = contest[ranking[n].run].report.score
          /\ ranking[n].rank = 1 + BetterThan(ranking, n)
      BY <1>8, <2>4 DEF VerdictOK
    <3> QED BY <2>2, <2>3, <2>4, <3>1
  <2>5. ASSUME ranking # <<>>, NEW p \in Contestants, NEW q \in Contestants
        PROVE  contest'[p].report.key = contest'[q].report.key
    <3>1. contest[p].report.key = contest[q].report.key
      BY <1>8, <2>5 DEF VerdictOK
    <3> QED BY <2>3, <2>5, <3>1
  <2>6. ranking # <<>> =>
          /\ Placed(ranking) = Contestants
          /\ \A n, m \in DOMAIN ranking : ranking[n].run = ranking[m].run => n = m
    BY <1>8 DEF VerdictOK
  <2> HIDE DEF ranking
  <2>7. VerdictOK(w)'
    BY ONLY <2>1, <2>3, <2>4, <2>5, <2>6 DEF VerdictOK
  <2> QED BY <2>7 DEF w
<1>9. VerdictOK(verdict.markdown)' /\ VerdictOK(verdict.json)'
  BY <1>2, <1>8 DEF ComparisonTypeOK
<1> QED BY <1>4, <1>5, <1>7, <1>9

-----------------------------------------------------------------------------
\* The steps of the comparison.
LEMMA ComparisonInvInit == ComparisonInit => ComparisonInv
<1> SUFFICES ASSUME ComparisonInit PROVE ComparisonInv
  OBVIOUS
<1> USE DEF ComparisonInit
<1>0. ASSUME NEW d \in {NewRun} \cup EarlierRuns
      PROVE  /\ d \in Directories /\ ~d.torn
             /\ d.status = "completed" => d.at = "over"
  <2>1. CASE d = NewRun
    BY <2>1, NewRunIs
  <2>2. CASE d \in EarlierRuns
    <3>1. PICK status \in {"completed", "failed"}, n \in 0 .. ContestTarget, x \in ContestReports :
            d = EarlierRun(status, n, x)
      BY ONLY <2>2 DEF EarlierRuns
    <3>2. Versioned(x, ReadVersion) \in Reports /\ n \in Nat
      BY WrittenIsReport
    <3>3. d = [at |-> "over", status |-> status, latest |-> n, logged |-> n,
               torn |-> FALSE, report |-> Versioned(x, ReadVersion)]
      BY <3>1 DEF NewRun, EarlierRun
    <3> QED BY <3>2, <3>3 DEF Directories
  <2> QED BY <2>1, <2>2
<1>1. NewRun \in Directories
  BY NewRunIs
<1>2. NoVerdict \in Verdicts
  BY DEF NoVerdict, Verdicts
<1>3. ComparisonTypeOK
  BY <1>0, <1>1, <1>2 DEF ComparisonTypeOK, OffDuty
<1>4. DirectoriesOK
  BY <1>0 DEF DirectoriesOK
<1>5. JudgeOK
  BY DEF JudgeOK, JudgeRunOK, SummaryRead, MetricsRead, EvaluationRead, HasRead, OffDuty
<1>6. VerdictOK(NoVerdict)
  BY DEF VerdictOK, NoVerdict
<1> QED BY <1>3, <1>4, <1>5, <1>6 DEF ComparisonInv

\* Verdicts stay true of directories that do not change.
LEMMA VerdictsStay ==
  ASSUME ComparisonInv, contest' = contest,
         VerdictOK(verdict'.markdown), VerdictOK(verdict'.json)
  PROVE  DirectoriesOK' /\ VerdictOK(verdict.markdown)' /\ VerdictOK(verdict.json)'
<1>1. DirectoriesOK'
  BY DEF ComparisonInv, DirectoriesOK
<1>2. VerdictOK(verdict.markdown)'
  BY DEF VerdictOK
<1>3. VerdictOK(verdict.json)'
  BY DEF VerdictOK
<1> QED BY <1>1, <1>2, <1>3

\* A step of the comparison that publishes nothing.
LEMMA JudgeStep ==
  ASSUME ComparisonInv, UNCHANGED <<contest, verdict>>,
         comparisons' \in Nat,
         judge' \in [at : {"idle", "summary", "metrics", "evaluation", "report", "json"},
                     run : Nat, read : [Contestants -> Directories], quiet : BOOLEAN,
                     reply : {"none", "refused"}],
         judge'.at \in {"summary", "metrics", "evaluation"} => judge'.run \in Contestants,
         JudgeOK'
  PROVE  ComparisonInv'
<1>1. ComparisonTypeOK'
  BY DEF ComparisonInv, ComparisonTypeOK
<1>2. DirectoriesOK' /\ VerdictOK(verdict.markdown)' /\ VerdictOK(verdict.json)'
  BY VerdictsStay DEF ComparisonInv
<1> QED BY <1>1, <1>2 DEF ComparisonInv

LEMMA OffDutyStep ==
  ASSUME ComparisonInv, UNCHANGED <<contest, verdict>>, comparisons' \in Nat,
         judge' = OffDuty \/ judge' = [OffDuty EXCEPT !.reply = "refused"]
  PROVE  ComparisonInv'
<1>1. NewRun \in Directories
  BY NewRunIs
<1>2. JudgeOK'
  BY DEF JudgeOK, JudgeRunOK, SummaryRead, MetricsRead, EvaluationRead, HasRead, OffDuty
<1>3. PICK reply \in {"none", "refused"} :
        judge' = [at |-> "idle", run |-> 0, read |-> [r \in Contestants |-> NewRun],
                  quiet |-> TRUE, reply |-> reply]
  BY DEF OffDuty
<1>4. /\ judge' \in [at : {"idle", "summary", "metrics", "evaluation", "report", "json"},
                     run : Nat, read : [Contestants -> Directories], quiet : BOOLEAN,
                     reply : {"none", "refused"}]
      /\ judge'.at = "idle"
  BY <1>1, <1>3
<1> QED BY <1>2, <1>4, JudgeStep

LEMMA StartKeeps == ASSUME ComparisonInv, StartComparison PROVE ComparisonInv'
<1> DEFINE first == Min(Contestants)
<1>1. first \in Contestants /\ \A r \in Contestants : first <= r
  BY MinContestant, ContestantsFinite
<1>2. NewRun \in Directories
  BY NewRunIs
<1>3. judge' = [OffDuty EXCEPT !.at = "summary", !.run = first]
  BY DEF StartComparison
<1>4. UNCHANGED <<contest, verdict>> /\ comparisons' \in Nat
  BY DEF StartComparison, ComparisonInv, ComparisonTypeOK
<1> HIDE DEF first
<1>5. judge' = [at |-> "summary", run |-> first,
                read |-> [r \in Contestants |-> NewRun], quiet |-> TRUE,
                reply |-> "none"]
  BY <1>3 DEF OffDuty
<1>6. \A r \in Contestants : ~(r < first)
  BY <1>1
<1>7. JudgeOK'
  BY <1>5, <1>6 DEF JudgeOK, JudgeRunOK, SummaryRead, MetricsRead, EvaluationRead, HasRead
<1> QED BY <1>1, <1>2, <1>4, <1>5, <1>7, JudgeStep

LEMMA ReadSummaryKeeps ==
  ASSUME ComparisonInv, NEW r \in Contestants, ReadSummary(r)
  PROVE  ComparisonInv'
<1> USE DEF ComparisonInv
<1> DEFINE d == contest[r]
           seen == [judge.read[r] EXCEPT !.status = d.status, !.latest = d.latest]
<1>1. /\ judge.at = "summary" /\ judge.run = r
      /\ judge' = [judge EXCEPT !.at = "metrics", !.read[judge.run] = seen]
      /\ UNCHANGED <<contest, verdict, comparisons>>
  BY DEF ReadSummary, Reads, Reading
<1>0. d \in Directories /\ judge.read[r] \in Directories
  BY DEF ComparisonTypeOK
<1>2. d \in Directories /\ seen \in Directories
      /\ seen.status = d.status /\ seen.latest = d.latest
  BY <1>0 DEF Directories
<1>3. /\ judge'.at = "metrics" /\ judge'.run = r /\ judge'.quiet = judge.quiet
      /\ \A q \in Contestants : judge'.read[q] = IF q = r THEN seen ELSE judge.read[q]
      /\ judge' \in [at : {"idle", "summary", "metrics", "evaluation", "report", "json"},
                     run : Nat, read : [Contestants -> Directories], quiet : BOOLEAN,
                     reply : {"none", "refused"}]
  BY <1>1, <1>2 DEF ComparisonTypeOK
<1>4. seen.status = "completed" => Past(d)
  BY <1>2 DEF DirectoriesOK, Past
<1>5. JudgeOK'
  <2> SUFFICES ASSUME NEW q \in Contestants
               PROVE  JudgeRunOK(q)'
    BY DEF JudgeOK
  <2> HIDE DEF seen
  <2>1. CASE q = r
    BY <1>1, <1>2, <1>3, <1>4, <2>1 DEF JudgeRunOK, SummaryRead, MetricsRead, EvaluationRead, HasRead
  <2>2. CASE q # r
    BY <1>1, <1>3, <2>2 DEF JudgeOK, JudgeRunOK, SummaryRead, MetricsRead, EvaluationRead, HasRead
  <2> QED BY <2>1, <2>2
<1> QED BY <1>1, <1>3, <1>5, JudgeStep DEF ComparisonTypeOK

LEMMA ReadMetricsKeeps ==
  ASSUME ComparisonInv, NEW r \in Contestants, ReadMetrics(r)
  PROVE  ComparisonInv'
<1> USE DEF ComparisonInv
<1> DEFINE d == contest[r]
           seen == [judge.read[r] EXCEPT !.logged = d.logged]
           refused == d.torn \/ d.logged # judge.read[r].latest
<1>1. CASE refused
  <2>1. Refuses
    BY <1>1 DEF ReadMetrics
  <2> QED BY <2>1, OffDutyStep DEF Refuses, ComparisonTypeOK
<1>2. CASE ~refused
  <2>1. /\ judge.at = "metrics" /\ judge.run = r
        /\ judge' = [judge EXCEPT !.at = "evaluation", !.read[judge.run] = seen]
        /\ UNCHANGED <<contest, verdict, comparisons>>
    BY <1>2 DEF ReadMetrics, Reads, Reading
  <2>0. d \in Directories /\ judge.read[r] \in Directories
    BY DEF ComparisonTypeOK
  <2>2. /\ d \in Directories /\ seen \in Directories /\ seen.logged = d.logged
        /\ seen.status = judge.read[r].status /\ seen.latest = judge.read[r].latest
    BY <2>0 DEF Directories
  <2>3. /\ judge'.at = "evaluation" /\ judge'.run = r /\ judge'.quiet = judge.quiet
        /\ \A q \in Contestants : judge'.read[q] = IF q = r THEN seen ELSE judge.read[q]
        /\ judge' \in [at : {"idle", "summary", "metrics", "evaluation", "report", "json"},
                       run : Nat, read : [Contestants -> Directories], quiet : BOOLEAN,
                       reply : {"none", "refused"}]
    BY <2>1, <2>2 DEF ComparisonTypeOK
  <2>4. SummaryRead(r)
    BY <2>1 DEF JudgeRunOK, SummaryRead, HasRead
  <2>5. JudgeOK'
    <3> SUFFICES ASSUME NEW q \in Contestants
                 PROVE  JudgeRunOK(q)'
      BY DEF JudgeOK
    <3> HIDE DEF seen
    <3>1. CASE q = r
      BY <2>1, <2>2, <2>3, <2>4, <3>1 DEF JudgeOK, JudgeRunOK, SummaryRead, MetricsRead, EvaluationRead, HasRead
    <3>2. CASE q # r
      BY <2>1, <2>3, <3>2 DEF JudgeOK, JudgeRunOK, SummaryRead, MetricsRead, EvaluationRead, HasRead
    <3> QED BY <3>1, <3>2
  <2> QED BY <2>1, <2>3, <2>5, JudgeStep DEF ComparisonTypeOK
<1> QED BY <1>1, <1>2

LEMMA ReadReportKeeps ==
  ASSUME ComparisonInv, NEW r \in Contestants, Reading("evaluation", r),
         Readable(contest[r].report), ReadReport(r)
  PROVE  ComparisonInv'
<1> USE DEF ComparisonInv
<1> DEFINE d == contest[r]
           seen == [judge.read[r] EXCEPT !.report = d.report]
           later == {q \in Contestants : q > r}
           next == IF later = {} THEN "report" ELSE "summary"
           run == IF later = {} THEN 0 ELSE Min(later)
<1>1. /\ judge.at = "evaluation" /\ judge.run = r
      /\ judge' = [judge EXCEPT !.read[r].report = d.report, !.at = next, !.run = run]
      /\ UNCHANGED <<contest, verdict, comparisons>>
  BY DEF ReadReport, Reading
<1>0. d \in Directories /\ judge.read[r] \in Directories
  BY DEF ComparisonTypeOK
<1>2. /\ d \in Directories /\ seen \in Directories /\ seen.report = d.report
      /\ seen.status = judge.read[r].status /\ seen.latest = judge.read[r].latest
      /\ seen.logged = judge.read[r].logged
  BY <1>0 DEF Directories
<1>3. later # {} => run \in later /\ \A q \in later : run <= q
  BY MinContestant
<1>4. run \in Nat /\ (next = "summary" => run \in Contestants)
  BY <1>3
<1> HIDE DEF run, next
<1>5. /\ judge'.at = next /\ judge'.run = run /\ judge'.quiet = judge.quiet
      /\ \A q \in Contestants : judge'.read[q] = IF q = r THEN seen ELSE judge.read[q]
      /\ judge' \in [at : {"idle", "summary", "metrics", "evaluation", "report", "json"},
                     run : Nat, read : [Contestants -> Directories], quiet : BOOLEAN,
                     reply : {"none", "refused"}]
  BY <1>1, <1>2, <1>4 DEF ComparisonTypeOK, next
<1>6. SummaryRead(r) /\ MetricsRead(r)
  BY <1>1 DEF JudgeRunOK, SummaryRead, MetricsRead, HasRead
<1>7. ASSUME NEW q \in Contestants, q # r
      PROVE  (SummaryRead(q) \/ MetricsRead(q) \/ EvaluationRead(q))'
                => SummaryRead(q) /\ MetricsRead(q) /\ EvaluationRead(q)
  <2>1. CASE q < r
    BY <1>1, <2>1 DEF JudgeRunOK, SummaryRead, MetricsRead, EvaluationRead, HasRead
  <2>2. CASE q > r
    <3>1. later # {} /\ run <= q /\ run \in Nat /\ next = "summary"
      BY <1>3, <1>4, <2>2 DEF next
    <3> QED BY <1>5, <3>1 DEF JudgeRunOK, SummaryRead, MetricsRead, EvaluationRead, HasRead
  <2>3. q < r \/ q > r
    <3>1. q \in Nat /\ r \in Nat
      OBVIOUS
    <3> QED BY <1>7, <3>1
  <2> HIDE DEF later
  <2> QED BY <2>1, <2>2, <2>3
<1>8. JudgeOK'
  <2> SUFFICES ASSUME NEW q \in Contestants
               PROVE  JudgeRunOK(q)'
    BY DEF JudgeOK
  <2> HIDE DEF seen
  <2>1. CASE q = r
    BY <1>1, <1>2, <1>5, <1>6, <2>1 DEF JudgeOK, JudgeRunOK
  <2>2. CASE q # r
    BY <1>1, <1>5, <1>7, <2>2 DEF JudgeOK, JudgeRunOK
  <2> QED BY <2>1, <2>2
<1> QED BY <1>1, <1>4, <1>5, <1>8, JudgeStep DEF ComparisonTypeOK, next

LEMMA ReadEvaluationKeeps ==
  ASSUME ComparisonInv, NEW r \in Contestants, ReadEvaluation(r)
  PROVE  ComparisonInv'
<1>1. CASE Readable(contest[r].report)
  BY <1>1, ReadReportKeeps DEF ReadEvaluation
<1>2. CASE ~Readable(contest[r].report)
  BY <1>2, OffDutyStep DEF ReadEvaluation, Refuses, ComparisonInv, ComparisonTypeOK
<1> QED BY <1>1, <1>2

\* What a comparison that has read every run publishes.
LEMMA PayloadOK == ASSUME ComparisonInv, judge.at = "report" PROVE Payload \in Verdicts /\ VerdictOK(Payload)
<1> DEFINE N == Cardinality(Contestants)
           read == judge.read
           v == Ranking(judge.read)
<1>1. read \in [Contestants -> Directories]
  BY DEF ComparisonInv, ComparisonTypeOK
<1>2. /\ v # <<>> <=> /\ \A r \in Contestants : ~Blocked(read[r])
                      /\ \A p, q \in Contestants : read[p].report.key = read[q].report.key
      /\ v = <<>> \/ v \in [1 .. N -> Placings]
      /\ v # <<>> =>
           /\ {v[n].run : n \in 1 .. N} = Contestants
           /\ \A n, m \in 1 .. N : v[n].run = v[m].run => n = m
           /\ \A n \in 1 .. N :
                /\ v[n].score = read[v[n].run].report.score
                /\ v[n].rank = 1 + BetterThan(v, n)
  BY <1>1, RankingOfRead
<1>3. \A r \in Contestants :
        /\ read[r].status = "completed" => Past(contest[r]) /\ read[r].logged = contest[r].logged
        /\ read[r].report # Unevaluated =>
             contest[r].report = read[r].report /\ read[r].report.version = ReadVersion
        /\ judge.quiet => /\ read[r].status = contest[r].status
                          /\ read[r].logged = contest[r].logged
                          /\ read[r].report = contest[r].report
  BY DEF ComparisonInv, JudgeOK, JudgeRunOK, SummaryRead, MetricsRead, EvaluationRead, HasRead,
         Readable
<1>4. /\ Payload.ranking = v /\ Payload.quiet = judge.quiet
      /\ Payload.blocked = {r \in Contestants : Blocked(read[r])}
  BY DEF Payload
<1>5. Payload \in Verdicts
  <2>1. judge.quiet \in BOOLEAN
    BY DEF ComparisonInv, ComparisonTypeOK
  <2> HIDE DEF v
  <2> QED BY <1>2, <2>1 DEF Payload, Verdicts, v
<1> HIDE DEF v, read
<1>6. ASSUME v # <<>>
      PROVE  /\ Placed(v) = Contestants
             /\ \A n, m \in DOMAIN v : v[n].run = v[m].run => n = m
             /\ \A r \in Contestants :
                  Past(contest[r]) /\ contest[r].logged = ContestTarget
                  /\ contest[r].report.bpb /\ contest[r].report.version = ReadVersion
             /\ \A n \in DOMAIN v :
                  /\ v[n].score = contest[v[n].run].report.score
                  /\ v[n].rank = 1 + BetterThan(v, n)
             /\ \A p, q \in Contestants : contest[p].report.key = contest[q].report.key
  <2>1. DOMAIN v = 1 .. N /\ \A n \in 1 .. N : v[n].run \in Contestants
    BY <1>2, <1>6 DEF Placings
  <2>2. \A r \in Contestants :
          /\ read[r].status = "completed" /\ read[r].logged = ContestTarget
          /\ read[r].report.bpb /\ read[r].report # Unevaluated
    BY <1>2, <1>6, UnevaluatedIs DEF Blocked
  <2>3. \A r \in Contestants :
          /\ Past(contest[r]) /\ contest[r].logged = ContestTarget
          /\ contest[r].report.bpb /\ contest[r].report.version = ReadVersion
          /\ contest[r].report = read[r].report
    BY <1>3, <2>2
  <2> HIDE DEF N
  <2>4. \A n \in 1 .. N : v[n].score = contest[v[n].run].report.score
    BY <1>2, <1>6, <2>1, <2>3
  <2>5. \A p, q \in Contestants : contest[p].report.key = contest[q].report.key
    BY <1>2, <1>6, <2>3
  <2>6. Placed(v) = Contestants
    BY <1>2, <1>6, <2>1 DEF Placed
  <2> QED BY <1>2, <1>6, <2>1, <2>3, <2>4, <2>5, <2>6
<1>7. ASSUME judge.quiet, NEW r \in Contestants, Comparable(contest[r])
      PROVE  r \notin Payload.blocked
  BY <1>3, <1>4, <1>7 DEF Comparable, Blocked
<1>8. ASSUME judge.quiet, v = <<>>, Payload.blocked = {}
      PROVE  \E p, q \in Contestants : contest[p].report.key # contest[q].report.key
  <2>1. \A r \in Contestants : ~Blocked(read[r])
    BY <1>4, <1>8
  <2>2. PICK p \in Contestants, q \in Contestants : read[p].report.key # read[q].report.key
    BY <1>2, <1>8, <2>1
  <2> QED BY <1>3, <1>8, <2>2
<1> QED BY <1>4, <1>5, <1>6, <1>7, <1>8 DEF VerdictOK

\* A verdict that is published while the directories stand still.
LEMMA PublishKeeps ==
  ASSUME ComparisonInv, UNCHANGED <<contest, comparisons>>,
         judge' = OffDuty \/ (judge' = [judge EXCEPT !.at = "json"] /\ judge.at = "report"),
         verdict' \in [markdown : Verdicts, json : Verdicts],
         VerdictOK(verdict'.markdown), VerdictOK(verdict'.json)
  PROVE  ComparisonInv'
<1>1. NewRun \in Directories
  BY NewRunIs
<1>2. ComparisonTypeOK'
  <2>1. /\ judge' \in [at : {"idle", "summary", "metrics", "evaluation", "report", "json"},
                       run : Nat, read : [Contestants -> Directories], quiet : BOOLEAN,
                       reply : {"none", "refused"}]
        /\ judge'.at \notin {"summary", "metrics", "evaluation"}
    <3>1. CASE judge' = OffDuty
      BY <1>1, <3>1 DEF OffDuty
    <3>2. CASE judge' = [judge EXCEPT !.at = "json"] /\ judge.at = "report"
      BY <3>2 DEF ComparisonInv, ComparisonTypeOK
    <3> QED BY <3>1, <3>2
  <2> QED BY <2>1 DEF ComparisonInv, ComparisonTypeOK
<1>3. JudgeOK'
  <2>1. CASE judge' = OffDuty
    BY <2>1 DEF JudgeOK, JudgeRunOK, SummaryRead, MetricsRead, EvaluationRead, HasRead, OffDuty
  <2>2. CASE judge' = [judge EXCEPT !.at = "json"] /\ judge.at = "report"
    <3>1. judge'.at = "json" /\ judge'.read = judge.read /\ judge'.quiet = judge.quiet
      BY <2>2 DEF ComparisonInv, ComparisonTypeOK
    <3> QED BY <2>2, <3>1 DEF ComparisonInv, JudgeOK, JudgeRunOK, SummaryRead, MetricsRead, EvaluationRead, HasRead
  <2> QED BY <2>1, <2>2
<1>4. DirectoriesOK' /\ VerdictOK(verdict.markdown)' /\ VerdictOK(verdict.json)'
  BY VerdictsStay
<1> QED BY <1>2, <1>3, <1>4 DEF ComparisonInv

LEMMA ComparisonInvStep == ComparisonInv /\ [ComparisonNext]_comparisonVars => ComparisonInv'
<1> SUFFICES ASSUME ComparisonInv, [ComparisonNext]_comparisonVars PROVE ComparisonInv'
  OBVIOUS
<1>0. verdict \in [markdown : Verdicts, json : Verdicts] /\ comparisons \in Nat
  BY DEF ComparisonInv, ComparisonTypeOK
<1>1. ASSUME NEW r \in Contestants, Owner(r) PROVE ComparisonInv'
  BY <1>1, OwnerExtends, WriteKeepsComparison
<1>2. ASSUME NEW r \in Contestants, ReadSummary(r) PROVE ComparisonInv'
  BY <1>2, ReadSummaryKeeps
<1>3. ASSUME NEW r \in Contestants, ReadMetrics(r) PROVE ComparisonInv'
  BY <1>3, ReadMetricsKeeps
<1>4. ASSUME NEW r \in Contestants, ReadEvaluation(r) PROVE ComparisonInv'
  BY <1>4, ReadEvaluationKeeps
<1>5. CASE StartComparison
  BY <1>5, StartKeeps
<1>6. CASE WriteMarkdown
  <2>1. /\ judge.at = "report" /\ judge' = [judge EXCEPT !.at = "json"]
        /\ verdict' = [verdict EXCEPT !.markdown = Payload] /\ UNCHANGED <<contest, comparisons>>
    BY <1>6 DEF WriteMarkdown
  <2>2. Payload \in Verdicts /\ VerdictOK(Payload)
    BY <2>1, PayloadOK
  <2>3. /\ verdict' \in [markdown : Verdicts, json : Verdicts]
        /\ verdict'.markdown = Payload /\ verdict'.json = verdict.json
    BY <1>0, <2>1, <2>2
  <2>4. VerdictOK(verdict.json)
    BY DEF ComparisonInv
  <2>5. VerdictOK(verdict'.markdown) /\ VerdictOK(verdict'.json)
    BY <2>2, <2>3, <2>4
  <2> QED BY <2>1, <2>3, <2>5, PublishKeeps
<1>7. CASE WriteJson
  <2>1. /\ judge' = OffDuty /\ UNCHANGED <<contest, comparisons>>
        /\ verdict' = [verdict EXCEPT !.json = verdict.markdown]
    BY <1>7 DEF WriteJson
  <2>2. /\ verdict' \in [markdown : Verdicts, json : Verdicts]
        /\ verdict'.markdown = verdict.markdown /\ verdict'.json = verdict.markdown
    BY <1>0, <2>1
  <2>3. VerdictOK(verdict.markdown)
    BY DEF ComparisonInv
  <2>4. VerdictOK(verdict'.markdown) /\ VerdictOK(verdict'.json)
    BY <2>2, <2>3
  <2>5. verdict' \in [markdown : Verdicts, json : Verdicts]
    BY <2>2
  <2>6. judge' = OffDuty \/ (judge' = [judge EXCEPT !.at = "json"] /\ judge.at = "report")
    BY <2>1
  <2>7. UNCHANGED <<contest, comparisons>>
    BY <2>1
  <2> QED BY <2>4, <2>5, <2>6, <2>7, PublishKeeps
<1>8. CASE StopComparison
  BY <1>0, <1>8, OffDutyStep DEF StopComparison, Refuses
<1>9. CASE UNCHANGED comparisonVars
  <2>1. UNCHANGED <<contest, judge, verdict, comparisons>>
    BY <1>9 DEF comparisonVars
  <2>2. JudgeOK'
    BY <2>1 DEF ComparisonInv, JudgeOK, JudgeRunOK, SummaryRead, MetricsRead,
                EvaluationRead, HasRead
  <2>3. /\ judge' \in [at : {"idle", "summary", "metrics", "evaluation", "report", "json"},
                       run : Nat, read : [Contestants -> Directories], quiet : BOOLEAN,
                       reply : {"none", "refused"}]
        /\ judge'.at \in {"summary", "metrics", "evaluation"} => judge'.run \in Contestants
        /\ comparisons' \in Nat
    BY <2>1 DEF ComparisonInv, ComparisonTypeOK
  <2> QED BY <2>1, <2>2, <2>3, JudgeStep
<1> QED BY <1>1, <1>2, <1>3, <1>4, <1>5, <1>6, <1>7, <1>8, <1>9 DEF ComparisonNext, Owner

LEMMA ComparisonInvAlways == ComparisonSpec => []ComparisonInv
  BY ComparisonInvInit, ComparisonInvStep, PTL DEF ComparisonSpec

\* While the owners of the directories train, crash, come back and evaluate,
\* a published ranking names every run once, with scores that are still in
\* the directories, of completed training runs, of one protocol and of reports
\* of the version that a comparison reads (never one that is written now); and
\* a run that was comparable and left alone is never reported as blocked.
THEOREM ComparisonIsFairHolds == ComparisonSpec => []ComparisonIsFair
<1>1. ComparisonInv => ComparisonIsFair
  <2> SUFFICES ASSUME ComparisonInv, NEW v \in {verdict.markdown, verdict.json}
               PROVE  /\ v.ranking # <<>> =>
                           /\ Placed(v.ranking) = Contestants
                           /\ Len(v.ranking) = Cardinality(Contestants)
                           /\ \A n \in DOMAIN v.ranking : LET e == v.ranking[n] IN
                                /\ contest[e.run].report.score = e.score
                                /\ contest[e.run].report.bpb
                                /\ contest[e.run].report.version = ReadVersion
                                /\ contest[e.run].logged = ContestTarget /\ ~contest[e.run].torn
                                /\ e.rank = 1 + BetterThan(v.ranking, n)
                           /\ \A p, q \in Contestants :
                                contest[p].report.key = contest[q].report.key
                      /\ v.ranking = <<>> /\ v.quiet /\ v.blocked = {} =>
                           \E p, q \in Contestants : contest[p].report.key # contest[q].report.key
                      /\ v.quiet => \A r \in Contestants : Comparable(contest[r]) => r \notin v.blocked
    BY DEF ComparisonIsFair, BetterThan, Placed
  <2>1. VerdictOK(v) /\ v \in Verdicts
    BY DEF ComparisonInv, ComparisonTypeOK
  <2>2. ASSUME v.ranking # <<>> PROVE Len(v.ranking) = Cardinality(Contestants)
    <3>1. v.ranking \in [1 .. Cardinality(Contestants) -> Placings]
      BY <2>1, <2>2 DEF Verdicts
    <3> QED BY <3>1, ContestantsFinite
  <2>3. ASSUME v.ranking # <<>>, NEW n \in DOMAIN v.ranking
        PROVE  /\ contest[v.ranking[n].run].report.score = v.ranking[n].score
               /\ contest[v.ranking[n].run].report.bpb
               /\ contest[v.ranking[n].run].report.version = ReadVersion
               /\ contest[v.ranking[n].run].logged = ContestTarget
               /\ ~contest[v.ranking[n].run].torn
               /\ v.ranking[n].rank = 1 + BetterThan(v.ranking, n)
    <3>1. v.ranking[n].run \in Contestants
      BY <2>1, <2>3 DEF VerdictOK, Placed
    <3> QED BY <2>1, <2>3, <3>1 DEF VerdictOK, Past
  <2> QED BY <2>1, <2>2, <2>3 DEF VerdictOK
<1> QED BY <1>1, ComparisonInvAlways, PTL

(***************************************************************************)
(* ChatEvaluation: its scores are exact, and its report is tracked once.   *)
(* The argument: the problems examined are the fewest of which as many fit *)
(* as the limit asks for, or all, so that what is chosen of them is what   *)
(* is chosen of all; a batch is as wide as its longest prompt, so that     *)
(* each row holds its prompt; counting batch by batch is counting at once, *)
(* and what is counted per group adds up to all that is scored; a sample's *)
(* seed is of its place alone; and a command journals the report it wrote  *)
(* or found equal, the metrics before the artifact.                        *)
(***************************************************************************)
-----------------------------------------------------------------------------
(* ChatEvaluation: problems in order.                                      *)

LEMMA InOrderIs ==
  ASSUME NEW S \in SUBSET Nat, IsFiniteSet(S)
  PROVE  /\ Cardinality(S) \in Nat /\ InOrder(S) \in [1 .. Cardinality(S) -> S]
         /\ \A i, j \in 1 .. Cardinality(S) : i < j => InOrder(S)[i] < InOrder(S)[j]
         /\ \A x \in S : \E i \in 1 .. Cardinality(S) : InOrder(S)[i] = x
<1> DEFINE R == {p \in Nat \X Nat : p[1] < p[2]}
           n == Cardinality(S)
           s == InOrder(S)
<1>1. \A x, y \in S : <<x, y>> \in R <=> x < y
  OBVIOUS
<1> HIDE DEF R
<1>2. Orders(R, S)
  BY <1>1 DEF Orders
<1>3. PICK t : t \in Listings(R, S)
  BY <1>2, ListingExists
<1>4. t \in [1 .. n -> S] /\ \A i, j \in 1 .. n : i < j => t[i] < t[j]
  <2>1. t \in [1 .. n -> S] /\ \A i, j \in 1 .. n : i < j => <<t[i], t[j]>> \in R
    BY <1>3 DEF Listings
  <2> HIDE DEF n
  <2> QED BY <1>1, <2>1
<1>5. s \in [1 .. n -> S] /\ \A i, j \in 1 .. n : i < j => s[i] < s[j]
  BY <1>4 DEF InOrder
<1>6. s \in Listings(R, S)
  <2> HIDE DEF s
  <2> QED BY <1>1, <1>5 DEF Listings
<1>7. \A x \in S : \E i \in 1 .. n : s[i] = x
  <2> HIDE DEF s
  <2> QED BY <1>2, <1>6, ListingIsOnto
<1>8. n \in Nat
  BY FS_CardinalityType
<1> QED BY <1>5, <1>7, <1>8

\* The place of an element is the number of those up to it.
LEMMA PlaceInOrder ==
  ASSUME NEW S \in SUBSET Nat, IsFiniteSet(S), NEW k \in 1 .. Cardinality(S)
  PROVE  k = Cardinality({y \in S : y <= InOrder(S)[k]})
<1> DEFINE n == Cardinality(S)
           s == InOrder(S)
           upTo == {y \in S : y <= s[k]}
           f == [i \in 1 .. k |-> s[i]]
<1>1. /\ n \in Nat /\ s \in [1 .. n -> S] /\ \A i, j \in 1 .. n : i < j => s[i] < s[j]
      /\ \A x \in S : \E i \in 1 .. n : s[i] = x
  BY InOrderIs
<1> HIDE DEF n, s
<1>2. k \in 1 .. n
  BY DEF n
<1>3. \A i \in 1 .. n : s[i] \in Nat /\ s[i] \in S
  BY <1>1
<1>4. \A i, j \in 1 .. n : (s[i] <= s[j]) = (i <= j)
  <2> SUFFICES ASSUME NEW i \in 1 .. n, NEW j \in 1 .. n PROVE (s[i] <= s[j]) = (i <= j)
    OBVIOUS
  <2>1. (i < j => s[i] < s[j]) /\ (j < i => s[j] < s[i]) /\ s[i] \in Nat /\ s[j] \in Nat
    BY <1>1, <1>3
  <2> QED BY <1>1, <2>1
<1>5. \A i \in 1 .. k : i \in 1 .. n /\ s[i] \in upTo
  BY <1>1, <1>2, <1>3, <1>4
<1>6. f \in [1 .. k -> upTo]
  BY <1>5
<1>7. \A i, j \in 1 .. k : f[i] = f[j] => i = j
  BY <1>3, <1>4, <1>5
<1>8. \A y \in upTo : \E i \in 1 .. k : f[i] = y
  <2> TAKE y \in upTo
  <2>1. PICK i \in 1 .. n : s[i] = y
    BY <1>1
  <2>2. i <= k
    BY <1>2, <1>4, <2>1
  <2> QED BY <1>2, <2>1, <2>2
<1> HIDE DEF f, upTo
<1>9. f \in Bijection(1 .. k, upTo)
  BY <1>6, <1>7, <1>8 DEF Bijection, Injection, Surjection, IsInjective
<1>10. ExistsBijection(1 .. k, upTo) /\ k \in Nat
  BY <1>2, <1>9 DEF ExistsBijection
<1>11. Cardinality(upTo) = k
  BY <1>10, FS_CountingElements
<1> QED BY <1>11 DEF upTo, s

\* The elements up to a bound come first.
LEMMA OrderBeginsWith ==
  ASSUME NEW S \in SUBSET Nat, IsFiniteSet(S), NEW e \in Nat,
         NEW B, \A x : x \in B <=> x \in S /\ x <= e
  PROVE  /\ IsFiniteSet(B) /\ Cardinality(B) <= Cardinality(S)
         /\ \A k \in 1 .. Cardinality(B) : InOrder(B)[k] = InOrder(S)[k]
         /\ e \in S => Cardinality(B) \in 1 .. Cardinality(S)
                       /\ InOrder(S)[Cardinality(B)] = e
<1>1. B \in SUBSET S /\ B \in SUBSET Nat
  OBVIOUS
<1>2. IsFiniteSet(B) /\ Cardinality(B) <= Cardinality(S)
  BY <1>1, FS_Subset
<1> DEFINE n == Cardinality(S)
           m == Cardinality(B)
           s == InOrder(S)
           b == InOrder(B)
<1>3. /\ n \in Nat /\ s \in [1 .. n -> S] /\ \A x \in S : \E i \in 1 .. n : s[i] = x
      /\ \A i \in 1 .. n : i = Cardinality({y \in S : y <= s[i]})
  BY InOrderIs, PlaceInOrder
<1>4. /\ m \in Nat /\ b \in [1 .. m -> B]
      /\ \A i \in 1 .. m : i = Cardinality({y \in B : y <= b[i]})
  BY <1>1, <1>2, InOrderIs, PlaceInOrder
<1>5. m <= n
  BY <1>2
<1> HIDE DEF n, m, s, b
<1>6. ASSUME NEW k \in 1 .. m PROVE b[k] = s[k]
  <2>1. b[k] \in S /\ b[k] \in Nat /\ b[k] <= e
    BY <1>4
  <2>2. PICK i \in 1 .. n : s[i] = b[k]
    BY <1>3, <2>1
  <2>3. {y \in B : y <= b[k]} = {y \in S : y <= s[i]}
    <3>1. ASSUME NEW y PROVE y \in B /\ y <= b[k] <=> y \in S /\ y <= b[k]
      <4>1. y \in S => y \in Nat
        OBVIOUS
      <4> QED BY <2>1, <4>1
    <3> QED BY <2>2, <3>1
  <2>4. k = i
    BY <1>3, <1>4, <2>3
  <2> QED BY <2>2, <2>4
<1>7. ASSUME e \in S PROVE m \in 1 .. n /\ s[m] = e
  <2>1. PICK i \in 1 .. n : s[i] = e
    BY <1>3, <1>7
  <2>2. {y \in S : y <= s[i]} = B
    BY <2>1
  <2>3. i = m
    BY <1>3, <2>2 DEF m
  <2> QED BY <2>1, <2>3
<1> QED BY <1>2, <1>6, <1>7 DEF n, m, s, b

-----------------------------------------------------------------------------
(* The problems whose prompts fit.                                         *)

ProblemsOK == problems \in Seq([length : Nat \ {0}, group : STRING])

LEMMA FittingIs ==
  ASSUME ProblemsOK, NEW n \in 0 .. Len(problems)
  PROVE  /\ Len(problems) \in Nat
         /\ FittingUpTo(n) \in SUBSET Nat /\ IsFiniteSet(FittingUpTo(n))
         /\ Cardinality(FittingUpTo(n)) \in Nat
         /\ FittingUpTo(n) = {i \in FittingUpTo(Len(problems)) : i <= n}
         /\ Cardinality(FittingUpTo(n)) + Cardinality((1 .. n) \ FittingUpTo(n)) = n
<1> DEFINE all == 1 .. n
           fit == FittingUpTo(n)
           not == (1 .. n) \ fit
<1>1. Len(problems) \in Nat /\ n \in Nat /\ n <= Len(problems)
  BY DEF ProblemsOK
<1>2. IsFiniteSet(all) /\ Cardinality(all) = n
  BY <1>1, FS_Interval
<1>3. fit \in SUBSET all /\ not \in SUBSET all /\ fit \cap not = {} /\ fit \cup not = all
  BY DEF FittingUpTo
<1>4. fit = {i \in FittingUpTo(Len(problems)) : i <= n}
  BY <1>1 DEF FittingUpTo
<1>5. fit \in SUBSET Nat
  BY <1>3
<1> HIDE DEF all, fit, not
<1>6. IsFiniteSet(fit) /\ IsFiniteSet(not)
  BY <1>2, <1>3, FS_Subset
<1>7. Cardinality(fit) \in Nat /\ Cardinality(not) \in Nat
  BY <1>6, FS_CardinalityType
<1>8. IsFiniteSet(fit \cap not) /\ Cardinality(fit \cap not) = 0
  BY <1>3, FS_EmptySet
<1>9. Cardinality(fit \cup not) = Cardinality(fit) + Cardinality(not) - Cardinality(fit \cap not)
  BY <1>6, FS_Union
<1>10. Cardinality(fit) + Cardinality(not) = n
  <2>1. Cardinality(fit \cup not) = n
    BY <1>2, <1>3
  <2> QED BY ONLY <1>7, <1>8, <1>9, <2>1
<1> QED BY <1>1, <1>4, <1>5, <1>6, <1>7, <1>10 DEF fit, not

LEMMA FittingGrows ==
  ASSUME ProblemsOK, NEW n \in 0 .. Len(problems) - 1
  PROVE  Cardinality(FittingUpTo(n + 1)) =
           IF Fits(n + 1) THEN Cardinality(FittingUpTo(n)) + 1 ELSE Cardinality(FittingUpTo(n))
<1>1. n \in 0 .. Len(problems) /\ n \in Nat
  BY DEF ProblemsOK
<1>2. IsFiniteSet(FittingUpTo(n)) /\ n + 1 \notin FittingUpTo(n)
  <2>1. IsFiniteSet(FittingUpTo(n))
    BY <1>1, FittingIs
  <2> QED BY <1>1, <2>1 DEF FittingUpTo
<1>3. FittingUpTo(n + 1) = IF Fits(n + 1) THEN FittingUpTo(n) \cup {n + 1} ELSE FittingUpTo(n)
  BY <1>1 DEF FittingUpTo
<1> QED BY <1>2, <1>3, FS_AddElement

LEMMA NoneFitsYet ==
  ASSUME ProblemsOK
  PROVE  FittingUpTo(0) = {} /\ Cardinality(FittingUpTo(0)) = 0
<1>1. FittingUpTo(0) = {}
  BY DEF FittingUpTo
<1> QED BY <1>1, FS_EmptySet
\* As many problems are examined as it takes for the limit to fit.
LEMMA ExaminedIs ==
  ASSUME ProblemsOK, Limit \in Nat
  PROVE  LET available == Cardinality(FittingUpTo(Len(problems)))
         IN  /\ Examined \in 0 .. Len(problems)
             /\ Limit = 0 \/ available < Limit => Examined = Len(problems)
             /\ Limit # 0 /\ ~(available < Limit) =>
                  /\ Fits(Examined) /\ Examined \in 1 .. Len(problems)
                  /\ Cardinality(FittingUpTo(Examined)) = Limit
<1> DEFINE N == Len(problems)
           c(n) == Cardinality(FittingUpTo(n))
<1>1. N \in Nat /\ \A n \in 0 .. N : c(n) \in Nat
  <2>1. N \in Nat
    BY DEF ProblemsOK
  <2>2. ASSUME NEW n \in 0 .. N PROVE c(n) \in Nat
    BY FittingIs
  <2> QED BY <2>1, <2>2
<1>2. Examined = IF Limit = 0 \/ c(N) < Limit THEN N
                 ELSE CHOOSE n \in DOMAIN problems : Fits(n) /\ c(n) = Limit
  BY DEF Examined
<1>3. DOMAIN problems = 1 .. N
  BY DEF ProblemsOK
<1>4. /\ c(0) = 0
      /\ \A n \in 0 .. N - 1 : c(n + 1) = IF Fits(n + 1) THEN c(n) + 1 ELSE c(n)
  BY NoneFitsYet, FittingGrows
<1> HIDE DEF N, c
<1>5. ASSUME Limit # 0, ~(c(N) < Limit)
      PROVE  \E n \in DOMAIN problems : Fits(n) /\ c(n) = Limit
  <2> DEFINE T == {n \in 0 .. N : Limit <= c(n)}
  <2>1. N \in T /\ T \in SUBSET Nat
    BY <1>1, <1>5
  <2>2. PICK n \in T : \A m \in T : n <= m
    BY <2>1, LeastNatural
  <2>3. n \in 0 .. N /\ Limit <= c(n) /\ c(n) \in Nat /\ n # 0
    BY <1>1, <1>4, <1>5, <2>2
  <2>4. n - 1 \in 0 .. N - 1 /\ n - 1 \in 0 .. N /\ (n - 1) + 1 = n
    BY <1>1, <2>3
  <2>5. ~(Limit <= c(n - 1)) /\ c(n - 1) \in Nat
    BY <1>1, <2>2, <2>4
  <2>6. c(n) = IF Fits(n) THEN c(n - 1) + 1 ELSE c(n - 1)
    BY <1>4, <2>4
  <2>7. Fits(n) /\ c(n) = Limit
    BY <2>3, <2>5, <2>6
  <2> QED BY <1>3, <2>3, <2>7
<1>6. CASE Limit = 0 \/ c(N) < Limit
  <2>1. Examined = N /\ N \in 0 .. N
    BY <1>1, <1>2, <1>6
  <2> QED BY <1>6, <2>1 DEF N, c
<1>7. CASE Limit # 0 /\ ~(c(N) < Limit)
  <2>1. Fits(Examined) /\ c(Examined) = Limit /\ Examined \in 1 .. N
    BY <1>2, <1>3, <1>5, <1>7
  <2>2. Examined \in 0 .. N
    BY <1>1, <2>1
  <2> QED BY <1>7, <2>1, <2>2 DEF N, c
<1> QED BY <1>6, <1>7

LEMMA ListIsSeq ==
  ASSUME NEW S, NEW n \in Nat, NEW s \in [1 .. n -> S]
  PROVE  s \in Seq(S) /\ Len(s) = n
  OBVIOUS

\* What the scores of a finished task are.
AllScored(scored, fit) ==
  /\ DOMAIN scored = 1 .. Cardinality(fit) /\ Len(scored) = Cardinality(fit)
  /\ \A n \in 1 .. Cardinality(fit) :
       /\ scored[n].problem = InOrder(fit)[n]
       /\ scored[n].view = Prompt(scored[n].problem)
       /\ scored[n].passed = (scored[n].problem \in able)

LEMMA CategoricalIsExact ==
  ASSUME ProblemsOK, Limit \in Nat, FittingUpTo(Examined) # {},
         NEW r, r.limit = Limit, r.valid, AllScored(r.scored, FittingUpTo(Examined)),
         r.excluded = (1 .. Examined) \ FittingUpTo(Examined)
  PROVE  /\ CategoricalExact(r)
         /\ r.limit = 0 => Len(r.scored) + Cardinality(r.excluded) = Len(problems)
<1> DEFINE N == Len(problems)
           all == FittingUpTo(N)
           fit == FittingUpTo(Examined)
           fitting == InOrder(all)
           count == IF r.limit = 0 THEN Len(fitting) ELSE Min({r.limit, Len(fitting)})
           last == IF count = r.limit THEN fitting[count] ELSE N
<1>1. /\ Examined \in 0 .. N /\ N \in 0 .. N /\ N \in Nat
      /\ Limit = 0 \/ Cardinality(all) < Limit => Examined = N
      /\ Limit # 0 /\ ~(Cardinality(all) < Limit) =>
           Fits(Examined) /\ Examined \in 1 .. N /\ Cardinality(fit) = Limit
  BY ExaminedIs DEF ProblemsOK
<1>2. /\ all \in SUBSET Nat /\ IsFiniteSet(all) /\ Cardinality(all) \in Nat
      /\ IsFiniteSet(fit) /\ Cardinality(fit) \in Nat
      /\ fit = {i \in all : i <= Examined}
      /\ Cardinality(fit) + Cardinality((1 .. Examined) \ fit) = Examined
  BY <1>1, FittingIs
<1>3. fitting \in [1 .. Cardinality(all) -> all]
  BY <1>2, InOrderIs
<1>4. fitting \in Seq(all) /\ Len(fitting) = Cardinality(all)
  BY <1>2, <1>3, ListIsSeq
<1>5. Examined \in Nat
  BY <1>1
<1>6. /\ Cardinality(fit) <= Cardinality(all)
      /\ \A k \in 1 .. Cardinality(fit) : InOrder(fit)[k] = fitting[k]
      /\ Examined \in all => fitting[Cardinality(fit)] = Examined
  <2>1. \A x : x \in fit <=> x \in all /\ x <= Examined
    BY <1>2
  <2> HIDE DEF fit, all
  <2> QED BY <1>2, <1>5, <2>1, OrderBeginsWith
<1>7. Cardinality(fit) # 0
  BY <1>2, FS_EmptySet
<1>8. ASSUME Limit # 0, ~(Cardinality(all) < Limit) PROVE Examined \in all
  BY <1>1, <1>8 DEF FittingUpTo
<1>9. \A i \in 1 .. Examined : i \in fit <=> Fits(i)
  BY DEF FittingUpTo
<1> HIDE DEF all, fit, fitting, N
<1>10. count = Cardinality(fit) /\ last = Examined
  <2>1. CASE Limit = 0
    <3>1. Examined = N /\ fit = all
      BY <1>1, <2>1 DEF fit, all
    <3> QED BY <1>4, <1>7, <2>1, <3>1
  <2>2. CASE Limit # 0 /\ Cardinality(all) < Limit
    <3>1. Examined = N /\ fit = all
      BY <1>1, <2>2 DEF fit, all
    <3>2. Min({Limit, Cardinality(all)}) = Cardinality(all)
      BY <1>2, <2>2 DEF Min
    <3>3. r.limit = Limit /\ r.limit # 0 /\ Len(fitting) = Cardinality(all)
      BY <1>4, <2>2
    <3>4. count = Cardinality(all)
      BY <3>2, <3>3
    <3>5. count # r.limit
      BY <1>2, <2>2, <3>3, <3>4
    <3>6. last = N
      BY <3>5
    <3> QED BY <3>1, <3>4, <3>6
  <2>3. CASE Limit # 0 /\ ~(Cardinality(all) < Limit)
    <3>1. Min({Limit, Cardinality(all)}) = Limit
      BY <1>2, <2>3 DEF Min
    <3>2. Examined \in all /\ Cardinality(fit) = Limit
      BY <1>1, <1>8, <2>3
    <3> QED BY <1>4, <1>6, <2>3, <3>1, <3>2
  <2> QED BY <2>1, <2>2, <2>3
<1> HIDE DEF count, last
<1>11. [n \in DOMAIN r.scored |-> r.scored[n].problem] = SubSeq(fitting, 1, count)
  <2>1. \A k \in 1 .. count : fitting[k] \in all
    BY <1>2, <1>3, <1>6, <1>10
  <2>2. /\ SubSeq(fitting, 1, count) = [k \in 1 .. count |-> fitting[k]]
    BY <1>2, <1>10
  <2>3. /\ DOMAIN r.scored = 1 .. count
        /\ \A k \in 1 .. count : r.scored[k].problem = fitting[k]
    BY <1>6, <1>10 DEF AllScored, fit
  <2> QED BY <2>2, <2>3
<1>12. \A n \in DOMAIN r.scored : /\ r.scored[n].view = Prompt(r.scored[n].problem)
                                  /\ r.scored[n].passed = (r.scored[n].problem \in able)
  BY DEF AllScored
<1>13. r.excluded = {i \in 1 .. last : ~Fits(i)}
  BY <1>9, <1>10 DEF fit
<1>14. CategoricalExact(r)
  BY <1>11, <1>12, <1>13 DEF CategoricalExact, fitting, count, last, all, N
<1>15. ASSUME r.limit = 0 PROVE Len(r.scored) + Cardinality(r.excluded) = Len(problems)
  <2>1. Examined = N /\ Len(r.scored) = Cardinality(fit)
    BY <1>1, <1>15 DEF AllScored, fit
  <2> QED BY <1>2, <2>1 DEF fit, N
<1> QED BY <1>14, <1>15

-----------------------------------------------------------------------------
(* The counts of the groups.                                               *)

\* What is counted per group adds up to all there is.
LEMMA GroupTotalIs ==
  ASSUME NEW X, IsFiniteSet(X), NEW key, NEW c, IsFiniteSet(DOMAIN c), NEW k,
         \A x \in X : key[x] \in DOMAIN c,
         \A g \in DOMAIN c : c[g][k] = Cardinality(Keyed(key, X, g))
  PROVE  GroupTotal(c, k) = Cardinality(X)
<1> DEFINE D == DOMAIN c
           first(s)  == CHOOSE g \in s : TRUE
           f == [s \in SUBSET D |-> Cardinality(Within(key, X, s))]
           Folds(h) == h = [s \in SUBSET D |-> IF s = {} THEN 0
                                               ELSE c[first(s)][k] + h[s \ {first(s)}]]
           iter == CHOOSE h : Folds(h)
<1>1. GroupTotal(c, k) = iter[D]
  BY DEF GroupTotal, FoldSet, MapThenFoldSet
<1>2. \A s \in SUBSET D : s # {} => first(s) \in s /\ s \ {first(s)} \in SUBSET D /\ first(s) \in D
  <2> HIDE DEF D
  <2> QED OBVIOUS
<1>3. \A s \in SUBSET D : Cardinality(Within(key, X, s)) \in Nat
  <2> TAKE s \in SUBSET D
  <2>1. Within(key, X, s) \in SUBSET X
    BY DEF Within
  <2> QED BY <2>1, FS_Subset, FS_CardinalityType
<1>4. \A g \in D : c[g][k] = Cardinality(Keyed(key, X, g)) /\ c[g][k] \in Nat
  <2> TAKE g \in D
  <2>1. Keyed(key, X, g) \in SUBSET X
    BY DEF Keyed
  <2> QED BY <2>1, FS_Subset, FS_CardinalityType
<1>5. IsFiniteSet(D) /\ \A x \in X : key[x] \in D
  OBVIOUS
<1> HIDE DEF D, first
<1>6. Folds(f)
  <2>1. ASSUME NEW s \in SUBSET D
        PROVE  f[s] = IF s = {} THEN 0 ELSE c[first(s)][k] + f[s \ {first(s)}]
    <3>1. CASE s = {}
      <4>1. Within(key, X, {}) = {}
        BY DEF Within
      <4> QED BY <3>1, <4>1, FS_EmptySet
    <3>2. CASE s # {}
      <4>1. first(s) \in s /\ s \ {first(s)} \in SUBSET D /\ first(s) \in D
        BY <1>2, <3>2
      <4>2. Cardinality(Within(key, X, s))
              = Cardinality(Within(key, X, s \ {first(s)})) + Cardinality(Keyed(key, X, first(s)))
        BY <4>1, WithinAddsUp
      <4> QED BY <1>3, <1>4, <3>2, <4>1, <4>2
    <3> QED BY <3>1, <3>2
  <2>2. f = [s \in SUBSET D |-> f[s]]
    OBVIOUS
  <2> HIDE DEF f
  <2> QED BY <2>1, <2>2
<1>7. Folds(iter)
  <2> HIDE DEF f, Folds
  <2> QED BY <1>6
<1>8. \A s \in SUBSET D : iter[s] = IF s = {} THEN 0 ELSE c[first(s)][k] + iter[s \ {first(s)}]
  <2> HIDE DEF iter
  <2> QED BY <1>7
<1> HIDE DEF iter
<1>9. \A s \in SUBSET D : iter[s] \in Nat
  <2> DEFINE T == {n \in Nat : \A s \in SUBSET D : Cardinality(s) = n => iter[s] \in Nat}
  <2>1. \A s \in SUBSET D : IsFiniteSet(s) /\ Cardinality(s) \in Nat /\ (Cardinality(s) = 0 <=> s = {})
    BY <1>5, FS_Subset, FS_CardinalityType, FS_EmptySet
  <2>2. 0 \in T
    BY <1>8, <2>1
  <2>3. ASSUME NEW n \in Nat, n \in T PROVE n + 1 \in T
    <3>1. ASSUME NEW s \in SUBSET D, Cardinality(s) = n + 1 PROVE iter[s] \in Nat
      <4>1. s # {}
        BY <2>1, <3>1
      <4>2. first(s) \in s /\ s \ {first(s)} \in SUBSET D /\ first(s) \in D
        BY <1>2, <4>1
      <4>3. Cardinality(s \ {first(s)}) = n
        BY <2>1, <3>1, <4>2, FS_RemoveElement
      <4>4. iter[s \ {first(s)}] \in Nat
        BY <2>3, <4>2, <4>3
      <4>5. iter[s] = c[first(s)][k] + iter[s \ {first(s)}]
        BY <1>8, <4>1
      <4>6. c[first(s)][k] \in Nat
        BY <1>4, <4>2
      <4> QED BY <4>4, <4>5, <4>6
    <3> QED BY <3>1
  <2> HIDE DEF T
  <2>4. Nat \subseteq T
    BY <2>2, <2>3, NaturalsAreInductive
  <2> QED BY <2>1, <2>4 DEF T
<1>10. AddsUp(D, X, key, iter)
  <2>1. iter[{}] = 0
    BY <1>8
  <2>2. ASSUME NEW s \in SUBSET D, s # {}
        PROVE  \E g \in s : iter[s] = iter[s \ {g}] + Cardinality(Keyed(key, X, g))
    <3> DEFINE g == first(s)
               h == s \ {g}
    <3>1. g \in s /\ h \in SUBSET D /\ g \in D
      BY <1>2, <2>2
    <3>2. iter[s] = c[g][k] + iter[h]
      BY <1>8, <2>2
    <3>3. c[g][k] = Cardinality(Keyed(key, X, g)) /\ c[g][k] \in Nat /\ iter[h] \in Nat
      BY <1>4, <1>9, <3>1
    <3> HIDE DEF g, h
    <3>4. iter[s] = iter[h] + Cardinality(Keyed(key, X, g))
      BY <3>2, <3>3
    <3> QED BY <3>1, <3>4 DEF h
  <2> QED BY <1>5, <2>1, <2>2 DEF AddsUp
<1> QED BY <1>1, <1>10, AddedUp DEF D

\* The counts of a list of scores, taken at once.
Tallied(scored) ==
  [g \in Groups(scored) |->
     <<Cardinality({r \in InGroup(scored, g) : scored[r].passed}),
       Cardinality(InGroup(scored, g))>>]

LEMMA TalliedIsValid ==
  ASSUME NEW scored, NEW n \in Nat, DOMAIN scored = 1 .. n, Len(scored) = n
  PROVE  /\ GroupTotal(Tallied(scored), 1) = Passed(scored)
         /\ GroupTotal(Tallied(scored), 2) = Len(scored)
<1> DEFINE c == Tallied(scored)
           D == Groups(scored)
           X == DOMAIN scored
           P == {r \in X : scored[r].passed}
           key == [r \in X |-> problems[scored[r].problem].group]
<1>1. IsFiniteSet(X) /\ Cardinality(X) = n
  BY FS_Interval
<1>2. P \in SUBSET X /\ IsFiniteSet(P)
  <2>1. P \in SUBSET X
    OBVIOUS
  <2> HIDE DEF P
  <2> QED BY <1>1, <2>1, FS_Subset
<1>3. IsFiniteSet(D)
  <2>1. D = {key[r] : r \in X}
    BY DEF Groups
  <2>2. key \in Surjection(X, D)
    BY <2>1 DEF Surjection
  <2> HIDE DEF key, D, X
  <2> QED BY <1>1, <2>2, FS_Surjection
<1>4. DOMAIN c = D
  BY DEF Tallied
<1>5. \A r \in X : key[r] \in D
  BY DEF Groups
<1>6. ASSUME NEW g \in D
      PROVE  /\ c[g][1] = Cardinality(Keyed(key, P, g))
             /\ c[g][2] = Cardinality(Keyed(key, X, g))
  <2>1. /\ c[g][1] = Cardinality({r \in InGroup(scored, g) : scored[r].passed})
        /\ c[g][2] = Cardinality(InGroup(scored, g))
    BY DEF Tallied
  <2>2. Keyed(key, X, g) = InGroup(scored, g)
    BY DEF InGroup, Keyed
  <2>3. Keyed(key, P, g) = {r \in InGroup(scored, g) : scored[r].passed}
    BY DEF InGroup, Keyed
  <2> QED BY <2>1, <2>2, <2>3
<1> HIDE DEF c, D, key, P, X
<1>7. GroupTotal(c, 2) = Cardinality(X)
  <2>1. \A r \in X : key[r] \in DOMAIN c
    BY <1>4, <1>5
  <2>2. \A g \in DOMAIN c : c[g][2] = Cardinality(Keyed(key, X, g))
    BY <1>4, <1>6
  <2> QED BY <1>1, <1>3, <1>4, <2>1, <2>2, GroupTotalIs
<1>8. GroupTotal(c, 1) = Cardinality(P)
  <2>1. \A r \in P : key[r] \in DOMAIN c
    BY <1>2, <1>4, <1>5
  <2>2. \A g \in DOMAIN c : c[g][1] = Cardinality(Keyed(key, P, g))
    BY <1>4, <1>6
  <2> QED BY <1>2, <1>3, <1>4, <2>1, <2>2, GroupTotalIs
<1> QED BY <1>1, <1>7, <1>8 DEF c, P, X, Passed

Joint(A, n, B) == A \cup {n + r : r \in B}

\* A part of a list and a part of the list put after it.
LEMMA PartsAddUp ==
  ASSUME NEW n \in Nat, NEW m \in Nat, NEW A \in SUBSET (1 .. n), NEW B \in SUBSET (1 .. m)
  PROVE  Cardinality(Joint(A, n, B)) = Cardinality(A) + Cardinality(B)
<1> DEFINE C == {n + r : r \in B}
           shift == [r \in B |-> n + r]
<1>1. IsFiniteSet(A) /\ IsFiniteSet(B)
  <2>1. IsFiniteSet(1 .. n) /\ IsFiniteSet(1 .. m)
    BY FS_Interval
  <2> QED BY <2>1, FS_Subset
<1>2. shift \in [B -> C] /\ \A y \in C : \E r \in B : shift[r] = y
  OBVIOUS
<1>3. \A r, s \in B : shift[r] = shift[s] => r = s
  OBVIOUS
<1>4. A \cap C = {}
  OBVIOUS
<1> HIDE DEF C, shift
<1>5. shift \in Bijection(B, C)
  BY <1>2, <1>3 DEF Bijection, Injection, Surjection, IsInjective
<1>6. ExistsBijection(B, C)
  BY <1>5 DEF ExistsBijection
<1>7. IsFiniteSet(C) /\ Cardinality(C) = Cardinality(B)
  BY <1>1, <1>6, FS_Bijection
<1>8. Cardinality(A \cup C) = Cardinality(A) + Cardinality(C) - Cardinality(A \cap C)
  BY <1>1, <1>7, FS_Union
<1>9. Cardinality(A \cap C) = 0 /\ Cardinality(A) \in Nat /\ Cardinality(B) \in Nat
  BY <1>1, <1>4, FS_EmptySet, FS_CardinalityType
<1> QED BY <1>7, <1>8, <1>9 DEF C, Joint

\* Counting the scores of one more batch is counting all of them.
LEMMA CountedIs ==
  ASSUME NEW S, NEW s \in Seq(S), NEW t \in Seq(S)
  PROVE  Counted(Tallied(s), t) = Tallied(s \o t)
<1> DEFINE n == Len(s)
           m == Len(t)
           u == s \o t
           passed(x, g) == {r \in InGroup(x, g) : x[r].passed}
<1>1. n \in Nat /\ m \in Nat /\ DOMAIN s = 1 .. n /\ DOMAIN t = 1 .. m /\ DOMAIN u = 1 .. (n + m)
  OBVIOUS
<1>2. /\ \A i \in 1 .. n : u[i] = s[i]
      /\ \A i \in 1 .. m : u[n + i] = t[i]
  OBVIOUS
<1>3. \A i \in 1 .. (n + m) : i \in 1 .. n \/ (i - n \in 1 .. m /\ n + (i - n) = i)
  BY <1>1
<1>4. \A i \in 1 .. m : n + i \in 1 .. (n + m)
  BY <1>1
<1>5. \A i \in 1 .. n : i \in 1 .. (n + m)
  BY <1>1
<1> HIDE DEF n, m, u
<1>6. ASSUME NEW g
      PROVE  /\ InGroup(s, g) \in SUBSET (1 .. n) /\ InGroup(t, g) \in SUBSET (1 .. m)
             /\ InGroup(u, g) = Joint(InGroup(s, g), n, InGroup(t, g))
  <2>1. InGroup(s, g) \in SUBSET (1 .. n) /\ InGroup(t, g) \in SUBSET (1 .. m)
    BY <1>1 DEF InGroup
  <2>2. ASSUME NEW i \in InGroup(u, g)
        PROVE  i \in InGroup(s, g) \/ \E r \in InGroup(t, g) : i = n + r
    <3>1. i \in 1 .. (n + m) /\ problems[u[i].problem].group = g
      BY <1>1, <2>2 DEF InGroup
    <3>2. CASE i \in 1 .. n
      BY <1>1, <1>2, <3>1, <3>2 DEF InGroup
    <3>3. CASE i - n \in 1 .. m /\ n + (i - n) = i
      <4>1. i - n \in InGroup(t, g)
        BY <1>1, <1>2, <3>1, <3>3 DEF InGroup
      <4> QED BY <3>3, <4>1
    <3> QED BY <1>3, <3>1, <3>2, <3>3
  <2>3. ASSUME NEW i \in InGroup(s, g) PROVE i \in InGroup(u, g)
    BY <1>1, <1>2, <1>5, <2>3 DEF InGroup
  <2>4. ASSUME NEW r \in InGroup(t, g) PROVE n + r \in InGroup(u, g)
    BY <1>1, <1>2, <1>4, <2>4 DEF InGroup
  <2> QED BY <2>1, <2>2, <2>3, <2>4 DEF Joint
<1>7. ASSUME NEW g
      PROVE  /\ passed(s, g) \in SUBSET (1 .. n) /\ passed(t, g) \in SUBSET (1 .. m)
             /\ passed(u, g) = Joint(passed(s, g), n, passed(t, g))
  <2>1. \A i \in InGroup(s, g) : i \in 1 .. n /\ u[i] = s[i]
    BY <1>2, <1>6
  <2>2. \A r \in InGroup(t, g) : r \in 1 .. m /\ u[n + r] = t[r]
    BY <1>2, <1>6
  <2> QED BY <1>6, <2>1, <2>2 DEF Joint
<1> HIDE DEF passed
<1>8. \A g : /\ Cardinality(InGroup(u, g)) = Cardinality(InGroup(s, g)) + Cardinality(InGroup(t, g))
             /\ Cardinality(passed(u, g)) = Cardinality(passed(s, g)) + Cardinality(passed(t, g))
  <2> TAKE g
  <2>1. Cardinality(InGroup(u, g)) = Cardinality(InGroup(s, g)) + Cardinality(InGroup(t, g))
    <3>1. /\ InGroup(s, g) \in SUBSET (1 .. n) /\ InGroup(t, g) \in SUBSET (1 .. m)
          /\ InGroup(u, g) = Joint(InGroup(s, g), n, InGroup(t, g))
      BY <1>6
    <3>2. n \in Nat /\ m \in Nat
      BY <1>1
    <3>3. \A A \in SUBSET (1 .. n), B \in SUBSET (1 .. m) :
            Cardinality(Joint(A, n, B)) = Cardinality(A) + Cardinality(B)
      BY <3>2, PartsAddUp
    <3> QED BY ONLY <3>1, <3>3
  <2>2. Cardinality(passed(u, g)) = Cardinality(passed(s, g)) + Cardinality(passed(t, g))
    <3>1. /\ passed(s, g) \in SUBSET (1 .. n) /\ passed(t, g) \in SUBSET (1 .. m)
          /\ passed(u, g) = Joint(passed(s, g), n, passed(t, g))
      BY <1>7
    <3>2. n \in Nat /\ m \in Nat
      BY <1>1
    <3>3. \A A \in SUBSET (1 .. n), B \in SUBSET (1 .. m) :
            Cardinality(Joint(A, n, B)) = Cardinality(A) + Cardinality(B)
      BY <3>2, PartsAddUp
    <3> QED BY ONLY <3>1, <3>3
  <2> QED BY <2>1, <2>2
<1>9. Groups(u) = Groups(s) \cup Groups(t)
  <2>1. ASSUME NEW i \in DOMAIN u
        PROVE  problems[u[i].problem].group \in Groups(s) \cup Groups(t)
    <3>1. CASE i \in 1 .. n
      BY <1>1, <1>2, <3>1 DEF Groups
    <3>2. CASE i - n \in 1 .. m /\ n + (i - n) = i
      <4>1. u[i] = t[i - n]
        BY <1>2, <3>2
      <4> QED BY <1>1, <3>2, <4>1 DEF Groups
    <3> QED BY <1>1, <1>3, <2>1, <3>1, <3>2
  <2>2. ASSUME NEW i \in DOMAIN s PROVE problems[s[i].problem].group \in Groups(u)
    BY <1>1, <1>2, <1>5, <2>2 DEF Groups
  <2>3. ASSUME NEW i \in DOMAIN t PROVE problems[t[i].problem].group \in Groups(u)
    BY <1>1, <1>2, <1>4, <2>3 DEF Groups
  <2>4. Groups(u) \subseteq Groups(s) \cup Groups(t)
    BY <2>1 DEF Groups
  <2>5. Groups(s) \subseteq Groups(u) /\ Groups(t) \subseteq Groups(u)
    BY <2>2, <2>3 DEF Groups
  <2> QED BY <2>4, <2>5
<1> DEFINE Old(g) == IF g \in Groups(s) THEN Tallied(s)[g] ELSE <<0, 0>>
<1>10. ASSUME NEW g
       PROVE  Old(g)[1] = Cardinality(passed(s, g)) /\ Old(g)[2] = Cardinality(InGroup(s, g))
  <2>1. CASE g \in Groups(s)
    BY <2>1 DEF Tallied, passed
  <2>2. CASE g \notin Groups(s)
    <3>1. InGroup(s, g) = {}
      BY <2>2 DEF InGroup, Groups
    <3>2. passed(s, g) = {}
      BY <3>1 DEF passed
    <3> QED BY <2>2, <3>1, <3>2, FS_EmptySet
  <2> QED BY <2>1, <2>2
<1>11. DOMAIN Tallied(s) = Groups(s)
  BY DEF Tallied
<1>12. Counted(Tallied(s), t) =
         [g \in Groups(s) \cup Groups(t) |->
            <<Old(g)[1] + Cardinality(passed(t, g)), Old(g)[2] + Cardinality(InGroup(t, g))>>]
  BY <1>11 DEF Counted, passed
<1>13. Tallied(u) = [g \in Groups(u) |-> <<Cardinality(passed(u, g)), Cardinality(InGroup(u, g))>>]
  BY DEF Tallied, passed
<1> HIDE DEF Old
<1>14. Counted(Tallied(s), t) = Tallied(u)
  BY <1>8, <1>9, <1>10, <1>12, <1>13
<1> QED BY <1>14 DEF u

LEMMA NothingTallied == Tallied(<<>>) = <<>>
<1>1. Groups(<<>>) = {}
  BY DEF Groups
<1> QED BY <1>1 DEF Tallied

-----------------------------------------------------------------------------
(* What every state satisfies.                                             *)
Stages == {"idle", "task", "score", "publish", "track", "artifact"}
CommandFields == {"at", "settings", "left", "queue", "excluded", "scored", "counts",
                  "samples", "results"}

\* s is a list.
Listed(s) == Len(s) \in Nat /\ s = [i \in 1 .. Len(s) |-> s[i]]

\* Problem i has been scored after its whole prompt.
ScoredRight(x, i) == x.problem = i /\ x.view = Prompt(i) /\ x.passed = (i \in able)

\* While a categorical task is scored: the first of the selected problems have
\* been, and the others queue.
ScoringOK(e) ==
  LET chosen == InOrder(FittingUpTo(Examined)) IN
  /\ FittingUpTo(Examined) # {}
  /\ e.excluded = (1 .. Examined) \ FittingUpTo(Examined)
  /\ Listed(e.scored) /\ Len(e.scored) <= Cardinality(FittingUpTo(Examined))
  /\ \A i \in 1 .. Len(e.scored) : ScoredRight(e.scored[i], chosen[i])
  /\ e.queue = SubSeq(chosen, Len(e.scored) + 1, Cardinality(FittingUpTo(Examined)))
  /\ e.counts = Tallied(e.scored)

SamplesOK(samples) == Listed(samples) /\ \A n \in 1 .. Len(samples) : samples[n].seed = SeedOf(n)

\* A result is exact, and of all the problems without a limit.
ResultOK(r) ==
  IF r.task = "categorical"
  THEN CategoricalExact(r) /\ (r.limit = 0 => Len(r.scored) + Cardinality(r.excluded) = Len(problems))
  ELSE ProgramExact(r)

ResultsOK(e) ==
  /\ Listed(e.results)
  /\ \A i \in 1 .. Len(e.results) : ResultOK(e.results[i]) /\ e.results[i].limit = e.settings.limit

\* A command's results are of its tasks when it reports them.
TasksDone(e) == [i \in DOMAIN e.results |-> e.results[i].task] = e.settings.tasks

CommandOK(e) ==
  /\ DOMAIN e = CommandFields /\ e = [f \in CommandFields |-> e[f]]
  /\ e.at \in Stages /\ e.settings.limit \in Nat
  /\ e.at = "task" => e.scored = <<>> /\ e.counts = <<>>
  /\ e.at = "score" => ScoringOK(e)
  /\ SamplesOK(e.samples) /\ ResultsOK(e)
  /\ e.at \in {"publish", "track", "artifact"} => TasksDone(e)

\* The report's aggregate is of every task and every problem.
AggregateOK(report) ==
  report # NoReport /\ report.aggregate =>
    \A i \in DOMAIN TaskOrder :
      /\ report.results[i].task = TaskOrder[i] /\ report.results[i].limit = 0
      /\ report.results[i].task = "categorical" =>
           Len(report.results[i].scored) + Cardinality(report.results[i].excluded) = Len(problems)

\* The journal is of the report.
Journals(report) ==
  {<<>>, <<[kind |-> "metrics", result |-> report]>>,
   <<[kind |-> "metrics", result |-> report], [kind |-> "artifact", result |-> report]>>}

FilesOK(files) ==
  /\ DOMAIN files = {"report", "journal", "behind"}
  /\ files = [f \in {"report", "journal", "behind"} |-> files[f]]
  /\ files.journal \in Journals(files.report)
  /\ files.report = NoReport => files.journal = <<>>
  /\ AggregateOK(files.report)

ChatEvaluationInv ==
  /\ ProblemsOK /\ CommandOK(evaluation) /\ FilesOK(runFiles)
  /\ evaluation.at = "artifact" => runFiles.report = Completed /\ runFiles.journal # <<>>

-----------------------------------------------------------------------------
(* Lists, and what follows from the problems alone.                        *)

LEMMA ListedIsSeq ==
  ASSUME NEW s, Listed(s), NEW e
  PROVE  s \in Seq({s[i] : i \in 1 .. Len(s)} \cup {e})
<1> DEFINE n == Len(s)
           S == {s[i] : i \in 1 .. n} \cup {e}
<1>1. n \in Nat /\ s = [i \in 1 .. n |-> s[i]]
  BY DEF Listed
<1>2. \A i \in 1 .. n : s[i] \in S
  OBVIOUS
<1> HIDE DEF n, S
<1>3. s \in [1 .. n -> S]
  BY <1>1, <1>2
<1>4. s \in Seq(S)
  BY <1>1, <1>3, ListIsSeq
<1> QED BY <1>4 DEF S, n

LEMMA SeqIsListed == ASSUME NEW S, NEW s \in Seq(S) PROVE Listed(s)
BY DEF Listed

LEMMA AppendListed ==
  ASSUME NEW s, Listed(s), NEW e
  PROVE  /\ Listed(Append(s, e)) /\ Len(Append(s, e)) = Len(s) + 1
         /\ \A i \in 1 .. Len(s) : Append(s, e)[i] = s[i]
         /\ Append(s, e)[Len(s) + 1] = e
<1> DEFINE S == {s[i] : i \in 1 .. Len(s)} \cup {e}
<1>1. s \in Seq(S) /\ e \in S
  BY ListedIsSeq
<1> HIDE DEF S
<1>2. /\ Append(s, e) \in Seq(S) /\ Len(Append(s, e)) = Len(s) + 1
      /\ \A i \in 1 .. Len(s) : Append(s, e)[i] = s[i]
      /\ Append(s, e)[Len(s) + 1] = e
  BY ONLY <1>1
<1> QED BY <1>2, SeqIsListed

LEMMA ProblemsStay ==
  ASSUME UNCHANGED <<problems, able>>
  PROVE  /\ ProblemsOK => ProblemsOK'
         /\ \A n : FittingUpTo(n)' = FittingUpTo(n)
         /\ \A i : Prompt(i)' = Prompt(i)
         /\ \A s : Tallied(s)' = Tallied(s)
         /\ evaluation'.settings = evaluation.settings => Examined' = Examined
<1>1. ProblemsOK => ProblemsOK'
  BY DEF ProblemsOK
<1>2. \A i : Fits(i)' <=> Fits(i)
  BY DEF Fits
<1>3. \A n : FittingUpTo(n)' = FittingUpTo(n)
  BY <1>2 DEF FittingUpTo
<1>4. \A i : Prompt(i)' = Prompt(i)
  BY DEF Prompt
<1>5. \A s, g : InGroup(s, g)' = InGroup(s, g)
  BY DEF InGroup
<1>6. \A s : Groups(s)' = Groups(s)
  BY DEF Groups
<1>7. \A s : Tallied(s)' = Tallied(s)
  BY <1>5, <1>6 DEF Tallied
<1>8. evaluation'.settings = evaluation.settings => Examined' = Examined
  BY DEF Examined, Limit, FittingUpTo, Fits
<1> QED BY <1>1, <1>3, <1>4, <1>7, <1>8

LEMMA ResultsStay ==
  ASSUME UNCHANGED <<problems, able>>
  PROVE  \A r : ResultOK(r) => ResultOK(r)'
<1>1. \A i : Fits(i)' <=> Fits(i)
  BY DEF Fits
<1>2. \A n : FittingUpTo(n)' = FittingUpTo(n)
  BY ProblemsStay
<1>3. \A i : Prompt(i)' = Prompt(i)
  BY ProblemsStay
<1>4. \A r : CategoricalExact(r) => CategoricalExact(r)'
  BY <1>1, <1>2, <1>3 DEF CategoricalExact
<1>5. \A r : ProgramExact(r)' <=> ProgramExact(r)
  BY DEF ProgramExact
<1> QED BY <1>4, <1>5 DEF ResultOK

LEMMA ScoresStay ==
  ASSUME UNCHANGED <<problems, able>>
  PROVE  \A x, i : ScoredRight(x, i) => ScoredRight(x, i)'
BY ProblemsStay DEF ScoredRight

LEMMA AggregateStays ==
  ASSUME UNCHANGED <<problems, able>>
  PROVE  \A report : AggregateOK(report) => AggregateOK(report)'
BY DEF AggregateOK

-----------------------------------------------------------------------------
(* Steps of a command.                                                     *)

LEMMA CommandContinues ==
  ASSUME ChatEvaluationInv, UNCHANGED <<problems, able, runFiles>>,
         CommandOK(evaluation)', evaluation'.at # "artifact"
  PROVE  ChatEvaluationInv'
<1>1. ProblemsOK'
  BY ProblemsStay DEF ChatEvaluationInv
<1>2. AggregateOK(runFiles.report)'
  BY AggregateStays DEF ChatEvaluationInv, FilesOK
<1>3. FilesOK(runFiles)'
  BY <1>2 DEF ChatEvaluationInv, FilesOK, Journals
<1> QED BY <1>1, <1>3 DEF ChatEvaluationInv

LEMMA EmptyListed == Listed(<<>>) /\ Len(<<>>) = 0
BY DEF Listed

\* A command that has done nothing yet, or nothing any more.
Fresh(e) ==
  /\ DOMAIN e = CommandFields /\ e = [f \in CommandFields |-> e[f]]
  /\ e.at \in {"idle", "task"} /\ e.settings.limit \in Nat
  /\ e.scored = <<>> /\ e.counts = <<>> /\ e.samples = <<>> /\ e.results = <<>>

LEMMA FreshOK ==
  ASSUME ChatEvaluationInv, UNCHANGED <<problems, able, runFiles>>, Fresh(evaluation')
  PROVE  ChatEvaluationInv'
<1>1. SamplesOK(evaluation.samples)' /\ ResultsOK(evaluation)'
  BY EmptyListed DEF SamplesOK, ResultsOK, Fresh
<1>2. CommandOK(evaluation)'
  BY <1>1 DEF CommandOK, Stages, Fresh
<1>3. evaluation'.at # "artifact"
  BY DEF Fresh
<1> QED BY <1>2, <1>3, CommandContinues

LEMMA RestingIsFresh == Fresh(Resting)
BY DEF Fresh, Resting, CommandFields

LEMMA FailsKeeps ==
  ASSUME ChatEvaluationInv, EvaluationFails
  PROVE  ChatEvaluationInv'
BY RestingIsFresh, FreshOK DEF EvaluationFails

LEMMA EvaluateKeeps ==
  ASSUME ChatEvaluationInv, NEW settings \in ChatSettings, EvaluateChat(settings)
  PROVE  ChatEvaluationInv'
<1>1. settings.limit \in Nat
  <2>1. settings \in [tasks : Seq({"categorical", "program"}) \ {<<>>}, limit : Nat]
    BY ChatEvaluationAssumption
  <2> QED BY ONLY <2>1
<1>2. evaluation' = [Resting EXCEPT !.at = "task", !.settings = settings, !.left = settings.tasks]
  BY DEF EvaluateChat
<1>3. Fresh(evaluation')
  BY <1>1, <1>2 DEF Fresh, Resting, CommandFields
<1>4. UNCHANGED <<problems, able, runFiles>>
  BY DEF EvaluateChat
<1> QED BY <1>3, <1>4, FreshOK

\* A task that ends leaves one more result.
LEMMA FinishKeeps ==
  ASSUME ChatEvaluationInv, NEW result, FinishTask(result), ResultOK(result), result.limit = Limit
  PROVE  ChatEvaluationInv'
<1> DEFINE e == evaluation
<1>1. /\ DOMAIN e = CommandFields /\ e = [f \in CommandFields |-> e[f]]
      /\ e.settings.limit \in Nat /\ ResultsOK(e)
  BY DEF ChatEvaluationInv, CommandOK
<1>2. /\ UNCHANGED <<problems, able, runFiles>>
      /\ evaluation'.at = "task" /\ evaluation'.settings = e.settings
      /\ evaluation'.scored = <<>> /\ evaluation'.counts = <<>> /\ evaluation'.samples = <<>>
      /\ evaluation'.results = Append(e.results, result) /\ DOMAIN evaluation' = CommandFields
      /\ evaluation' = [f \in CommandFields |-> evaluation'[f]]
  BY <1>1 DEF FinishTask, Continue, CommandFields
<1>3. SamplesOK(evaluation.samples)'
  BY <1>2, EmptyListed DEF SamplesOK
<1>4. ResultsOK(evaluation)'
  <2> DEFINE all == Append(e.results, result)
             n == Len(e.results)
  <2>1. Listed(e.results) /\ n \in Nat
    BY <1>1 DEF ResultsOK, Listed
  <2>2. /\ Listed(all) /\ Len(all) = n + 1
        /\ \A i \in 1 .. n : all[i] = e.results[i]
        /\ all[n + 1] = result
    BY <2>1, AppendListed
  <2>3. \A i \in 1 .. n : ResultOK(e.results[i]) /\ e.results[i].limit = e.settings.limit
    BY <1>1 DEF ResultsOK
  <2> HIDE DEF all, n, e
  <2>4. \A i \in 1 .. n + 1 : ResultOK(all[i]) /\ all[i].limit = e.settings.limit
    <3> TAKE i \in 1 .. n + 1
    <3>1. CASE i \in 1 .. n
      BY <2>2, <2>3, <3>1
    <3>2. CASE i = n + 1
      BY <2>2, <3>2 DEF Limit, e
    <3> QED BY <2>1, <3>1, <3>2
  <2>5. \A r : ResultOK(r) => ResultOK(r)'
    BY <1>2, ResultsStay
  <2>6. Listed(evaluation'.results) /\ Len(evaluation'.results) = n + 1
    BY <1>2, <2>2 DEF all
  <2>7. \A i \in 1 .. n + 1 : ResultOK(evaluation.results[i])' /\ evaluation'.results[i].limit = e.settings.limit
    BY <1>2, <2>4, <2>5 DEF all
  <2> QED BY <1>2, <2>6, <2>7 DEF ResultsOK, Listed
<1>5. CommandOK(evaluation)'
  BY <1>1, <1>2, <1>3, <1>4 DEF CommandOK, Stages
<1> QED BY <1>2, <1>5, CommandContinues

-----------------------------------------------------------------------------
(* The categorical task.                                                   *)

LEMMA LengthIs ==
  ASSUME ProblemsOK, NEW i \in DOMAIN problems
  PROVE  problems[i].length \in Nat
<1> DEFINE R == [length : Nat \ {0}, group : STRING]
<1>1. problems[i] \in R
  <2>1. problems \in Seq(R)
    BY DEF ProblemsOK
  <2> HIDE DEF R
  <2> QED BY <2>1
<1> QED BY ONLY <1>1

LEMMA WidestIs ==
  ASSUME ProblemsOK, NEW n \in Nat \ {0}, NEW batch, DOMAIN batch = 1 .. n,
         \A r \in 1 .. n : batch[r] \in DOMAIN problems
  PROVE  /\ Widest(batch) \in Nat
         /\ \A r \in 1 .. n : problems[batch[r]].length <= Widest(batch)
<1> DEFINE f == [r \in 1 .. n |-> problems[batch[r]].length]
           S == {problems[batch[r]].length : r \in DOMAIN batch}
<1>1. f \in [1 .. n -> Nat]
  BY LengthIs
<1>2. \A x : x \in S <=> \E r \in 1 .. n : f[r] = x
  OBVIOUS
<1>3. \A r \in 1 .. n : f[r] = problems[batch[r]].length
  OBVIOUS
<1> HIDE DEF f, S
<1>4. PICK r \in 1 .. n : \A s \in 1 .. n : f[s] <= f[r]
  BY <1>1, GreatestNatural
<1>5. f[r] \in S /\ \A y \in S : f[r] >= y
  BY <1>1, <1>2, <1>4
<1>6. Max(S) \in S /\ \A y \in S : Max(S) >= y
  BY <1>5 DEF Max
<1>7. Widest(batch) = Max(S)
  BY DEF Widest, S
<1> QED BY <1>1, <1>2, <1>3, <1>6, <1>7

LEMMA ScoreIsRight ==
  ASSUME ProblemsOK, NEW i \in DOMAIN problems, NEW width \in Nat, problems[i].length <= width
  PROVE  ScoredRight(Score(i, width), i)
<1>1. problems[i].length \in Nat
  BY LengthIs
<1>2. AnswerView(i, width) = [k \in 1 .. problems[i].length |-> PaddedRow(i, width)[k]]
  BY <1>1 DEF AnswerView
<1>3. \A k \in 1 .. problems[i].length : PaddedRow(i, width)[k] = <<i, k>>
  BY <1>1 DEF PaddedRow
<1>4. AnswerView(i, width) = Prompt(i)
  BY <1>2, <1>3 DEF Prompt
<1> QED BY <1>4 DEF Score, ScoredRight

LEMMA PartOf ==
  ASSUME NEW s, NEW a \in Nat \ {0}, NEW m \in Nat, NEW b \in Nat, b = a + m - 1
  PROVE  SubSeq(s, a, b) = [i \in 1 .. m |-> s[a + i - 1]]
<1>1. b - a + 1 = m
  OBVIOUS
<1>2. SubSeq(s, a, b) = [i \in 1 .. b - a + 1 |-> s[i + a - 1]]
  OBVIOUS
<1>3. \A i \in 1 .. m : i + a - 1 = a + i - 1
  OBVIOUS
<1> QED BY <1>1, <1>2, <1>3

LEMMA JoinIs ==
  ASSUME NEW S, NEW s \in Seq(S), NEW t \in Seq(S), NEW n, n = Len(s), NEW m, m = Len(t)
  PROVE  /\ s \o t \in Seq(S) /\ Len(s \o t) = n + m
         /\ \A i \in 1 .. n : (s \o t)[i] = s[i]
         /\ \A i \in 1 .. m : (s \o t)[n + i] = t[i]
OBVIOUS

LEMMA SelectKeeps ==
  ASSUME ChatEvaluationInv, SelectProblems
  PROVE  ChatEvaluationInv'
<1> DEFINE e == evaluation
           fit == FittingUpTo(Examined)
           c == Cardinality(fit)
           chosen == InOrder(fit)
<1>1. CASE fit = {}
  BY <1>1, FailsKeeps DEF SelectProblems
<1>2. CASE fit # {}
  <2>1. /\ ProblemsOK /\ DOMAIN e = CommandFields /\ e = [f \in CommandFields |-> e[f]]
        /\ e.settings.limit \in Nat /\ SamplesOK(e.samples) /\ ResultsOK(e)
    BY DEF ChatEvaluationInv, CommandOK
  <2>2. /\ UNCHANGED <<problems, able, runFiles>>
        /\ e' = [e EXCEPT !.at = "score", !.queue = chosen, !.excluded = (1 .. Examined) \ fit,
                          !.scored = <<>>, !.counts = <<>>]
    BY <1>2 DEF SelectProblems, Continue
  <2>3. /\ DOMAIN e' = CommandFields /\ e' = [f \in CommandFields |-> e'[f]]
        /\ e'.at = "score" /\ e'.settings = e.settings /\ e'.samples = e.samples
        /\ e'.results = e.results /\ e'.queue = chosen
        /\ e'.excluded = (1 .. Examined) \ fit /\ e'.scored = <<>> /\ e'.counts = <<>>
    BY <2>1, <2>2 DEF CommandFields
  <2>4. /\ Examined' = Examined /\ FittingUpTo(Examined)' = fit /\ Tallied(<<>>)' = <<>>
        /\ \A r : ResultOK(r) => ResultOK(r)'
    BY <2>2, <2>3, ProblemsStay, ResultsStay, NothingTallied
  <2>5. c \in Nat /\ chosen \in [1 .. c -> fit]
    <3>1. Examined \in 0 .. Len(problems)
      BY <2>1, ExaminedIs DEF Limit
    <3>2. fit \in SUBSET Nat /\ IsFiniteSet(fit)
      BY <2>1, <3>1, FittingIs
    <3> QED BY <3>2, InOrderIs
  <2> HIDE DEF fit, c, chosen, e
  <2>6. chosen = SubSeq(chosen, 1, c)
    BY <2>5
  <2>7. ScoringOK(e)'
    BY <1>2, <2>3, <2>4, <2>5, <2>6, EmptyListed DEF ScoringOK, fit, c, chosen, e
  <2>8. SamplesOK(e.samples)' /\ ResultsOK(e)'
    BY <2>1, <2>3, <2>4 DEF SamplesOK, ResultsOK
  <2>9. CommandOK(evaluation)'
    BY <2>1, <2>3, <2>7, <2>8 DEF CommandOK, Stages, e
  <2> QED BY <2>2, <2>3, <2>9, CommandContinues DEF e
<1> QED BY <1>1, <1>2

LEMMA ScoreKeeps ==
  ASSUME ChatEvaluationInv, ScoreBatch
  PROVE  ChatEvaluationInv'
<1> DEFINE e == evaluation
           fit == FittingUpTo(Examined)
           c == Cardinality(fit)
           chosen == InOrder(fit)
           k == Len(e.scored)
           size == Min({ChatBatch, Len(e.queue)})
           batch == SubSeq(e.queue, 1, size)
           scores == [r \in 1 .. size |-> Score(batch[r], Widest(batch))]
<1>1. /\ ProblemsOK /\ DOMAIN e = CommandFields /\ e = [f \in CommandFields |-> e[f]]
      /\ e.settings.limit \in Nat /\ SamplesOK(e.samples) /\ ResultsOK(e) /\ ScoringOK(e)
  BY DEF ChatEvaluationInv, CommandOK, ScoreBatch
<1>2. /\ UNCHANGED <<problems, able, runFiles>>
      /\ e.queue # <<>> /\ e.at = "score"
      /\ e' = [e EXCEPT !.queue = SubSeq(e.queue, size + 1, Len(e.queue)),
                        !.scored = e.scored \o scores, !.counts = Counted(e.counts, scores)]
  BY DEF ScoreBatch, Continue
<1>3. /\ DOMAIN e' = CommandFields /\ e' = [f \in CommandFields |-> e'[f]]
      /\ e'.at = "score" /\ e'.settings = e.settings /\ e'.samples = e.samples
      /\ e'.results = e.results /\ e'.queue = SubSeq(e.queue, size + 1, Len(e.queue))
      /\ e'.excluded = e.excluded /\ e'.scored = e.scored \o scores
      /\ e'.counts = Counted(e.counts, scores)
  <2> HIDE DEF e, scores, size
  <2> QED BY <1>1, <1>2 DEF CommandFields
<1>4. /\ Examined' = Examined /\ FittingUpTo(Examined)' = fit
      /\ \A s : Tallied(s)' = Tallied(s)
      /\ \A r : ResultOK(r) => ResultOK(r)'
      /\ \A x, i : ScoredRight(x, i) => ScoredRight(x, i)'
  BY <1>2, <1>3, ProblemsStay, ResultsStay, ScoresStay
<1>5. /\ c \in Nat /\ chosen \in [1 .. c -> fit] /\ fit \in SUBSET (DOMAIN problems)
  <2>1. Examined \in 0 .. Len(problems)
    BY <1>1, ExaminedIs DEF Limit
  <2>2. fit \in SUBSET Nat /\ IsFiniteSet(fit)
    BY <1>1, <2>1, FittingIs
  <2>3. fit \in SUBSET (DOMAIN problems)
    BY <1>1, <2>1 DEF FittingUpTo, ProblemsOK
  <2> QED BY <2>2, <2>3, InOrderIs
<1>6. /\ fit # {} /\ e.excluded = (1 .. Examined) \ fit
      /\ Listed(e.scored) /\ k \in Nat /\ k <= c
      /\ \A i \in 1 .. k : ScoredRight(e.scored[i], chosen[i])
      /\ e.queue = SubSeq(chosen, k + 1, c) /\ e.counts = Tallied(e.scored)
  BY <1>1 DEF ScoringOK, Listed
<1> HIDE DEF c, fit, chosen, k
<1>7. chosen \in Seq(fit) /\ Len(chosen) = c
  BY <1>5, ListIsSeq
<1>8. /\ e.queue = [i \in 1 .. c - k |-> chosen[k + i]] /\ Len(e.queue) = c - k
      /\ c - k \in Nat
  <2>1. c - k \in Nat
    BY <1>5, <1>6
  <2>2. SubSeq(chosen, k + 1, c) = [i \in 1 .. c - k |-> chosen[k + i]]
    BY <1>5, <1>6
  <2>3. Len([i \in 1 .. c - k |-> chosen[k + i]]) = c - k
    BY ONLY <2>1
  <2> QED BY <1>6, <2>1, <2>2, <2>3
<1>9. size \in 1 .. c - k /\ size \in Nat \ {0}
  <2>1. c - k # 0
    BY <1>2, <1>8
  <2>2. ChatBatch \in Nat \ {0}
    BY ChatEvaluationAssumption
  <2>3. size \in {ChatBatch, c - k} /\ size <= c - k
    <3> DEFINE q == c - k
    <3>1. q \in Nat
      BY <1>8
    <3>2. size = Min({ChatBatch, q})
      BY <1>8
    <3> HIDE DEF q, size
    <3>3. size \in {ChatBatch, q} /\ size <= q
      BY <2>2, <3>1, <3>2 DEF Min
    <3> QED BY <3>3 DEF q
  <2> QED BY <1>8, <2>1, <2>2, <2>3
<1> HIDE DEF size
<1>10. batch = [i \in 1 .. size |-> chosen[k + i]]
  <2>1. batch = [i \in 1 .. size |-> e.queue[i]]
    BY <1>9
  <2>2. \A i \in 1 .. size : e.queue[i] = chosen[k + i]
    BY <1>8, <1>9
  <2> QED BY <2>1, <2>2
<1>11. \A i \in 1 .. size : k + i \in 1 .. c /\ batch[i] = chosen[k + i] /\ batch[i] \in DOMAIN problems
  <2> TAKE i \in 1 .. size
  <2>1. k + i \in 1 .. c
    BY <1>5, <1>6, <1>8, <1>9
  <2>2. batch[i] = chosen[k + i]
    BY <1>10
  <2> QED BY <1>5, <2>1, <2>2
<1>12. DOMAIN batch = 1 .. size
  BY <1>10
<1> HIDE DEF batch
<1>13. /\ Widest(batch) \in Nat
       /\ \A i \in 1 .. size : problems[batch[i]].length <= Widest(batch)
  BY <1>1, <1>9, <1>11, <1>12, WidestIs
<1>14. \A i \in 1 .. size : ScoredRight(scores[i], chosen[k + i])
  <2> TAKE i \in 1 .. size
  <2>1. scores[i] = Score(batch[i], Widest(batch))
    OBVIOUS
  <2>2. ScoredRight(Score(batch[i], Widest(batch)), batch[i])
    BY <1>1, <1>11, <1>13, ScoreIsRight
  <2> QED BY <1>11, <2>1, <2>2
<1>15. DOMAIN scores = 1 .. size
  OBVIOUS
<1>16. Listed(scores) /\ Len(scores) = size
  <2>1. Len(scores) = size
    <3> DEFINE F == [i \in 1 .. size |-> Score(batch[i], Widest(batch))]
    <3> QED BY <1>9
  <2>2. scores = [i \in 1 .. size |-> scores[i]]
    OBVIOUS
  <2> HIDE DEF scores
  <2> QED BY <1>9, <2>1, <2>2 DEF Listed
<1> HIDE DEF scores
<1> DEFINE all == e.scored \o scores
           S == {e.scored[i] : i \in 1 .. k} \cup {scores[i] : i \in 1 .. size}
<1>17. e.scored \in Seq(S) /\ scores \in Seq(S)
  <2>1. /\ e.scored = [i \in 1 .. k |-> e.scored[i]]
        /\ scores = [i \in 1 .. size |-> scores[i]]
    BY <1>6, <1>16 DEF Listed, k
  <2>2. (\A i \in 1 .. k : e.scored[i] \in S) /\ (\A i \in 1 .. size : scores[i] \in S)
    OBVIOUS
  <2> HIDE DEF S, e
  <2>3. e.scored \in [1 .. k -> S] /\ scores \in [1 .. size -> S]
    BY <2>1, <2>2
  <2> QED BY <1>6, <1>9, <2>3, ListIsSeq
<1> HIDE DEF S
<1>18. /\ Listed(all) /\ Len(all) = k + size
       /\ \A i \in 1 .. k : all[i] = e.scored[i]
       /\ \A i \in 1 .. size : all[k + i] = scores[i]
  <2>1. Len(e.scored) = k
    BY DEF k
  <2>2. /\ all \in Seq(S) /\ Len(all) = k + size
        /\ \A i \in 1 .. k : all[i] = e.scored[i]
        /\ \A i \in 1 .. size : all[k + i] = scores[i]
    <3> DEFINE s == e.scored
    <3>1. s \in Seq(S) /\ k = Len(s) /\ size = Len(scores)
      BY <1>16, <1>17, <2>1
    <3> HIDE DEF s
    <3>2. /\ s \o scores \in Seq(S) /\ Len(s \o scores) = k + size
          /\ \A i \in 1 .. k : (s \o scores)[i] = s[i]
          /\ \A i \in 1 .. size : (s \o scores)[k + i] = scores[i]
      BY ONLY <1>17, <3>1, JoinIs
    <3> QED BY <3>2 DEF s
  <2> HIDE DEF all
  <2> QED BY <2>2, SeqIsListed
<1>19. Counted(e.counts, scores) = Tallied(all)
  BY <1>6, <1>17, CountedIs
<1> HIDE DEF all
<1>20. \A i \in 1 .. k + size : ScoredRight(all[i], chosen[i])
  <2> TAKE i \in 1 .. k + size
  <2>1. CASE i \in 1 .. k
    BY <1>6, <1>18, <2>1
  <2>2. CASE i \notin 1 .. k
    <3>1. i - k \in 1 .. size /\ k + (i - k) = i
      BY <1>6, <1>9, <2>2
    <3> QED BY <1>14, <1>18, <3>1
  <2> QED BY <2>1, <2>2
<1>21. SubSeq(e.queue, size + 1, Len(e.queue)) = SubSeq(chosen, k + size + 1, c)
  <2> DEFINE q == c - k
             m == c - k - size
  <2>1. /\ m \in Nat /\ q \in Nat /\ c \in Nat
        /\ size + 1 \in Nat \ {0} /\ k + size + 1 \in Nat \ {0}
        /\ q = size + 1 + m - 1 /\ c = k + size + 1 + m - 1
    <3>1. c \in Nat /\ k \in Nat /\ size \in 1 .. c - k
      BY <1>5, <1>6, <1>9
    <3> QED BY ONLY <3>1
  <2>2. SubSeq(e.queue, size + 1, Len(e.queue)) = [i \in 1 .. m |-> e.queue[size + 1 + i - 1]]
    <3>1. Len(e.queue) = q
      BY <1>8
    <3> DEFINE from == size + 1
               queue == e.queue
    <3>2. from \in Nat \ {0} /\ m \in Nat /\ q \in Nat /\ q = from + m - 1
      BY <2>1
    <3> HIDE DEF m, q, from, queue
    <3>3. SubSeq(queue, from, q) = [i \in 1 .. m |-> queue[from + i - 1]]
      BY ONLY <3>2, PartOf
    <3> QED BY <3>1, <3>3 DEF from, queue
  <2>3. SubSeq(chosen, k + size + 1, c) = [i \in 1 .. m |-> chosen[k + size + 1 + i - 1]]
    <3> DEFINE from == k + size + 1
    <3>1. from \in Nat \ {0} /\ m \in Nat /\ c \in Nat /\ c = from + m - 1
      BY <2>1
    <3> HIDE DEF m, q, from
    <3>2. SubSeq(chosen, from, c) = [i \in 1 .. m |-> chosen[from + i - 1]]
      BY ONLY <3>1, PartOf
    <3> QED BY <3>2 DEF from
  <2>4. ASSUME NEW i \in 1 .. m
        PROVE  e.queue[size + 1 + i - 1] = chosen[k + size + 1 + i - 1]
    <3>1. /\ size + 1 + i - 1 \in 1 .. c - k
          /\ k + (size + 1 + i - 1) = k + size + 1 + i - 1
      BY <1>5, <1>6, <1>8, <1>9
    <3> QED BY <1>8, <3>1
  <2> HIDE DEF m
  <2> QED BY <2>2, <2>3, <2>4
<1>22. k + size <= c /\ k + size \in Nat
  BY <1>5, <1>6, <1>8, <1>9
<1>23. ScoringOK(e)'
  <2>1. e'.scored = all /\ Len(e'.scored) = k + size /\ Listed(e'.scored)
    BY <1>3, <1>18 DEF all
  <2>2. FittingUpTo(Examined)' = fit /\ InOrder(FittingUpTo(Examined))' = chosen
        /\ Cardinality(FittingUpTo(Examined))' = c
    BY <1>4 DEF fit, chosen, c
  <2>3. e'.queue = SubSeq(chosen, k + size + 1, c) /\ e'.counts = Tallied(e.scored)'
    BY <1>3, <1>4, <1>19, <1>21, <2>1
  <2>4. \A i \in 1 .. k + size : ScoredRight(e.scored[i], chosen[i])'
    <3>1. FittingUpTo(Examined)' = fit /\ chosen' = chosen
      BY <2>2 DEF fit, chosen
    <3> QED BY <1>4, <1>20, <2>1, <3>1
  <2>5. e'.excluded = (1 .. Examined') \ fit
    BY <1>3, <1>4, <1>6
  <2> QED BY <1>6, <1>22, <2>1, <2>2, <2>3, <2>4, <2>5 DEF ScoringOK, fit, chosen, c
<1>24. SamplesOK(e.samples)' /\ ResultsOK(e)'
  BY <1>1, <1>3, <1>4 DEF SamplesOK, ResultsOK
<1>25. CommandOK(evaluation)'
  BY <1>1, <1>3, <1>23, <1>24 DEF CommandOK, Stages, e
<1> QED BY <1>2, <1>3, <1>25, CommandContinues DEF e

\* A finished categorical task passes its own validation.
LEMMA ValidIs ==
  ASSUME ProblemsOK, Limit \in Nat, FittingUpTo(Examined) # {}, NEW scored,
         AllScored(scored, FittingUpTo(Examined))
  PROVE  ValidCategorical(scored, (1 .. Examined) \ FittingUpTo(Examined), Tallied(scored), Limit)
<1> DEFINE N == Len(problems)
           fit == FittingUpTo(Examined)
           all == FittingUpTo(N)
           c == Cardinality(fit)
           excluded == (1 .. Examined) \ fit
           x == Cardinality(excluded)
<1>1. /\ Examined \in 0 .. N /\ N \in 0 .. N /\ N \in Nat
      /\ Limit = 0 \/ Cardinality(all) < Limit => Examined = N
      /\ Limit # 0 /\ ~(Cardinality(all) < Limit) => c = Limit
  BY ExaminedIs DEF ProblemsOK
<1>2. c \in Nat /\ IsFiniteSet(fit) /\ c + x = Examined /\ IsFiniteSet(excluded)
  <2>1. c \in Nat /\ IsFiniteSet(fit) /\ c + x = Examined
    BY <1>1, FittingIs
  <2>2. IsFiniteSet(1 .. Examined) /\ excluded \in SUBSET (1 .. Examined)
    BY <1>1, FS_Interval
  <2> QED BY <2>1, <2>2, FS_Subset
<1>3. x \in Nat
  BY <1>2, FS_CardinalityType
<1>4. c # 0
  BY <1>2, FS_EmptySet
<1>5. \A i \in excluded : ~Fits(i)
  BY DEF FittingUpTo
<1>6. Len(scored) = c /\ DOMAIN scored = 1 .. c
  BY DEF AllScored
<1>7. /\ GroupTotal(Tallied(scored), 1) = Passed(scored)
      /\ GroupTotal(Tallied(scored), 2) = Len(scored)
  BY <1>2, <1>6, TalliedIsValid
<1>8. ASSUME Limit # 0, Cardinality(all) < Limit PROVE c < Limit
  <2>1. fit = all
    BY <1>1, <1>8
  <2> QED BY <1>8, <2>1
<1> HIDE DEF N, c, x, fit, all, excluded
<1>9. Len(scored) \in 1 .. N
  BY <1>1, <1>2, <1>3, <1>4, <1>6
<1>10. IF Limit = 0 THEN c + x = N ELSE c <= Limit /\ c + x <= N /\ (c < Limit => c + x = N)
  <2>1. CASE Limit = 0
    BY <1>1, <1>2, <2>1
  <2>2. CASE Limit # 0 /\ Cardinality(all) < Limit
    BY <1>1, <1>2, <1>8, <2>2
  <2>3. CASE Limit # 0 /\ ~(Cardinality(all) < Limit)
    BY <1>1, <1>2, <2>3
  <2> QED BY <2>1, <2>2, <2>3
<1>11. ValidCategorical(scored, excluded, Tallied(scored), Limit)
  BY <1>5, <1>6, <1>7, <1>9, <1>10 DEF ValidCategorical, N, x
<1> QED BY <1>11 DEF excluded, fit

LEMMA CategoricalKeeps ==
  ASSUME ChatEvaluationInv, FinishCategorical
  PROVE  ChatEvaluationInv'
<1> DEFINE e == evaluation
           fit == FittingUpTo(Examined)
           c == Cardinality(fit)
           chosen == InOrder(fit)
           k == Len(e.scored)
           result == [task |-> "categorical", limit |-> Limit, scored |-> e.scored,
                      excluded |-> e.excluded, counts |-> e.counts,
                      valid |-> ValidCategorical(e.scored, e.excluded, e.counts, Limit)]
<1>1. ProblemsOK /\ Limit \in Nat /\ ScoringOK(e) /\ e.queue = <<>> /\ FinishTask(result)
  BY DEF ChatEvaluationInv, CommandOK, FinishCategorical, Limit
<1>2. c \in Nat /\ chosen \in [1 .. c -> fit]
  <2>1. Examined \in 0 .. Len(problems)
    BY <1>1, ExaminedIs
  <2>2. fit \in SUBSET Nat /\ IsFiniteSet(fit)
    BY <1>1, <2>1, FittingIs
  <2> QED BY <2>2, InOrderIs
<1>3. /\ fit # {} /\ e.excluded = (1 .. Examined) \ fit
      /\ k \in Nat /\ k <= c /\ DOMAIN e.scored = 1 .. k
      /\ \A i \in 1 .. k : ScoredRight(e.scored[i], chosen[i])
      /\ e.queue = SubSeq(chosen, k + 1, c) /\ e.counts = Tallied(e.scored)
  BY <1>1 DEF ScoringOK, Listed
<1> HIDE DEF fit, c, chosen, k, e
<1>4. k = c
  <2> DEFINE from == k + 1
             m == c - k
  <2>1. from \in Nat \ {0} /\ m \in Nat /\ c \in Nat /\ c = from + m - 1
    BY <1>2, <1>3
  <2>2. e.queue = SubSeq(chosen, from, c)
    BY <1>3
  <2> HIDE DEF m, from
  <2>3. SubSeq(chosen, from, c) = [i \in 1 .. m |-> chosen[from + i - 1]]
    BY ONLY <2>1, PartOf
  <2>4. DOMAIN e.queue = 1 .. m
    BY <2>2, <2>3
  <2>5. DOMAIN e.queue = {}
    BY <1>1
  <2>6. m = 0
    <3> SUFFICES ASSUME m # 0 PROVE FALSE
      OBVIOUS
    <3>1. 1 \in 1 .. m
      BY <2>1
    <3> QED BY ONLY <3>1, <2>4, <2>5
  <2> QED BY <1>2, <1>3, <2>6 DEF m
<1>5. AllScored(e.scored, fit)
  BY <1>3, <1>4 DEF AllScored, ScoredRight, chosen, c, k
<1>6. ValidCategorical(e.scored, e.excluded, e.counts, Limit)
  BY <1>1, <1>3, <1>5, ValidIs DEF fit
<1>7. /\ result.task = "categorical" /\ result.limit = Limit /\ result.valid
      /\ result.scored = e.scored /\ result.excluded = (1 .. Examined) \ fit
  BY <1>3, <1>6
<1> HIDE DEF result
<1>8. CategoricalExact(result)
      /\ (result.limit = 0 => Len(result.scored) + Cardinality(result.excluded) = Len(problems))
  BY <1>1, <1>3, <1>5, <1>7, CategoricalIsExact DEF fit
<1>9. ResultOK(result)
  BY <1>7, <1>8 DEF ResultOK
<1> QED BY <1>1, <1>7, <1>9, FinishKeeps

-----------------------------------------------------------------------------
(* The generative task.                                                    *)

LEMMA AskedIs == ASSUME Limit \in Nat PROVE Asked \in Nat
<1>1. ProgramCount \in Nat
  BY ChatEvaluationAssumption
<1>2. Min({Limit, ProgramCount}) \in {Limit, ProgramCount}
  BY <1>1 DEF Min
<1> QED BY <1>1, <1>2 DEF Asked

\* The samples of problem p are the K from (p - 1) K on.
Place(K, p, s) == (p - 1) * K + s
PlacesAt(n, K, p, s) ==
  n \in Nat \ {0} /\ n <= p * K /\ ((n - 1) \div K) + 1 = p /\ ((n - 1) % K) + 1 = s

LEMMA PlaceOfSample ==
  ASSUME NEW K \in Nat \ {0}, NEW p \in Nat \ {0}, NEW s \in 1 .. K
  PROVE  PlacesAt(Place(K, p, s), K, p, s)
<1> DEFINE q == p - 1
           t == s - 1
<1>1. q \in Nat /\ t \in Nat /\ t < K /\ p = q + 1 /\ s = t + 1
  OBVIOUS
<1>2. q * K \in Nat
  BY <1>1
<1>3. (q * K + t) \div K = q /\ (q * K + t) % K = t
  BY <1>1
<1>4. (q + 1) * K = q * K + K
  BY <1>1
<1> HIDE DEF q, t
<1>5. (p - 1) * K = q * K /\ p * K = q * K + K
  BY <1>1, <1>4 DEF q
<1>6. ((p - 1) * K + s) - 1 = q * K + t
  BY <1>1, <1>2, <1>5
<1> QED BY <1>1, <1>2, <1>3, <1>5, <1>6 DEF Place, PlacesAt

LEMMA SampleOfPlace ==
  ASSUME NEW K \in Nat \ {0}, NEW n \in Nat \ {0}
  PROVE  LET p == ((n - 1) \div K) + 1
             s == ((n - 1) % K) + 1
         IN  p \in Nat \ {0} /\ s \in 1 .. K /\ n = Place(K, p, s)
<1> DEFINE m == n - 1
           q == m \div K
           t == m % K
<1>1. m \in Nat /\ n = m + 1
  OBVIOUS
<1> HIDE DEF m
<1>2. q \in Nat /\ t \in 0 .. K - 1 /\ m = K * q + t
  BY <1>1
<1> HIDE DEF q, t
<1>3. K * q = q * K /\ K * q \in Nat
  BY <1>2
<1>4. (q + 1) - 1 = q
  BY <1>2
<1>5. n = ((q + 1) - 1) * K + (t + 1)
  BY <1>1, <1>2, <1>3, <1>4
<1>6. q + 1 \in Nat \ {0} /\ t + 1 \in 1 .. K
  BY <1>2
<1> QED BY <1>5, <1>6 DEF q, t, m, Place

LEMMA ProgramIsExact ==
  ASSUME NEW r, r.count \in Nat, SamplesOK(r.samples), Len(r.samples) = r.count * ProgramSamples,
         r.passed = {p \in 1 .. r.count : \E n \in DOMAIN r.samples :
                       /\ r.samples[n].seed[1] = p
                       /\ r.samples[n].outcome = "passed"}
  PROVE  ProgramExact(r)
<1> DEFINE K == ProgramSamples
<1>1. K \in Nat \ {0}
  BY ChatEvaluationAssumption
<1>2. /\ DOMAIN r.samples = 1 .. r.count * K
      /\ \A n \in 1 .. r.count * K : r.samples[n].seed = SeedOf(n)
  BY DEF SamplesOK, Listed
<1>3. \A p \in 1 .. r.count, s \in 1 .. K :
        Place(K, p, s) \in 1 .. r.count * K /\ SeedOf(Place(K, p, s)) = <<p, s>>
  <2> TAKE p \in 1 .. r.count, s \in 1 .. K
  <2>1. /\ Place(K, p, s) \in Nat \ {0} /\ Place(K, p, s) <= p * K
        /\ ((Place(K, p, s) - 1) \div K) + 1 = p /\ ((Place(K, p, s) - 1) % K) + 1 = s
    <3>1. p \in Nat \ {0}
      OBVIOUS
    <3> HIDE DEF K
    <3>2. PlacesAt(Place(K, p, s), K, p, s)
      BY <1>1, <3>1, PlaceOfSample
    <3> QED BY <3>2 DEF PlacesAt
  <2>2. p * K <= r.count * K /\ p * K \in Nat /\ r.count * K \in Nat
    BY <1>1
  <2>3. Place(K, p, s) \in 1 .. r.count * K
    BY <2>1, <2>2
  <2> QED BY <2>1, <2>3 DEF SeedOf
<1>4. \A n \in 1 .. r.count * K :
        \A p \in 1 .. r.count : r.samples[n].seed[1] = p => \E s \in 1 .. K : n = Place(K, p, s)
  <2> TAKE n \in 1 .. r.count * K
  <2> TAKE p \in 1 .. r.count
  <2>1. HAVE r.samples[n].seed[1] = p
  <2>2. ((n - 1) \div K) + 1 = p
    BY <1>2, <2>1 DEF SeedOf
  <2>3. r.count * K \in Nat /\ n \in Nat \ {0}
    BY <1>1
  <2>4. ((n - 1) % K) + 1 \in 1 .. K /\ n = Place(K, p, ((n - 1) % K) + 1)
    BY <1>1, <2>2, <2>3, SampleOfPlace
  <2> QED BY <2>4
<1>5. \A p \in 1 .. r.count, s \in 1 .. K : \E n \in DOMAIN r.samples : r.samples[n].seed = <<p, s>>
  BY <1>2, <1>3
<1>6. ASSUME NEW p \in 1 .. r.count
      PROVE  p \in r.passed <=> \E s \in 1 .. K : r.samples[Place(K, p, s)].outcome = "passed"
  <2>1. ASSUME p \in r.passed PROVE \E s \in 1 .. K : r.samples[Place(K, p, s)].outcome = "passed"
    <3>1. PICK n \in DOMAIN r.samples : r.samples[n].seed[1] = p /\ r.samples[n].outcome = "passed"
      BY <2>1
    <3>2. PICK s \in 1 .. K : n = Place(K, p, s)
      BY <1>2, <1>4, <3>1
    <3> QED BY <3>1, <3>2
  <2>2. ASSUME NEW s \in 1 .. K, r.samples[Place(K, p, s)].outcome = "passed" PROVE p \in r.passed
    <3>1. Place(K, p, s) \in DOMAIN r.samples /\ r.samples[Place(K, p, s)].seed = <<p, s>>
      BY <1>2, <1>3
    <3> QED BY <2>2, <3>1
  <2> QED BY <2>1, <2>2
<1> QED BY <1>5, <1>6 DEF ProgramExact, Place

LEMMA ProgramKeeps ==
  ASSUME ChatEvaluationInv, FinishProgram
  PROVE  ChatEvaluationInv'
<1> DEFINE result == [task |-> "program", limit |-> Limit, samples |-> evaluation.samples,
              passed |-> {p \in 1 .. Asked : \E n \in DOMAIN evaluation.samples :
                            /\ evaluation.samples[n].seed[1] = p
                            /\ evaluation.samples[n].outcome = "passed"},
              count |-> Asked]
<1>1. /\ Limit \in Nat /\ SamplesOK(evaluation.samples)
      /\ Len(evaluation.samples) = Asked * ProgramSamples /\ FinishTask(result)
  BY DEF ChatEvaluationInv, CommandOK, FinishProgram, Limit
<1>2. Asked \in Nat
  BY <1>1, AskedIs
<1>3. /\ result.task = "program" /\ result.limit = Limit /\ result.samples = evaluation.samples
      /\ result.count = Asked
      /\ result.passed = {p \in 1 .. result.count : \E n \in DOMAIN result.samples :
                            /\ result.samples[n].seed[1] = p
                            /\ result.samples[n].outcome = "passed"}
  OBVIOUS
<1> HIDE DEF result
<1>4. ProgramExact(result)
  BY <1>1, <1>2, <1>3, ProgramIsExact
<1>5. ResultOK(result)
  BY <1>3, <1>4 DEF ResultOK
<1> QED BY <1>1, <1>3, <1>5, FinishKeeps

LEMMA SampleKeeps ==
  ASSUME ChatEvaluationInv, NEW run \in ProgramRuns, RunSample(run)
  PROVE  ChatEvaluationInv'
<1>1. CASE ~Normalized(run)
  BY <1>1, FailsKeeps DEF RunSample
<1>2. CASE Normalized(run)
  <2> DEFINE e == evaluation
             n == Len(e.samples)
             sample == [seed |-> SeedOf(n + 1), outcome |-> Status(run)]
             all == Append(e.samples, sample)
  <2>1. /\ DOMAIN e = CommandFields /\ e = [f \in CommandFields |-> e[f]]
        /\ e.settings.limit \in Nat /\ SamplesOK(e.samples) /\ ResultsOK(e)
        /\ e.scored = <<>> /\ e.counts = <<>> /\ e.at = "task"
    BY DEF ChatEvaluationInv, CommandOK, RunSample, At
  <2>2. UNCHANGED <<problems, able, runFiles>> /\ e' = [e EXCEPT !.samples = all]
    BY <1>2 DEF RunSample, Continue
  <2> HIDE DEF all
  <2>3. /\ DOMAIN e' = CommandFields /\ e' = [f \in CommandFields |-> e'[f]]
        /\ e'.at = "task" /\ e'.settings = e.settings /\ e'.samples = all
        /\ e'.results = e.results /\ e'.scored = <<>> /\ e'.counts = <<>>
    <3> HIDE DEF e
    <3> QED BY <2>1, <2>2 DEF CommandFields
  <2>4. \A r : ResultOK(r) => ResultOK(r)'
    BY <2>2, ResultsStay
  <2>5. Listed(e.samples) /\ n \in Nat /\ \A i \in 1 .. n : e.samples[i].seed = SeedOf(i)
    BY <2>1 DEF SamplesOK, Listed
  <2>6. /\ Listed(all) /\ Len(all) = n + 1 /\ \A i \in 1 .. n : all[i] = e.samples[i]
        /\ all[n + 1] = sample
    BY <2>5, AppendListed DEF all
  <2>7. sample.seed = SeedOf(n + 1)
    OBVIOUS
  <2> HIDE DEF n, sample
  <2>8. \A i \in 1 .. n + 1 : all[i].seed = SeedOf(i)
    <3> TAKE i \in 1 .. n + 1
    <3>1. CASE i \in 1 .. n
      BY <2>5, <2>6, <3>1
    <3>2. CASE i = n + 1
      BY <2>6, <2>7, <3>2
    <3> QED BY <2>5, <3>1, <3>2
  <2>9. SamplesOK(e.samples)'
    BY <2>3, <2>6, <2>8 DEF SamplesOK
  <2>10. ResultsOK(e)'
    BY <2>1, <2>3, <2>4 DEF ResultsOK
  <2>11. CommandOK(evaluation)'
    BY <2>1, <2>3, <2>9, <2>10 DEF CommandOK, Stages, e
  <2> QED BY <2>2, <2>3, <2>11, CommandContinues DEF e
<1> QED BY <1>1, <1>2

-----------------------------------------------------------------------------
(* The report and its tracking.                                            *)

LEMMA DiagnoseKeeps ==
  ASSUME ChatEvaluationInv, DiagnoseSamples
  PROVE  ChatEvaluationInv'
<1> DEFINE e == evaluation
<1>1. /\ DOMAIN e = CommandFields /\ e = [f \in CommandFields |-> e[f]]
      /\ e.settings.limit \in Nat /\ SamplesOK(e.samples) /\ ResultsOK(e)
  BY DEF ChatEvaluationInv, CommandOK
<1>2. /\ UNCHANGED <<problems, able, runFiles>> /\ e' = [e EXCEPT !.at = "publish"]
      /\ TasksDone(e)
  BY DEF DiagnoseSamples, Continue, TasksDone
<1>3. /\ DOMAIN e' = CommandFields /\ e' = [f \in CommandFields |-> e'[f]]
      /\ e'.at = "publish" /\ e'.settings = e.settings /\ e'.samples = e.samples
      /\ e'.results = e.results
  <2> HIDE DEF e
  <2> QED BY <1>1, <1>2 DEF CommandFields
<1>4. \A r : ResultOK(r) => ResultOK(r)'
  BY <1>2, ResultsStay
<1>5. SamplesOK(e.samples)' /\ ResultsOK(e)' /\ TasksDone(e)'
  <2>1. SamplesOK(e.samples)' /\ ResultsOK(e)'
    BY <1>1, <1>3, <1>4 DEF SamplesOK, ResultsOK
  <2>2. TasksDone(e)'
    BY <1>2, <1>3 DEF TasksDone
  <2> QED BY <2>1, <2>2
<1>6. CommandOK(evaluation)'
  BY <1>1, <1>3, <1>5 DEF CommandOK, Stages, e
<1> QED BY <1>2, <1>3, <1>6, CommandContinues DEF e

\* A command goes on to another stage of its report.
LEMMA StageOK ==
  ASSUME ChatEvaluationInv, UNCHANGED <<problems, able>>, NEW at, at \in {"track", "artifact"},
         evaluation.at \in {"publish", "track"}, evaluation' = [evaluation EXCEPT !.at = at]
  PROVE  ProblemsOK' /\ CommandOK(evaluation)' /\ evaluation'.at = at /\ Completed' = Completed
<1> DEFINE e == evaluation
<1>1. /\ DOMAIN e = CommandFields /\ e = [f \in CommandFields |-> e[f]]
      /\ e.settings.limit \in Nat /\ SamplesOK(e.samples) /\ ResultsOK(e) /\ TasksDone(e)
  BY DEF ChatEvaluationInv, CommandOK
<1>2. /\ DOMAIN e' = CommandFields /\ e' = [f \in CommandFields |-> e'[f]]
      /\ e'.at = at /\ e'.settings = e.settings /\ e'.samples = e.samples
      /\ e'.results = e.results
  <2>1. e' = [e EXCEPT !.at = at]
    OBVIOUS
  <2> HIDE DEF e
  <2> QED BY <1>1, <2>1 DEF CommandFields
<1>3. \A r : ResultOK(r) => ResultOK(r)'
  BY ResultsStay
<1>4. SamplesOK(e.samples)' /\ ResultsOK(e)' /\ TasksDone(e)'
  <2>1. SamplesOK(e.samples)' /\ ResultsOK(e)'
    BY <1>1, <1>2, <1>3 DEF SamplesOK, ResultsOK
  <2>2. TasksDone(e)'
    BY <1>1, <1>2 DEF TasksDone
  <2> QED BY <2>1, <2>2
<1>5. CommandOK(evaluation)'
  BY <1>1, <1>2, <1>4 DEF CommandOK, Stages, e
<1>6. ProblemsOK'
  BY ProblemsStay DEF ChatEvaluationInv
<1> QED BY <1>2, <1>5, <1>6 DEF Completed

\* What a command reports when it has done its tasks.
LEMMA CompletedIs ==
  ASSUME ChatEvaluationInv, evaluation.at = "publish"
  PROVE  Completed # NoReport /\ AggregateOK(Completed)
<1> DEFINE results == evaluation.results
           settings == evaluation.settings
           report == Completed
<1>1. /\ TasksDone(evaluation) /\ ResultsOK(evaluation)
  BY DEF ChatEvaluationInv, CommandOK
<1>2. report.results = results /\ report.aggregate = Full(settings)
  BY DEF Completed
<1>3. report # NoReport
  <2>1. "results" \in DOMAIN report /\ "results" \notin DOMAIN NoReport
    BY DEF Completed, NoReport
  <2> QED BY <2>1
<1>4. ASSUME Full(settings), NEW i \in DOMAIN TaskOrder
      PROVE  /\ results[i].task = TaskOrder[i] /\ results[i].limit = 0
             /\ results[i].task = "categorical" =>
                  Len(results[i].scored) + Cardinality(results[i].excluded) = Len(problems)
  <2>1. [j \in DOMAIN results |-> results[j].task] = TaskOrder /\ settings.limit = 0
    BY <1>1, <1>4 DEF TasksDone, Full
  <2> HIDE DEF results, settings
  <2>2. i \in DOMAIN results /\ results[i].task = TaskOrder[i]
    BY <2>1
  <2>3. ResultOK(results[i]) /\ results[i].limit = 0
    BY <1>1, <2>1, <2>2 DEF ResultsOK, Listed, results, settings
  <2> QED BY <2>2, <2>3 DEF ResultOK
<1> HIDE DEF results, settings, report
<1>5. AggregateOK(report)
  BY <1>2, <1>4 DEF AggregateOK
<1> QED BY <1>3, <1>5 DEF report

LEMMA PublishKeepsIt ==
  ASSUME ChatEvaluationInv, PublishReport
  PROVE  ChatEvaluationInv'
<1>1. /\ UNCHANGED <<problems, able>> /\ evaluation.at = "publish"
      /\ evaluation' = [evaluation EXCEPT !.at = "track"]
      /\ runFiles.report \in {NoReport, Completed}
      /\ runFiles' = [runFiles EXCEPT !.report = Completed]
  BY DEF PublishReport
<1>2. ProblemsOK' /\ CommandOK(evaluation)' /\ evaluation'.at = "track"
  BY <1>1, StageOK
<1>3. Completed # NoReport /\ AggregateOK(Completed)
  BY <1>1, CompletedIs
<1>4. AggregateOK(Completed) => AggregateOK(runFiles.report)'
  <2>1. runFiles'.report = Completed
    BY <1>1 DEF ChatEvaluationInv, FilesOK
  <2> QED BY <1>1, <2>1 DEF AggregateOK
<1>5. /\ DOMAIN runFiles = {"report", "journal", "behind"}
      /\ runFiles = [f \in {"report", "journal", "behind"} |-> runFiles[f]]
      /\ runFiles.journal \in Journals(runFiles.report)
      /\ runFiles.report = NoReport => runFiles.journal = <<>>
  BY DEF ChatEvaluationInv, FilesOK
<1> HIDE DEF Completed
<1>6. /\ DOMAIN runFiles' = {"report", "journal", "behind"}
      /\ runFiles' = [f \in {"report", "journal", "behind"} |-> runFiles'[f]]
      /\ runFiles'.report = Completed /\ runFiles'.journal = runFiles.journal
  BY <1>1, <1>5
<1>7. runFiles.journal \in Journals(Completed)
  <2>1. CASE runFiles.report = NoReport
    BY <1>5, <2>1 DEF Journals
  <2>2. CASE runFiles.report = Completed
    BY <1>5, <2>2
  <2> QED BY <1>1, <2>1, <2>2
<1>8. FilesOK(runFiles)'
  BY <1>3, <1>4, <1>6, <1>7 DEF FilesOK, Journals
<1> QED BY <1>2, <1>8 DEF ChatEvaluationInv

Event(kind, report) == [kind |-> kind, result |-> report]

LEMMA JournalIs ==
  ASSUME NEW report, NEW journal, journal \in Journals(report)
  PROVE  /\ journal = <<>> \/ journal = <<Event("metrics", report)>>
              \/ journal = <<Event("metrics", report), Event("artifact", report)>>
         /\ Event("metrics", report) \in ToSet(journal) <=> journal # <<>>
         /\ Event("artifact", report) \in ToSet(journal) <=>
              journal = <<Event("metrics", report), Event("artifact", report)>>
<1> DEFINE m == Event("metrics", report)
           a == Event("artifact", report)
<1>1. journal = <<>> \/ journal = <<m>> \/ journal = <<m, a>>
  BY DEF Journals, Event
<1>2. m # a
  BY DEF Event
<1>3. Event("metrics", report) = m /\ Event("artifact", report) = a
  OBVIOUS
<1> HIDE DEF m, a
<1>4. ToSet(<<>>) = {} /\ ToSet(<<m>>) = {m} /\ ToSet(<<m, a>>) = {m, a}
  BY DEF ToSet
<1>5. <<m>> # <<>> /\ <<m, a>> # <<>> /\ <<m>> # <<m, a>>
  OBVIOUS
<1> QED BY <1>1, <1>2, <1>3, <1>4, <1>5

LEMMA PairsOf ==
  ASSUME NEW m, NEW a
  PROVE  /\ Append(<<>>, m) = <<m>> /\ Append(<<m>>, a) = <<m, a>>
         /\ <<m>> # <<>> /\ <<m, a>> # <<>>
         /\ SubSeq(<<m, a>>, 1, 0) = <<>> /\ SubSeq(<<m, a>>, 1, 1) = <<m>>
         /\ SubSeq(<<m, a>>, 1, 2) = <<m, a>>
<1>1. Append(<<>>, m) = <<m>>
  OBVIOUS
<1>2. Append(<<m>>, a) = <<m, a>>
  <2> DEFINE s == <<m>>
             t == Append(s, a)
             u == <<m, a>>
  <2>1. Listed(s) /\ Len(s) = 1 /\ s[1] = m
    BY DEF Listed
  <2> HIDE DEF s
  <2>2. Listed(t) /\ Len(t) = 2 /\ t[1] = m /\ t[2] = a
    <3>1. /\ Listed(t) /\ Len(t) = Len(s) + 1
          /\ \A i \in 1 .. Len(s) : t[i] = s[i]
          /\ t[Len(s) + 1] = a
      BY <2>1, AppendListed
    <3>2. 1 \in 1 .. Len(s) /\ Len(s) + 1 = 2
      BY <2>1
    <3> HIDE DEF t
    <3> QED BY <2>1, <3>1, <3>2
  <2>3. Listed(u) /\ Len(u) = 2 /\ u[1] = m /\ u[2] = a
    BY DEF Listed
  <2>4. \A i \in 1 .. 2 : i = 1 \/ i = 2
    OBVIOUS
  <2> HIDE DEF t, u
  <2>5. t = [i \in 1 .. 2 |-> t[i]] /\ u = [i \in 1 .. 2 |-> u[i]]
    BY <2>2, <2>3 DEF Listed
  <2>6. \A i \in 1 .. 2 : t[i] = u[i]
    BY <2>2, <2>3, <2>4
  <2> QED BY <2>5, <2>6 DEF s, t, u
<1>3. <<m>> # <<>> /\ <<m, a>> # <<>>
  OBVIOUS
<1>4. SubSeq(<<m, a>>, 1, 0) = <<>>
  <2>1. SubSeq(<<m, a>>, 1, 0) = [i \in 1 .. 0 |-> <<m, a>>[1 + i - 1]]
    BY PartOf
  <2> QED BY <2>1
<1>5. SubSeq(<<m, a>>, 1, 1) = <<m>>
  <2>1. SubSeq(<<m, a>>, 1, 1) = [i \in 1 .. 1 |-> <<m, a>>[1 + i - 1]]
    BY PartOf
  <2>2. [i \in 1 .. 1 |-> <<m, a>>[1 + i - 1]] = [i \in 1 .. 1 |-> m]
    OBVIOUS
  <2>3. [i \in 1 .. 1 |-> m] = <<m>>
    OBVIOUS
  <2> QED BY ONLY <2>1, <2>2, <2>3
<1>6. SubSeq(<<m, a>>, 1, 2) = <<m, a>>
  <2>1. SubSeq(<<m, a>>, 1, 2) = [i \in 1 .. 2 |-> <<m, a>>[1 + i - 1]]
    BY PartOf
  <2>2. [i \in 1 .. 2 |-> <<m, a>>[1 + i - 1]] = [i \in 1 .. 2 |-> <<m, a>>[i]]
    OBVIOUS
  <2>3. [i \in 1 .. 2 |-> <<m, a>>[i]] = <<m, a>>
    OBVIOUS
  <2> QED BY ONLY <2>1, <2>2, <2>3
<1> QED BY <1>1, <1>2, <1>3, <1>4, <1>5, <1>6

\* What is journalled of a report once, after what is there.
LEMMA JournalGrows ==
  ASSUME NEW report, NEW journal, journal \in Journals(report), NEW kind,
         kind = "metrics" \/ (kind = "artifact" /\ journal # <<>>), NEW next,
         next = IF Event(kind, report) \in ToSet(journal) THEN journal
                ELSE Append(journal, Event(kind, report))
  PROVE  next \in Journals(report) /\ next # <<>>
<1> DEFINE m == Event("metrics", report)
           a == Event("artifact", report)
<1>1. /\ journal = <<>> \/ journal = <<m>> \/ journal = <<m, a>>
      /\ m \in ToSet(journal) <=> journal # <<>>
      /\ a \in ToSet(journal) <=> journal = <<m, a>>
  BY JournalIs
<1>2. Journals(report) = {<<>>, <<m>>, <<m, a>>}
  BY DEF Journals, Event
<1>3. \/ kind = "metrics" /\ Event(kind, report) = m
      \/ kind = "artifact" /\ Event(kind, report) = a /\ journal # <<>>
  OBVIOUS
<1> HIDE DEF m, a
<1>4. Append(<<>>, m) = <<m>> /\ Append(<<m>>, a) = <<m, a>> /\ <<m>> # <<>> /\ <<m, a>> # <<>>
  BY PairsOf
<1>5. next = <<m>> \/ next = <<m, a>>
  BY <1>1, <1>3, <1>4
<1> QED BY <1>2, <1>4, <1>5

LEMMA JournalKeeps ==
  ASSUME ChatEvaluationInv, NEW kind, NEW after, JournalOnce(kind, after),
         runFiles.report = Completed, Completed # NoReport,
         kind = "metrics" \/ (kind = "artifact" /\ runFiles.journal # <<>>)
  PROVE  /\ FilesOK(runFiles)' /\ runFiles'.report = Completed /\ runFiles'.journal # <<>>
         /\ UNCHANGED <<problems, able>> /\ evaluation' = after
<1>1. /\ DOMAIN runFiles = {"report", "journal", "behind"}
      /\ runFiles = [f \in {"report", "journal", "behind"} |-> runFiles[f]]
      /\ runFiles.journal \in Journals(runFiles.report)
      /\ AggregateOK(runFiles.report)
  BY DEF ChatEvaluationInv, FilesOK
<1> DEFINE journal == runFiles.journal
           next == IF Event(kind, Completed) \in ToSet(journal) THEN journal
                   ELSE Append(journal, Event(kind, Completed))
<1>2. /\ UNCHANGED <<problems, able>> /\ evaluation' = after
      /\ runFiles' = [runFiles EXCEPT !.journal = next]
  BY DEF JournalOnce, Event
<1>3. journal \in Journals(Completed)
  BY <1>1
<1> HIDE DEF Completed
<1>4. next \in Journals(Completed) /\ next # <<>>
  BY <1>3, JournalGrows
<1> HIDE DEF next
<1>5. /\ DOMAIN runFiles' = {"report", "journal", "behind"}
      /\ runFiles' = [f \in {"report", "journal", "behind"} |-> runFiles'[f]]
      /\ runFiles'.report = Completed /\ runFiles'.journal = next
  BY <1>1, <1>2
<1>6. AggregateOK(runFiles.report)'
  <2>1. AggregateOK(runFiles.report) => AggregateOK(runFiles.report)'
    BY <1>2, <1>5 DEF AggregateOK
  <2> QED BY <1>1, <2>1
<1>7. FilesOK(runFiles)'
  BY <1>4, <1>5, <1>6 DEF FilesOK, Journals
<1> QED BY <1>2, <1>4, <1>5, <1>7

LEMMA CompletedIsReport == Completed # NoReport
<1>1. "results" \in DOMAIN Completed /\ "results" \notin DOMAIN NoReport
  BY DEF Completed, NoReport
<1> QED BY <1>1

\* A command that goes back to rest, whatever it has done to the files.
LEMMA RestsOK ==
  ASSUME ChatEvaluationInv, UNCHANGED <<problems, able>>, evaluation' = Resting, FilesOK(runFiles)'
  PROVE  ChatEvaluationInv'
<1>1. SamplesOK(evaluation.samples)' /\ ResultsOK(evaluation)'
  BY EmptyListed, RestingIsFresh DEF SamplesOK, ResultsOK, Fresh
<1>2. CommandOK(evaluation)' /\ evaluation'.at # "artifact"
  BY <1>1, RestingIsFresh DEF CommandOK, Stages, Fresh
<1>3. ProblemsOK'
  BY ProblemsStay DEF ChatEvaluationInv
<1> QED BY <1>2, <1>3 DEF ChatEvaluationInv

LEMMA MetricsKeeps ==
  ASSUME ChatEvaluationInv, TrackMetrics
  PROVE  ChatEvaluationInv'
<1> DEFINE fresh == [kind |-> "metrics", result |-> Completed] \notin ToSet(runFiles.journal)
           after == IF fresh /\ runFiles.behind THEN Resting ELSE [evaluation EXCEPT !.at = "artifact"]
<1>1. evaluation.at = "track" /\ runFiles.report = Completed /\ JournalOnce("metrics", after)
  BY DEF TrackMetrics
<1>2. after = Resting \/ after = [evaluation EXCEPT !.at = "artifact"]
  OBVIOUS
<1> HIDE DEF after
<1>3. /\ FilesOK(runFiles)' /\ runFiles'.report = Completed /\ runFiles'.journal # <<>>
      /\ UNCHANGED <<problems, able>> /\ evaluation' = after
  BY <1>1, CompletedIsReport, JournalKeeps
<1>4. CASE after = Resting
  BY <1>3, <1>4, RestsOK
<1>5. CASE after = [evaluation EXCEPT !.at = "artifact"]
  <2>1. ProblemsOK' /\ CommandOK(evaluation)' /\ Completed' = Completed
    BY <1>1, <1>3, <1>5, StageOK
  <2> QED BY <1>3, <2>1 DEF ChatEvaluationInv
<1> QED BY <1>2, <1>4, <1>5

LEMMA ArtifactKeeps ==
  ASSUME ChatEvaluationInv, TrackArtifact
  PROVE  ChatEvaluationInv'
<1>1. /\ JournalOnce("artifact", Resting) /\ runFiles.report = Completed /\ runFiles.journal # <<>>
  BY DEF TrackArtifact, ChatEvaluationInv
<1>2. FilesOK(runFiles)' /\ UNCHANGED <<problems, able>> /\ evaluation' = Resting
  BY <1>1, CompletedIsReport, JournalKeeps
<1> QED BY <1>2, RestsOK

\* The invariant holds when it starts, and after every step.
LEMMA ChatEvaluationInvInit == ChatEvaluationInit => ChatEvaluationInv
<1> SUFFICES ASSUME ChatEvaluationInit PROVE ChatEvaluationInv
  OBVIOUS
<1>1. ProblemsOK
  BY ChatEvaluationAssumption DEF ChatEvaluationInit, ProblemsOK
<1>2. evaluation = Resting
  BY DEF ChatEvaluationInit
<1>3. SamplesOK(evaluation.samples) /\ ResultsOK(evaluation)
  BY <1>2, EmptyListed, RestingIsFresh DEF SamplesOK, ResultsOK, Fresh
<1>4. CommandOK(evaluation) /\ evaluation.at # "artifact"
  BY <1>2, <1>3, RestingIsFresh DEF CommandOK, Stages, Fresh
<1>5. PICK behind \in BOOLEAN :
        runFiles = [report |-> NoReport, journal |-> <<>>, behind |-> behind]
  BY DEF ChatEvaluationInit
<1>6. FilesOK(runFiles)
  BY <1>5 DEF FilesOK, Journals, AggregateOK
<1> QED BY <1>1, <1>4, <1>6 DEF ChatEvaluationInv

LEMMA ChatEvaluationInvStep ==
  ChatEvaluationInv /\ [ChatEvaluationNext]_chatEvaluationVars => ChatEvaluationInv'
<1> SUFFICES ASSUME ChatEvaluationInv, [ChatEvaluationNext]_chatEvaluationVars
             PROVE  ChatEvaluationInv'
  OBVIOUS
<1>1. CASE \E settings \in ChatSettings : EvaluateChat(settings)
  BY <1>1, EvaluateKeeps
<1>2. CASE SelectProblems
  BY <1>2, SelectKeeps
<1>3. CASE ScoreBatch
  BY <1>3, ScoreKeeps
<1>4. CASE FinishCategorical
  BY <1>4, CategoricalKeeps
<1>5. CASE \E run \in ProgramRuns : RunSample(run)
  BY <1>5, SampleKeeps
<1>6. CASE FinishProgram
  BY <1>6, ProgramKeeps
<1>7. CASE DiagnoseSamples
  BY <1>7, DiagnoseKeeps
<1>8. CASE PublishReport
  BY <1>8, PublishKeepsIt
<1>9. CASE RefuseReport
  BY <1>9, FailsKeeps DEF RefuseReport
<1>10. CASE TrackMetrics
  BY <1>10, MetricsKeeps
<1>11. CASE TrackArtifact
  BY <1>11, ArtifactKeeps
<1>12. CASE StopEvaluation
  BY <1>12, FailsKeeps DEF StopEvaluation
<1>13. CASE UNCHANGED chatEvaluationVars
  <2>1. UNCHANGED <<problems, able, runFiles>> /\ evaluation' = evaluation
    BY <1>13 DEF chatEvaluationVars
  <2>2. /\ Examined' = Examined /\ \A n : FittingUpTo(n)' = FittingUpTo(n)
        /\ \A s : Tallied(s)' = Tallied(s)
        /\ \A r : ResultOK(r) => ResultOK(r)'
        /\ \A x, i : ScoredRight(x, i) => ScoredRight(x, i)'
        /\ \A report : AggregateOK(report) => AggregateOK(report)'
    BY <2>1, ProblemsStay, ResultsStay, ScoresStay, AggregateStays
  <2>3. CommandOK(evaluation)'
    <3>1. evaluation.at = "score" => ScoringOK(evaluation)'
      BY <2>1, <2>2 DEF ChatEvaluationInv, CommandOK, ScoringOK
    <3>2. SamplesOK(evaluation.samples)' /\ ResultsOK(evaluation)'
      BY <2>1, <2>2 DEF ChatEvaluationInv, CommandOK, SamplesOK, ResultsOK
    <3>3. evaluation.at \in {"publish", "track", "artifact"} => TasksDone(evaluation)'
      BY <2>1 DEF ChatEvaluationInv, CommandOK, TasksDone
    <3> QED BY <2>1, <3>1, <3>2, <3>3 DEF ChatEvaluationInv, CommandOK
  <2>4. FilesOK(runFiles)'
    BY <2>1, <2>2 DEF ChatEvaluationInv, FilesOK, Journals
  <2>5. ProblemsOK' /\ Completed' = Completed
    BY <2>1, ProblemsStay DEF ChatEvaluationInv, Completed
  <2> QED BY <2>1, <2>3, <2>4, <2>5 DEF ChatEvaluationInv
<1> QED BY <1>1, <1>2, <1>3, <1>4, <1>5, <1>6, <1>7, <1>8, <1>9, <1>10, <1>11, <1>12, <1>13
        DEF ChatEvaluationNext

LEMMA ChatEvaluationInvAlways == ChatEvaluationSpec => []ChatEvaluationInv
BY ChatEvaluationInvInit, ChatEvaluationInvStep, PTL DEF ChatEvaluationSpec

\* Scores of a chat evaluation are exact, its aggregate is of every task and
\* every problem, and its report is journalled at most once, metrics first,
\* for any problems, batch size, limit and number of samples, wherever
\* commands fail and however often they are repeated.
THEOREM ChatEvaluationIsExactHolds == ChatEvaluationSpec => []ChatEvaluationIsExact
<1>1. ChatEvaluationInv => ChatEvaluationIsExact
  <2> SUFFICES ASSUME ChatEvaluationInv PROVE ChatEvaluationIsExact
    OBVIOUS
  <2>1. ResultsOK(evaluation) /\ FilesOK(runFiles)
    BY DEF ChatEvaluationInv, CommandOK
  <2>2. \A r \in ToSet(evaluation.results) :
          IF r.task = "categorical" THEN CategoricalExact(r) ELSE ProgramExact(r)
    <3>1. \A i \in DOMAIN evaluation.results : ResultOK(evaluation.results[i])
      BY <2>1 DEF ResultsOK, Listed
    <3> QED BY <3>1 DEF ResultOK, ToSet
  <2>3. runFiles.journal \in
          {SubSeq(<<[kind |-> "metrics", result |-> runFiles.report],
                    [kind |-> "artifact", result |-> runFiles.report]>>, 1, n) : n \in 0 .. 2}
    <3> DEFINE m == [kind |-> "metrics", result |-> runFiles.report]
               a == [kind |-> "artifact", result |-> runFiles.report]
    <3>1. runFiles.journal \in {<<>>, <<m>>, <<m, a>>}
      BY <2>1 DEF FilesOK, Journals
    <3> HIDE DEF m, a
    <3>2. /\ SubSeq(<<m, a>>, 1, 0) = <<>> /\ SubSeq(<<m, a>>, 1, 1) = <<m>>
          /\ SubSeq(<<m, a>>, 1, 2) = <<m, a>>
      BY PairsOf
    <3>3. runFiles.journal \in {SubSeq(<<m, a>>, 1, n) : n \in 0 .. 2}
      <4>1. 0 \in 0 .. 2 /\ 1 \in 0 .. 2 /\ 2 \in 0 .. 2
        OBVIOUS
      <4>2. \E n \in 0 .. 2 : runFiles.journal = SubSeq(<<m, a>>, 1, n)
        BY <3>1, <3>2, <4>1
      <4> QED BY <4>2
    <3> QED BY <3>3 DEF m, a
  <2>4. AggregateOK(runFiles.report)
    BY <2>1 DEF FilesOK
  <2> QED BY <2>2, <2>3, <2>4 DEF ChatEvaluationIsExact, AggregateOK
<1> QED BY <1>1, ChatEvaluationInvAlways, PTL
=============================================================================
