----------------------------- MODULE StageProofs -----------------------------
(***************************************************************************)
(* Theorems about the stages that follow pretraining: what the base        *)
(* evaluation command publishes (BaseEvaluation), what a finetuning run    *)
(* leaves however often it is stopped and resumed (FinetuningRun), and     *)
(* what its loader delivers (ConversationLoader).  Each part states an     *)
(* inductive invariant, shows that it means the property, that the initial *)
(* states satisfy it and that every action preserves it.                   *)
(***************************************************************************)
EXTENDS BaseEvaluation, FinetuningRun, ConversationLoader, FiniteOrders, SequenceTheorems, FiniteSetTheorems, TLAPS

-----------------------------------------------------------------------------
(* The base evaluation: types.                                             *)

BaseModes == {"bpb", "sample", "core"}
BaseIds == {0} \cup {r.checkpoint : r \in BaseRequests}
BaseValue == Seq(BaseIds \cup Nat)
BaseResult == [mode : BaseModes, value : BaseValue]
BasePayloads == [checkpoint : BaseIds, limit : Nat, results : Seq(BaseResult)]
BaseKinds == {"metrics", "base_eval.json", "base_samples.md", "core_comparison.md"}
BaseEvent == [kind : BaseKinds, payload : BasePayloads]
BaseAts == {"idle", "mode", "samples", "comparison", "report", "journal", "send"}
BaseCommand ==
  [at : BaseAts, checkpoint : BaseIds, modes : Seq(BaseModes), limit : Nat,
   results : Seq(BaseResult), wrote : BOOLEAN, events : Seq(BaseEvent)]
BaseDirectory ==
  [samples : BaseValue, core : BaseValue, report : BasePayloads \cup {Nothing},
   journal : Seq(BaseEvent), killed : BOOLEAN]

BaseTypeOK ==
  /\ base \in BaseCommand /\ baseFiles \in BaseDirectory
  /\ board \in Seq(BaseEvent) /\ baseCommands \in Nat

-----------------------------------------------------------------------------
(* The inductive invariant, of a command b, the files f of its directory    *)
(* and the events that were sent.                                          *)

PayloadOf(b) == [checkpoint |-> b.checkpoint, limit |-> b.limit, results |-> b.results]
Includes(b, mode) == \E n \in DOMAIN b.modes : b.modes[n] = mode

\* The results so far are of the first modes asked for, in their order.
ModesInOrder(b) ==
  /\ Len(b.results) <= Len(b.modes)
  /\ \A n \in DOMAIN b.results : b.results[n].mode = b.modes[n]
  /\ b.at \notin {"idle", "mode"} => Len(b.results) = Len(b.modes)

\* What a command has published when it gets to each of its stages.
StagesOK(b, f) ==
  /\ b.at \in {"samples", "comparison", "report"} => f.report \in {Nothing, PayloadOf(b)}
  /\ b.at \in {"comparison", "report"} /\ Includes(b, "sample") =>
       f.samples = ResultOf(PayloadOf(b), "sample")
  /\ b.at = "report" /\ Includes(b, "core") => f.core = ResultOf(PayloadOf(b), "core")
  /\ b.at \in {"journal", "send"} => f.report = PayloadOf(b)
  /\ b.wrote => b.at \in {"report", "journal", "send"}

\* The first k events of the report are behind the command; the one it sends is
\* the last of the journal and was not sent before.
EventsLeft(b, all, k) == k <= Len(all) /\ b.events = SubSeq(all, k + 1, Len(all))
SendingInOrder(b, f, sent) ==
  LET all == EventsOf(PayloadOf(b)) IN
  /\ b.at = "journal" => \E k \in Nat : EventsLeft(b, all, k) /\ k <= Len(f.journal)
  /\ b.at = "send" =>
       \E k \in Nat : /\ EventsLeft(b, all, k) /\ k < Len(all)
                      /\ Len(f.journal) = k + 1 /\ all[k + 1] \notin ToSet(sent)

\* BaseReportIsWhole, of the same.
Has(report, mode) == \E n \in DOMAIN report.results : report.results[n].mode = mode
WholeReport(f, sent, wrote) ==
  /\ f.report # Nothing =>
       /\ Has(f.report, "sample") => f.samples = ResultOf(f.report, "sample")
       /\ Has(f.report, "core") => f.core = ResultOf(f.report, "core")
       /\ IsPrefix(f.journal, EventsOf(f.report))
  /\ f.report = Nothing => f.journal = <<>>
  /\ f.core # Nothing /\ ~f.killed /\ f.report = Nothing => wrote
  /\ ToSet(sent) \subseteq ToSet(f.journal) /\ IsInjective(sent)

BaseInv ==
  /\ BaseTypeOK /\ ModesInOrder(base) /\ StagesOK(base, baseFiles)
  /\ SendingInOrder(base, baseFiles, board) /\ WholeReport(baseFiles, board, base.wrote)

-----------------------------------------------------------------------------
\* A prefix has the same elements.
LEMMA PrefixMeans ==
  ASSUME NEW S, NEW s \in Seq(S), NEW t \in Seq(S)
  PROVE  IsPrefix(s, t) <=> Len(s) <= Len(t) /\ \A i \in 1 .. Len(s) : s[i] = t[i]
<1>1. ASSUME IsPrefix(s, t) PROVE Len(s) <= Len(t) /\ \A i \in 1 .. Len(s) : s[i] = t[i]
  <2>1. Len(s) <= Len(t) /\ SubSeq(s, 1, Len(s)) = SubSeq(t, 1, Len(s))
    BY <1>1 DEF IsPrefix
  <2> QED BY <2>1
<1>2. ASSUME Len(s) <= Len(t), \A i \in 1 .. Len(s) : s[i] = t[i] PROVE IsPrefix(s, t)
  <2>1. SubSeq(s, 1, Len(s)) = SubSeq(t, 1, Len(s))
    BY <1>2
  <2> QED BY <2>1, <1>2 DEF IsPrefix
<1> QED BY <1>1, <1>2

LEMMA JoinOne ==
  ASSUME NEW S, NEW s \in Seq(S), NEW x \in S, NEW t \in Seq(S), Len(t) = Len(s) + 1,
         \A i \in 1 .. Len(s) : t[i] = s[i], t[Len(s) + 1] = x
  PROVE  s \o <<x>> = t
<1>1. /\ s \o <<x>> \in Seq(S) /\ Len(s \o <<x>>) = Len(t)
      /\ \A i \in 1 .. Len(t) : (s \o <<x>>)[i] = t[i]
  OBVIOUS
<1> QED BY <1>1, SeqEqual

\* The events of a report: two to four, all different.
LEMMA EventsOfType ==
  ASSUME NEW p \in BasePayloads
  PROVE  EventsOf(p) \in Seq(BaseEvent) /\ IsInjective(EventsOf(p)) /\ Len(EventsOf(p)) \in Nat
<1> DEFINE e(kind) == [kind |-> kind, payload |-> p]
           modes == {p.results[n].mode : n \in DOMAIN p.results}
           s == IF "sample" \in modes THEN <<e("base_samples.md")>> ELSE <<>>
           c == IF "core" \in modes THEN <<e("core_comparison.md")>> ELSE <<>>
<1>1. EventsOf(p) = <<e("metrics")>> \o <<e("base_eval.json")>> \o s \o c
  BY DEF EventsOf
<1>2. \A k \in BaseKinds : e(k) \in BaseEvent /\ e(k).kind = k
  BY DEF BaseEvent
<1>3. /\ e("metrics") \in BaseEvent /\ e("base_eval.json") \in BaseEvent
      /\ e("base_samples.md") \in BaseEvent /\ e("core_comparison.md") \in BaseEvent
      /\ e("metrics").kind = "metrics" /\ e("base_eval.json").kind = "base_eval.json"
      /\ e("base_samples.md").kind = "base_samples.md"
      /\ e("core_comparison.md").kind = "core_comparison.md"
  BY <1>2 DEF BaseKinds
<1>4. s \in {<<>>, <<e("base_samples.md")>>} /\ c \in {<<>>, <<e("core_comparison.md")>>}
  OBVIOUS
<1> HIDE DEF e, s, c, modes
<1>5. ASSUME NEW a \in BaseEvent, NEW b \in BaseEvent, NEW x \in BaseEvent, NEW y \in BaseEvent,
             a.kind # b.kind, a.kind # x.kind, a.kind # y.kind, b.kind # x.kind, b.kind # y.kind,
             x.kind # y.kind, NEW q \in {<<>>, <<x>>}, NEW r \in {<<>>, <<y>>}
      PROVE  /\ <<a>> \o <<b>> \o q \o r \in Seq(BaseEvent)
             /\ IsInjective(<<a>> \o <<b>> \o q \o r)
  <2>1. a # b /\ a # x /\ a # y /\ b # x /\ b # y /\ x # y
    BY <1>5
  <2>2. \/ <<a>> \o <<b>> \o q \o r = <<a, b>>
        \/ <<a>> \o <<b>> \o q \o r = <<a, b, x>>
        \/ <<a>> \o <<b>> \o q \o r = <<a, b, y>>
        \/ <<a>> \o <<b>> \o q \o r = <<a, b, x, y>>
    <3>1. \A t \in Seq(BaseEvent) : \A z \in BaseEvent :
            t \o <<z>> = Append(t, z) /\ t \o <<>> = t
      OBVIOUS
    <3>2. /\ <<a>> \in Seq(BaseEvent) /\ <<a, b>> \in Seq(BaseEvent)
          /\ <<a, b, x>> \in Seq(BaseEvent)
      OBVIOUS
    <3>3. <<a>> \o <<b>> = <<a, b>> /\ <<a, b>> \o <<x>> = <<a, b, x>>
          /\ <<a, b>> \o <<y>> = <<a, b, y>> /\ <<a, b, x>> \o <<y>> = <<a, b, x, y>>
      <4>1. <<a>> \o <<b>> = <<a, b>>
        <5> DEFINE u == <<a>>
                   v == <<a, b>>
        <5>1. /\ u \in Seq(BaseEvent) /\ v \in Seq(BaseEvent) /\ Len(u) = 1
              /\ Len(v) = 2 /\ v[2] = b /\ \A i \in 1 .. 1 : v[i] = u[i]
          BY <3>2
        <5> HIDE DEF u, v
        <5>2. /\ Len(v) = Len(u) + 1 /\ v[Len(u) + 1] = b
              /\ \A i \in 1 .. Len(u) : v[i] = u[i]
          BY <5>1
        <5>3. u \o <<b>> = v
          BY <5>1, <5>2, JoinOne
        <5> QED BY <5>3 DEF u, v
      <4>2. <<a, b>> \o <<x>> = <<a, b, x>>
        <5> DEFINE u == <<a, b>>
                   v == <<a, b, x>>
        <5>1. /\ u \in Seq(BaseEvent) /\ v \in Seq(BaseEvent) /\ Len(u) = 2
              /\ Len(v) = 3 /\ v[3] = x /\ \A i \in 1 .. 2 : v[i] = u[i]
          BY <3>2
        <5> HIDE DEF u, v
        <5>2. /\ Len(v) = Len(u) + 1 /\ v[Len(u) + 1] = x
              /\ \A i \in 1 .. Len(u) : v[i] = u[i]
          BY <5>1
        <5>3. u \o <<x>> = v
          BY <5>1, <5>2, JoinOne
        <5> QED BY <5>3 DEF u, v
      <4>3. <<a, b>> \o <<y>> = <<a, b, y>>
        <5> DEFINE u == <<a, b>>
                   v == <<a, b, y>>
        <5>1. /\ u \in Seq(BaseEvent) /\ v \in Seq(BaseEvent) /\ Len(u) = 2
              /\ Len(v) = 3 /\ v[3] = y /\ \A i \in 1 .. 2 : v[i] = u[i]
          BY <3>2
        <5> HIDE DEF u, v
        <5>2. /\ Len(v) = Len(u) + 1 /\ v[Len(u) + 1] = y
              /\ \A i \in 1 .. Len(u) : v[i] = u[i]
          BY <5>1
        <5>3. u \o <<y>> = v
          BY <5>1, <5>2, JoinOne
        <5> QED BY <5>3 DEF u, v
      <4>4. <<a, b, x>> \o <<y>> = <<a, b, x, y>>
        <5> DEFINE u == <<a, b, x>>
                   v == <<a, b, x, y>>
        <5>1. /\ u \in Seq(BaseEvent) /\ v \in Seq(BaseEvent) /\ Len(u) = 3
              /\ Len(v) = 4 /\ v[4] = y /\ \A i \in 1 .. 3 : v[i] = u[i]
          BY <3>2
        <5> HIDE DEF u, v
        <5>2. /\ Len(v) = Len(u) + 1 /\ v[Len(u) + 1] = y
              /\ \A i \in 1 .. Len(u) : v[i] = u[i]
          BY <5>1
        <5>3. u \o <<y>> = v
          BY <5>1, <5>2, JoinOne
        <5> QED BY <5>3 DEF u, v
      <4> QED BY <4>1, <4>2, <4>3, <4>4
    <3>4. <<a, b>> \o <<>> = <<a, b>> /\ <<a, b, x>> \o <<>> = <<a, b, x>>
      BY <3>1, <3>2
    <3>5. q = <<>> \/ q = <<x>>
      OBVIOUS
    <3>6. r = <<>> \/ r = <<y>>
      OBVIOUS
    <3> QED BY <3>3, <3>4, <3>5, <3>6, Zenon
  <2>3. <<a, b>> \in Seq(BaseEvent) /\ IsInjective(<<a, b>>)
    BY <2>1 DEF IsInjective
  <2>4. <<a, b, x>> \in Seq(BaseEvent) /\ IsInjective(<<a, b, x>>)
    BY <2>1 DEF IsInjective
  <2>5. <<a, b, y>> \in Seq(BaseEvent) /\ IsInjective(<<a, b, y>>)
    BY <2>1 DEF IsInjective
  <2>6. <<a, b, x, y>> \in Seq(BaseEvent) /\ IsInjective(<<a, b, x, y>>)
    BY <2>1 DEF IsInjective
  <2> QED BY <2>2, <2>3, <2>4, <2>5, <2>6
<1>6. EventsOf(p) \in Seq(BaseEvent) /\ IsInjective(EventsOf(p))
  <2> DEFINE a == e("metrics")
             b == e("base_eval.json")
             x == e("base_samples.md")
             y == e("core_comparison.md")
  <2>1. /\ a \in BaseEvent /\ b \in BaseEvent /\ x \in BaseEvent /\ y \in BaseEvent
        /\ a.kind # b.kind /\ a.kind # x.kind /\ a.kind # y.kind
        /\ b.kind # x.kind /\ b.kind # y.kind /\ x.kind # y.kind
    BY <1>3
  <2>2. s \in {<<>>, <<x>>} /\ c \in {<<>>, <<y>>} /\ EventsOf(p) = <<a>> \o <<b>> \o s \o c
    BY <1>1, <1>4
  <2> HIDE DEF a, b, x, y
  <2>3. <<a>> \o <<b>> \o s \o c \in Seq(BaseEvent) /\ IsInjective(<<a>> \o <<b>> \o s \o c)
    BY <2>1, <2>2, <1>5
  <2> QED BY <2>2, <2>3
<1> QED BY <1>6

LEMMA ReportMeaning ==
  /\ BaseReportIsWhole <=> WholeReport(baseFiles, board, base.wrote)
  /\ BasePayload = PayloadOf(base)
  /\ \A mode : Asks(mode) <=> Includes(base, mode)
<1>1. BaseReportIsWhole <=> WholeReport(baseFiles, board, base.wrote)
  BY Zenon DEF BaseReportIsWhole, WholeReport, Has
<1> QED BY <1>1 DEF BasePayload, PayloadOf, Asks, Includes

\* The payload of a command, and its result for a mode it was asked for.
LEMMA PayloadType ==
  ASSUME NEW b \in BaseCommand
  PROVE  /\ PayloadOf(b) \in BasePayloads /\ PayloadOf(b) # Nothing
         /\ PayloadOf(b).results = b.results
<1>1. PayloadOf(b) \in BasePayloads /\ PayloadOf(b).results = b.results
  BY DEF PayloadOf, BaseCommand, BasePayloads
<1>2. "limit" \in DOMAIN PayloadOf(b) /\ "limit" \notin DOMAIN Nothing
  BY DEF PayloadOf, Nothing
<1> QED BY <1>1, <1>2

LEMMA ResultType ==
  ASSUME NEW b \in BaseCommand, ModesInOrder(b), Len(b.results) = Len(b.modes), NEW mode
  PROVE  /\ Has(PayloadOf(b), mode) <=> Includes(b, mode)
         /\ Includes(b, mode) => ResultOf(PayloadOf(b), mode) \in BaseValue
<1> DEFINE r == b.results
<1>1. /\ r \in Seq(BaseResult) /\ b.modes \in Seq(BaseModes) /\ PayloadOf(b).results = r
  BY PayloadType DEF BaseCommand
<1>2. DOMAIN r = DOMAIN b.modes
  BY <1>1
<1>3. Has(PayloadOf(b), mode) <=> Includes(b, mode)
  BY <1>1, <1>2 DEF Has, Includes, ModesInOrder
<1>4. ASSUME Includes(b, mode) PROVE ResultOf(PayloadOf(b), mode) \in BaseValue
  <2> DEFINE n == CHOOSE n \in DOMAIN r : r[n].mode = mode
  <2>1. \E k \in DOMAIN r : r[k].mode = mode
    BY <1>1, <1>3, <1>4 DEF Has
  <2>2. n \in DOMAIN r
    BY <2>1
  <2>3. ResultOf(PayloadOf(b), mode) = r[n].value
    BY <1>1 DEF ResultOf
  <2> HIDE DEF n
  <2>4. r[n] \in BaseResult
    BY <2>2, <1>1
  <2> QED BY <2>3, <2>4 DEF BaseResult
<1> QED BY <1>3, <1>4

\* A command that ends.
LEMMA EndsBase ==
  ASSUME NEW f \in BaseDirectory, EndBase(f), BaseInv, WholeReport(f, board, FALSE)
  PROVE  BaseInv'
<1>1. base' = NoBase /\ baseFiles' = f /\ board' = board /\ baseCommands' = baseCommands
  BY DEF EndBase
<1>2. NoBase \in BaseCommand /\ NoBase.at = "idle" /\ NoBase.wrote = FALSE
      /\ NoBase.results = <<>> /\ NoBase.modes = <<>>
  BY DEF NoBase, BaseCommand, BaseAts, BaseIds
<1>3. BaseTypeOK'
  BY <1>1, <1>2 DEF BaseInv, BaseTypeOK
<1>4. ModesInOrder(NoBase) /\ StagesOK(NoBase, f) /\ SendingInOrder(NoBase, f, board)
  BY <1>2 DEF ModesInOrder, StagesOK, SendingInOrder
<1> QED BY <1>1, <1>2, <1>3, <1>4 DEF BaseInv

LEMMA EndsAsIs ==
  ASSUME BaseInv, EndBase(baseFiles),
         ~base.wrote \/ baseFiles.report # Nothing \/ baseFiles.killed \/ baseFiles.core = Nothing
  PROVE  BaseInv'
<1>1. baseFiles \in BaseDirectory /\ WholeReport(baseFiles, board, base.wrote)
  BY DEF BaseInv, BaseTypeOK
<1>2. WholeReport(baseFiles, board, FALSE)
  BY <1>1 DEF WholeReport
<1> QED BY <1>1, <1>2, EndsBase

\* A command that goes on with the same request.
LEMMA GoesOn ==
  ASSUME BaseInv, NEW b \in BaseCommand, NEW f \in BaseDirectory, Proceed(b, f),
         ModesInOrder(b), StagesOK(b, f), SendingInOrder(b, f, board),
         WholeReport(f, board, b.wrote)
  PROVE  BaseInv'
<1>1. base' = b /\ baseFiles' = f /\ board' = board /\ baseCommands' = baseCommands
  BY DEF Proceed
<1>2. BaseTypeOK'
  BY <1>1 DEF BaseInv, BaseTypeOK
<1> QED BY <1>1, <1>2 DEF BaseInv

-----------------------------------------------------------------------------
LEMMA RunBaseOK == ASSUME BaseInv, NEW r \in BaseRequests, RunBase(r) PROVE BaseInv'
<1> DEFINE b == [NoBase EXCEPT !.at = "mode", !.checkpoint = r.checkpoint,
                               !.modes = r.modes, !.limit = r.limit]
<1>1. base' = b /\ baseFiles' = baseFiles /\ board' = board /\ baseCommands' = baseCommands + 1
      /\ base.at = "idle"
  BY DEF RunBase
<1>2. r.modes \in Seq(BaseModes) /\ r.limit \in Nat /\ r.checkpoint \in BaseIds
  BY BaseEvaluationAssumption DEF BaseModes, BaseIds
<1>3. /\ b \in BaseCommand /\ b.at = "mode" /\ b.results = <<>> /\ b.wrote = FALSE
      /\ b.modes = r.modes
  <2>1. /\ NoBase \in BaseCommand /\ NoBase.results = <<>> /\ NoBase.wrote = FALSE
        /\ "mode" \in BaseAts
    BY DEF NoBase, BaseCommand, BaseAts, BaseIds
  <2> QED BY <1>2, <2>1 DEF BaseCommand
<1> HIDE DEF b
<1>4. BaseTypeOK'
  BY <1>1, <1>3 DEF BaseInv, BaseTypeOK
<1>5. ModesInOrder(b) /\ StagesOK(b, baseFiles) /\ SendingInOrder(b, baseFiles, board)
  BY <1>2, <1>3 DEF ModesInOrder, StagesOK, SendingInOrder
<1>6. WholeReport(baseFiles, board, b.wrote)
  BY <1>1, <1>3 DEF BaseInv, WholeReport, StagesOK
<1> QED BY <1>1, <1>4, <1>5, <1>6 DEF BaseInv

LEMMA RunModeOK == ASSUME BaseInv, RunMode PROVE BaseInv'
<1> DEFINE n == Len(base.results) + 1
           mode == base.modes[n]
           value == CASE mode = "bpb"    -> <<base.checkpoint>>
                      [] mode = "sample" -> <<base.checkpoint, baseCommands>>
                      [] mode = "core"   -> <<base.checkpoint, base.limit>>
           x == [mode |-> mode, value |-> value]
           q == Append(base.results, x)
           b == [base EXCEPT !.results = q]
<1>1. /\ base.at = "mode" /\ n <= Len(base.modes) /\ Proceed(b, baseFiles)
      /\ base \in BaseCommand /\ baseFiles \in BaseDirectory /\ baseCommands \in Nat
  <2>1. base \in BaseCommand /\ baseFiles \in BaseDirectory /\ baseCommands \in Nat
    BY DEF BaseInv, BaseTypeOK
  <2>2. base.at = "mode" /\ Len(base.results) < Len(base.modes) /\ Proceed(b, baseFiles)
    BY Zenon DEF RunMode
  <2> HIDE DEF b
  <2>3. base.results \in Seq(BaseResult) /\ base.modes \in Seq(BaseModes)
    BY <2>1 DEF BaseCommand
  <2> QED BY <2>1, <2>2, <2>3
<1>2. mode \in BaseModes
  BY <1>1 DEF BaseCommand
<1>3. value \in BaseValue
  <2>1. base.checkpoint \in BaseIds \cup Nat /\ baseCommands \in BaseIds \cup Nat
        /\ base.limit \in BaseIds \cup Nat
    BY <1>1 DEF BaseCommand
  <2>2. \/ value = <<base.checkpoint>>
        \/ value = <<base.checkpoint, baseCommands>>
        \/ value = <<base.checkpoint, base.limit>>
    BY <1>2, Zenon DEF BaseModes
  <2>3. /\ <<base.checkpoint>> \in BaseValue /\ <<base.checkpoint, baseCommands>> \in BaseValue
        /\ <<base.checkpoint, base.limit>> \in BaseValue
    BY <2>1 DEF BaseValue
  <2> HIDE DEF value
  <2> QED BY <2>2, <2>3
<1> HIDE DEF value, mode
<1>4. x \in BaseResult /\ x.mode = mode
  BY <1>2, <1>3 DEF BaseResult
<1> HIDE DEF x
<1>5. /\ q \in Seq(BaseResult) /\ Len(q) = n /\ DOMAIN q = 1 .. n /\ q[n] = x
      /\ base.results \in Seq(BaseResult)
      /\ \A i \in DOMAIN base.results : q[i] = base.results[i]
      /\ \A i \in 1 .. n : i = n \/ i \in DOMAIN base.results
  BY <1>1, <1>4 DEF BaseCommand
<1> HIDE DEF q
<1>6. /\ b \in BaseCommand /\ b.at = "mode" /\ b.results = q /\ b.modes = base.modes
      /\ b.wrote = base.wrote
  BY <1>1, <1>5 DEF BaseCommand
<1> HIDE DEF b
<1>7. ModesInOrder(b)
  BY <1>1, <1>4, <1>5, <1>6 DEF BaseInv, ModesInOrder, mode
<1>8. StagesOK(b, baseFiles) /\ SendingInOrder(b, baseFiles, board)
  BY <1>1, <1>6 DEF BaseInv, StagesOK, SendingInOrder
<1>9. WholeReport(baseFiles, board, b.wrote)
  BY <1>6 DEF BaseInv
<1> QED BY <1>1, <1>6, <1>7, <1>8, <1>9, GoesOn

LEMMA CheckReportOK == ASSUME BaseInv, CheckReport PROVE BaseInv'
<1> DEFINE b == [base EXCEPT !.at = "samples"]
<1>1. /\ base.at = "mode" /\ Len(base.results) = Len(base.modes)
      /\ base \in BaseCommand /\ baseFiles \in BaseDirectory
      /\ IF baseFiles.report \in {Nothing, PayloadOf(base)} THEN Proceed(b, baseFiles)
         ELSE EndBase(baseFiles)
  BY ReportMeaning DEF CheckReport, CompatibleReport, BaseInv, BaseTypeOK
<1>2. ~base.wrote
  BY <1>1 DEF BaseInv, StagesOK, BaseCommand
<1>3. CASE EndBase(baseFiles)
  BY <1>2, <1>3, EndsAsIs
<1>4. CASE baseFiles.report \in {Nothing, PayloadOf(base)} /\ Proceed(b, baseFiles)
  <2>1. /\ b \in BaseCommand /\ b.at = "samples" /\ b.results = base.results
        /\ b.modes = base.modes /\ b.wrote = base.wrote /\ PayloadOf(b) = PayloadOf(base)
    BY <1>1 DEF BaseCommand, BaseAts, PayloadOf
  <2> HIDE DEF b
  <2>2. ModesInOrder(b) /\ StagesOK(b, baseFiles) /\ SendingInOrder(b, baseFiles, board)
    BY <2>1, <1>1, <1>2, <1>4 DEF BaseInv, ModesInOrder, StagesOK, SendingInOrder
  <2>3. WholeReport(baseFiles, board, b.wrote)
    BY <2>1 DEF BaseInv
  <2> QED BY <2>1, <2>2, <2>3, <1>1, <1>4, GoesOn
<1> QED BY <1>1, <1>3, <1>4

LEMMA WriteSamplesOK == ASSUME BaseInv, WriteBaseSamples PROVE BaseInv'
<1> DEFINE b == [base EXCEPT !.at = "comparison"]
           value == ResultOf(PayloadOf(base), "sample")
           f == IF Includes(base, "sample") THEN [baseFiles EXCEPT !.samples = value]
                ELSE baseFiles
<1>1. /\ base.at = "samples" /\ base \in BaseCommand /\ baseFiles \in BaseDirectory
      /\ Proceed(b, f) /\ Len(base.results) = Len(base.modes) /\ ModesInOrder(base)
      /\ baseFiles.report \in {Nothing, PayloadOf(base)}
  BY ReportMeaning DEF WriteBaseSamples, BaseInv, BaseTypeOK, ModesInOrder, StagesOK
<1>2. Includes(base, "sample") => value \in BaseValue
  BY <1>1, ResultType
<1>3. /\ b \in BaseCommand /\ b.at = "comparison" /\ b.results = base.results
      /\ b.modes = base.modes /\ b.wrote = base.wrote /\ PayloadOf(b) = PayloadOf(base)
      /\ Includes(b, "sample") <=> Includes(base, "sample")
  BY <1>1 DEF BaseCommand, BaseAts, PayloadOf, Includes
<1> DEFINE p == PayloadOf(base)
           has == Includes(base, "sample")
<1> HIDE DEF value
<1>4. /\ f \in BaseDirectory /\ f.report = baseFiles.report /\ f.core = baseFiles.core
      /\ f.journal = baseFiles.journal /\ f.killed = baseFiles.killed
      /\ has => f.samples = value
      /\ ~has => f.samples = baseFiles.samples
  BY <1>1, <1>2 DEF BaseDirectory
<1> HIDE DEF b, f, p, has
<1>5. ~base.wrote
  BY <1>1 DEF BaseInv, StagesOK, BaseCommand
<1>6. ModesInOrder(b) /\ StagesOK(b, f) /\ SendingInOrder(b, f, board)
  BY <1>1, <1>3, <1>4, <1>5 DEF ModesInOrder, StagesOK, SendingInOrder, value, has
<1>7. WholeReport(f, board, b.wrote)
  <2>1. Has(p, "sample") <=> has
    BY <1>1, ResultType DEF p, has
  <2>2. f.report # Nothing /\ Has(f.report, "sample") => f.samples = ResultOf(f.report, "sample")
    BY <2>1, <1>1, <1>4 DEF value, p
  <2> QED BY <2>2, <1>3, <1>4 DEF BaseInv, WholeReport
<1> QED BY <1>1, <1>3, <1>4, <1>6, <1>7, GoesOn

\* The command that goes on to its report, the comparison (if asked for) on disk.
LEMMA WriteComparisonOK == ASSUME BaseInv, WriteComparison PROVE BaseInv'
<1> DEFINE p == PayloadOf(base)
           value == ResultOf(p, "core")
           has == Includes(base, "core")
           wrote == baseFiles.core = Nothing
           b1 == [base EXCEPT !.at = "report"]
           b2 == [base EXCEPT !.at = "report", !.wrote = wrote]
           f == [baseFiles EXCEPT !.core = value]
<1>1. /\ base.at = "comparison" /\ base \in BaseCommand /\ baseFiles \in BaseDirectory
      /\ Len(base.results) = Len(base.modes) /\ ModesInOrder(base)
      /\ baseFiles.report \in {Nothing, p} /\ ~base.wrote
  BY DEF WriteComparison, BaseInv, BaseTypeOK, ModesInOrder, StagesOK, BaseCommand
<1>s. Includes(base, "sample") => baseFiles.samples = ResultOf(p, "sample")
  BY <1>1 DEF BaseInv, StagesOK
<1>2. /\ Has(p, "core") <=> has
      /\ has => value \in BaseValue
  BY <1>1, ResultType
<1>3. IF ~has THEN Proceed(b1, baseFiles)
      ELSE IF baseFiles.core \notin {Nothing, value} THEN EndBase(baseFiles)
      ELSE Proceed(b2, f)
  BY ReportMeaning, Zenon DEF WriteComparison
<1> HIDE DEF value, has, wrote
<1>4. ASSUME NEW b \in {b1, b2}
      PROVE  /\ b \in BaseCommand /\ b.at = "report" /\ b.results = base.results
             /\ b.modes = base.modes /\ PayloadOf(b) = p
             /\ \A mode : Includes(b, mode) <=> Includes(base, mode)
  <2>1. wrote \in BOOLEAN
    BY DEF wrote
  <2> QED BY ZenonT(60), <2>1, <1>1, <1>4 DEF BaseCommand, BaseAts, PayloadOf, Includes
<1>5. b1.wrote = base.wrote /\ b2.wrote = wrote
  BY <1>1 DEF BaseCommand
<1> HIDE DEF b1, b2
<1>6. CASE EndBase(baseFiles)
  BY <1>1, <1>6, EndsAsIs
<1>7. CASE ~has /\ Proceed(b1, baseFiles)
  <2>1. b1 \in BaseCommand /\ b1.at = "report" /\ b1.results = base.results
        /\ b1.modes = base.modes /\ PayloadOf(b1) = p
        /\ \A mode : Includes(b1, mode) <=> Includes(base, mode)
    BY <1>4
  <2>2. ModesInOrder(b1) /\ SendingInOrder(b1, baseFiles, board)
    BY <2>1, <1>1 DEF ModesInOrder, SendingInOrder
  <2>3. StagesOK(b1, baseFiles)
    BY <2>1, <1>1, <1>s, <1>5, <1>7 DEF StagesOK, has
  <2>4. WholeReport(baseFiles, board, b1.wrote)
    BY <1>5 DEF BaseInv
  <2> QED BY <2>1, <2>2, <2>3, <2>4, <1>1, <1>7, GoesOn
<1>8. CASE has /\ baseFiles.core \in {Nothing, value} /\ Proceed(b2, f)
  <2>1. b2 \in BaseCommand /\ b2.at = "report" /\ b2.results = base.results
        /\ b2.modes = base.modes /\ PayloadOf(b2) = p
        /\ \A mode : Includes(b2, mode) <=> Includes(base, mode)
    BY <1>4
  <2>2. /\ f \in BaseDirectory /\ f.samples = baseFiles.samples /\ f.core = value
        /\ f.report = baseFiles.report /\ f.journal = baseFiles.journal
        /\ f.killed = baseFiles.killed
    BY <1>1, <1>2, <1>8 DEF BaseDirectory
  <2> HIDE DEF f
  <2>3. ModesInOrder(b2) /\ SendingInOrder(b2, f, board)
    BY <2>1, <1>1 DEF ModesInOrder, SendingInOrder
  <2>4. StagesOK(b2, f)
    <3>1. b2.at = "report" /\ f.report \in {Nothing, PayloadOf(b2)}
          /\ f.core = ResultOf(PayloadOf(b2), "core")
      BY <2>1, <2>2, <1>1 DEF value
    <3>2. Includes(b2, "sample") => f.samples = ResultOf(PayloadOf(b2), "sample")
      BY <2>1, <2>2, <1>s
    <3> QED BY <3>1, <3>2 DEF StagesOK
  <2>5. WholeReport(f, board, b2.wrote)
    <3> USE DEF WholeReport
    <3>1. WholeReport(baseFiles, board, base.wrote)
      BY DEF BaseInv
    <3>2. f.report # Nothing /\ Has(f.report, "core") => f.core = ResultOf(f.report, "core")
      BY <2>2, <1>1 DEF value
    <3>3. f.core # Nothing /\ ~f.killed /\ f.report = Nothing => b2.wrote
      BY <2>2, <1>1, <1>5, <3>1 DEF wrote
    <3> QED BY <3>1, <3>2, <3>3, <2>2
  <2> QED BY <2>1, <2>2, <2>3, <2>4, <2>5, <1>8, GoesOn
<1> QED BY <1>3, <1>6, <1>7, <1>8

\* A published report has its events before it: none is behind the command.
LEMMA AllLeft ==
  ASSUME NEW S, NEW s \in Seq(S)
  PROVE  SubSeq(s, 1, Len(s)) = s /\ IsPrefix(<<>>, s)
<1>1. SubSeq(s, 1, Len(s)) = s
  OBVIOUS
<1> DEFINE none == <<>>
<1>2. none \in Seq(S) /\ Len(none) = 0 /\ Len(s) \in Nat
  OBVIOUS
<1> HIDE DEF none
<1>3. Len(none) <= Len(s) /\ \A i \in 1 .. Len(none) : none[i] = s[i]
  BY <1>2
<1>4. IsPrefix(none, s)
  BY <1>2, <1>3, PrefixMeans, Zenon
<1> QED BY <1>1, <1>4 DEF none

LEMMA PublishBaseOK == ASSUME BaseInv, PublishBase PROVE BaseInv'
<1> DEFINE p == PayloadOf(base)
           all == EventsOf(p)
           b == [base EXCEPT !.at = "journal", !.events = all]
           f == IF baseFiles.report = Nothing THEN [baseFiles EXCEPT !.report = p]
                ELSE baseFiles
<1>1. /\ base.at = "report" /\ base \in BaseCommand /\ baseFiles \in BaseDirectory
      /\ Len(base.results) = Len(base.modes) /\ ModesInOrder(base)
      /\ baseFiles.report \in {Nothing, p}
  BY DEF PublishBase, BaseInv, BaseTypeOK, ModesInOrder, StagesOK
<1>2. Proceed(b, f)
  BY ReportMeaning, Zenon DEF PublishBase
<1>3. p \in BasePayloads /\ p # Nothing /\ p.results = base.results
  BY <1>1, PayloadType
<1>4. all \in Seq(BaseEvent) /\ Len(all) \in Nat
  BY <1>3, EventsOfType
<1>5. /\ Includes(base, "sample") => baseFiles.samples = ResultOf(p, "sample")
      /\ Includes(base, "core") => baseFiles.core = ResultOf(p, "core")
      /\ Has(p, "sample") <=> Includes(base, "sample")
      /\ Has(p, "core") <=> Includes(base, "core")
  BY <1>1, ResultType DEF BaseInv, StagesOK
<1>6. /\ f \in BaseDirectory /\ f.report = p /\ f.samples = baseFiles.samples
      /\ f.core = baseFiles.core /\ f.journal = baseFiles.journal
  BY <1>1, <1>3 DEF BaseDirectory
<1> HIDE DEF all, f
<1>7. /\ b \in BaseCommand /\ b.at = "journal" /\ b.results = base.results
      /\ b.modes = base.modes /\ b.events = all /\ PayloadOf(b) = p
  BY <1>1, <1>4 DEF BaseCommand, BaseAts, PayloadOf
<1> HIDE DEF b
<1>8. ModesInOrder(b) /\ StagesOK(b, f)
  BY <1>1, <1>6, <1>7 DEF ModesInOrder, StagesOK
<1>9. SendingInOrder(b, f, board)
  <2>1. b.events = SubSeq(all, 0 + 1, Len(all)) /\ 0 <= Len(all)
    BY <1>4, <1>7, AllLeft
  <2>2. f.journal \in Seq(BaseEvent) /\ 0 <= Len(f.journal)
    BY <1>6 DEF BaseDirectory
  <2> QED BY <2>1, <2>2, <1>7 DEF SendingInOrder, EventsLeft, all
<1>10. WholeReport(f, board, b.wrote)
  <2>1. WholeReport(baseFiles, board, base.wrote)
    BY DEF BaseInv
  <2>2. IsPrefix(f.journal, all)
    <3>1. CASE baseFiles.report = Nothing
      BY <3>1, <2>1, <1>6, <1>4, AllLeft DEF WholeReport
    <3>2. CASE baseFiles.report = p
      BY <3>2, <2>1, <1>6, <1>3 DEF WholeReport, all
    <3> QED BY <3>1, <3>2, <1>1
  <2> QED BY <2>1, <2>2, <1>3, <1>5, <1>6 DEF WholeReport, all
<1> QED BY <1>2, <1>6, <1>7, <1>8, <1>9, <1>10, GoesOn

LEMMA FailPublishOK == ASSUME BaseInv, FailPublish PROVE BaseInv'
<1> DEFINE f == IF base.wrote THEN [baseFiles EXCEPT !.core = Nothing] ELSE baseFiles
<1>1. /\ baseFiles.report = Nothing /\ EndBase(f) /\ baseFiles \in BaseDirectory
      /\ WholeReport(baseFiles, board, base.wrote)
  BY DEF FailPublish, BaseInv, BaseTypeOK
<1>2. Nothing \in BaseValue
  BY DEF Nothing, BaseValue
<1>3. /\ f \in BaseDirectory /\ f.report = Nothing /\ f.journal = baseFiles.journal
      /\ f.killed = baseFiles.killed
      /\ base.wrote => f.core = Nothing
      /\ ~base.wrote => f.core = baseFiles.core
  BY <1>1, <1>2 DEF BaseDirectory
<1> HIDE DEF f
<1>4. WholeReport(f, board, FALSE)
  BY <1>1, <1>3 DEF WholeReport
<1> QED BY <1>1, <1>3, <1>4, EndsBase

\* The events that are left after the next one.
LEMMA NextEvent ==
  ASSUME NEW S, NEW s \in Seq(S), NEW k \in Nat, k <= Len(s), NEW u,
         u = SubSeq(s, k + 1, Len(s)), u # <<>>
  PROVE  /\ k < Len(s) /\ Head(u) = s[k + 1] /\ Head(u) \in S
         /\ Tail(u) = SubSeq(s, (k + 1) + 1, Len(s)) /\ Tail(u) \in Seq(S)
<1>1. k < Len(s)
  <2>1. CASE k = Len(s)
    BY <2>1
  <2> QED BY <2>1
<1>2. u \in Seq(S) /\ Len(u) = Len(s) - k /\ Head(u) = s[k + 1]
  BY <1>1
<1>3. s[k + 1] \in S
  BY <1>1
<1> DEFINE t == SubSeq(s, (k + 1) + 1, Len(s))
<1>4. /\ Tail(u) \in Seq(S) /\ t \in Seq(S) /\ Len(Tail(u)) = Len(s) - k - 1
      /\ Len(t) = Len(s) - k - 1
      /\ \A i \in 1 .. Len(s) - k - 1 : Tail(u)[i] = t[i]
  BY <1>1, <1>2
<1> HIDE DEF t
<1>5. Tail(u) = t
  BY <1>4, SeqEqual
<1> QED BY <1>1, <1>2, <1>3, <1>4, <1>5 DEF t

\* What the command knows of its report, its events and the journal.
LEMMA WhileSending ==
  ASSUME BaseInv, base.at \in {"journal", "send"}
  PROVE  LET p == PayloadOf(base)
             all == EventsOf(p)
         IN  /\ baseFiles.report = p /\ p # Nothing
             /\ all \in Seq(BaseEvent) /\ IsInjective(all)
             /\ base \in BaseCommand /\ baseFiles \in BaseDirectory /\ board \in Seq(BaseEvent)
             /\ baseFiles.journal \in Seq(BaseEvent)
             /\ Len(baseFiles.journal) <= Len(all)
             /\ \A i \in 1 .. Len(baseFiles.journal) : baseFiles.journal[i] = all[i]
             /\ ToSet(board) \subseteq ToSet(baseFiles.journal) /\ IsInjective(board)
             /\ ModesInOrder(base)
<1> DEFINE p == PayloadOf(base)
           all == EventsOf(p)
<1>1. base \in BaseCommand /\ baseFiles \in BaseDirectory /\ board \in Seq(BaseEvent)
      /\ ModesInOrder(base) /\ WholeReport(baseFiles, board, base.wrote)
  BY DEF BaseInv, BaseTypeOK
<1>2. baseFiles.report = p /\ p # Nothing /\ p \in BasePayloads
  BY <1>1, PayloadType DEF BaseInv, StagesOK
<1>3. all \in Seq(BaseEvent) /\ IsInjective(all)
  BY <1>2, EventsOfType
<1>4. baseFiles.journal \in Seq(BaseEvent) /\ IsPrefix(baseFiles.journal, all)
  BY <1>1, <1>2 DEF WholeReport, BaseDirectory
<1>5. /\ Len(baseFiles.journal) <= Len(all)
      /\ \A i \in 1 .. Len(baseFiles.journal) : baseFiles.journal[i] = all[i]
  BY <1>3, <1>4, PrefixMeans
<1> QED BY <1>1, <1>2, <1>3, <1>4, <1>5 DEF WholeReport

LEMMA JournalBaseOK == ASSUME BaseInv, JournalBase PROVE BaseInv'
<1> DEFINE p == PayloadOf(base)
           all == EventsOf(p)
           j == baseFiles.journal
           event == Head(base.events)
           rest == Tail(base.events)
           longer == Append(j, event)
           b1 == [base EXCEPT !.events = rest]
           b2 == [base EXCEPT !.at = "send"]
           f == [baseFiles EXCEPT !.journal = longer]
<1>1. base.at = "journal" /\ base.events # <<>>
  BY DEF JournalBase
<1>2. IF event \in ToSet(j) THEN Proceed(b1, baseFiles) ELSE Proceed(b2, f)
  BY Zenon DEF JournalBase
<1>3. /\ baseFiles.report = p /\ p # Nothing
      /\ all \in Seq(BaseEvent) /\ IsInjective(all)
      /\ base \in BaseCommand /\ baseFiles \in BaseDirectory /\ board \in Seq(BaseEvent)
      /\ j \in Seq(BaseEvent) /\ Len(j) <= Len(all)
      /\ \A i \in 1 .. Len(j) : j[i] = all[i]
      /\ ToSet(board) \subseteq ToSet(j) /\ IsInjective(board) /\ ModesInOrder(base)
  BY <1>1, WhileSending
<1>4. PICK k \in Nat : EventsLeft(base, all, k) /\ k <= Len(j)
  BY <1>1, Zenon DEF BaseInv, SendingInOrder
<1> HIDE DEF all
<1>5. /\ k < Len(all) /\ event = all[k + 1] /\ event \in BaseEvent
      /\ rest = SubSeq(all, (k + 1) + 1, Len(all)) /\ rest \in Seq(BaseEvent)
  BY <1>1, <1>3, <1>4, NextEvent DEF EventsLeft
<1>6. ASSUME NEW e PROVE e \in ToSet(j) <=> \E i \in 1 .. Len(j) : j[i] = e
  BY <1>3 DEF ToSet
<1> HIDE DEF rest, event
<1>7. CASE event \in ToSet(j) /\ Proceed(b1, baseFiles)
  <2>1. k + 1 <= Len(j)
    <3>1. PICK i \in 1 .. Len(j) : j[i] = event
      BY <1>6, <1>7
    <3>2. all[i] = all[k + 1] /\ i \in DOMAIN all /\ k + 1 \in DOMAIN all
      BY <3>1, <1>3, <1>5
    <3>3. i = k + 1
      BY <3>2, <1>3 DEF IsInjective
    <3> QED BY <3>1, <3>3
  <2>2. /\ b1 \in BaseCommand /\ b1.at = "journal" /\ b1.results = base.results
        /\ b1.modes = base.modes /\ b1.wrote = base.wrote /\ b1.events = rest
        /\ PayloadOf(b1) = p
    BY <1>1, <1>3, <1>5 DEF BaseCommand, PayloadOf
  <2> HIDE DEF b1
  <2>3. ModesInOrder(b1) /\ StagesOK(b1, baseFiles)
    BY <2>2, <1>1, <1>3 DEF ModesInOrder, StagesOK
  <2>4. EventsLeft(b1, all, k + 1) /\ k + 1 \in Nat
    BY <2>2, <1>3, <1>5 DEF EventsLeft
  <2>5. SendingInOrder(b1, baseFiles, board)
    BY <2>1, <2>2, <2>4 DEF SendingInOrder, all
  <2>6. WholeReport(baseFiles, board, b1.wrote)
    BY <2>2 DEF BaseInv
  <2> QED BY <2>2, <2>3, <2>5, <2>6, <1>3, <1>7, GoesOn
<1>8. CASE event \notin ToSet(j) /\ Proceed(b2, f)
  <2>1. Len(j) = k
    <3>1. CASE k + 1 <= Len(j)
      <4>1. k + 1 \in 1 .. Len(j)
        BY <3>1, <1>3
      <4>2. j[k + 1] = event
        BY <4>1, <1>3, <1>5
      <4> QED BY <4>1, <4>2, <1>6, <1>8
    <3> QED BY <3>1, <1>3, <1>4
  <2>2. /\ longer \in Seq(BaseEvent) /\ Len(longer) = k + 1
        /\ \A i \in 1 .. Len(j) : longer[i] = j[i]
        /\ longer[k + 1] = event
    <3>1. j \in Seq(BaseEvent) /\ event \in BaseEvent
      BY <1>3, <1>5
    <3> HIDE DEF j
    <3> QED BY <3>1, <2>1
  <2> HIDE DEF longer
  <2>3. ToSet(board) \subseteq ToSet(longer) /\ event \notin ToSet(board)
    <3>1. ToSet(j) \subseteq ToSet(longer)
      BY SMTT(30), <2>1, <2>2, <1>3 DEF ToSet
    <3> QED BY <3>1, <1>3, <1>8
  <2>4. IsPrefix(longer, all)
    <3>1. Len(longer) <= Len(all)
      BY <2>2, <1>3, <1>5
    <3>2. \A i \in 1 .. Len(longer) : longer[i] = all[i]
      BY <2>1, <2>2, <1>3, <1>5
    <3> QED BY <3>1, <3>2, <2>2, <1>3, PrefixMeans
  <2>5. /\ b2 \in BaseCommand /\ b2.at = "send" /\ b2.results = base.results
        /\ b2.modes = base.modes /\ b2.wrote = base.wrote /\ b2.events = base.events
        /\ PayloadOf(b2) = p
    BY <1>3 DEF BaseCommand, BaseAts, PayloadOf
  <2>6. /\ f \in BaseDirectory /\ f.journal = longer /\ f.report = baseFiles.report
        /\ f.samples = baseFiles.samples /\ f.core = baseFiles.core
        /\ f.killed = baseFiles.killed
    BY <2>2, <1>3 DEF BaseDirectory
  <2> HIDE DEF b2, f
  <2>7. ModesInOrder(b2) /\ StagesOK(b2, f)
    BY <2>5, <2>6, <1>1, <1>3 DEF ModesInOrder, StagesOK
  <2>8. EventsLeft(b2, all, k) /\ k < Len(all) /\ Len(f.journal) = k + 1
        /\ all[k + 1] \notin ToSet(board)
    BY <2>2, <2>3, <2>5, <2>6, <1>4, <1>5 DEF EventsLeft
  <2>9. SendingInOrder(b2, f, board)
    BY <2>5, <2>8 DEF SendingInOrder, all
  <2>10. WholeReport(f, board, b2.wrote)
    <3>1. WholeReport(baseFiles, board, base.wrote)
      BY DEF BaseInv
    <3> QED BY <3>1, <2>3, <2>4, <2>5, <2>6, <1>3 DEF WholeReport, all
  <2> QED BY <2>5, <2>6, <2>7, <2>9, <2>10, <1>8, GoesOn
<1> QED BY <1>2, <1>7, <1>8

LEMMA SendBaseOK == ASSUME BaseInv, SendBase PROVE BaseInv'
<1> DEFINE p == PayloadOf(base)
           all == EventsOf(p)
           j == baseFiles.journal
           event == Head(base.events)
           rest == Tail(base.events)
           sent == Append(board, event)
           b == [base EXCEPT !.at = "journal", !.events = rest]
<1>1. /\ base.at = "send" /\ board' = sent /\ base' = b
      /\ baseFiles' = baseFiles /\ baseCommands' = baseCommands
  BY Zenon DEF SendBase
<1>2. /\ baseFiles.report = p /\ p # Nothing
      /\ all \in Seq(BaseEvent) /\ IsInjective(all)
      /\ base \in BaseCommand /\ baseFiles \in BaseDirectory /\ board \in Seq(BaseEvent)
      /\ j \in Seq(BaseEvent) /\ Len(j) <= Len(all)
      /\ \A i \in 1 .. Len(j) : j[i] = all[i]
      /\ ToSet(board) \subseteq ToSet(j) /\ IsInjective(board) /\ ModesInOrder(base)
  BY <1>1, WhileSending
<1>3. PICK k \in Nat : /\ EventsLeft(base, all, k) /\ k < Len(all)
                       /\ Len(j) = k + 1 /\ all[k + 1] \notin ToSet(board)
  BY <1>1, Zenon DEF BaseInv, SendingInOrder
<1> HIDE DEF all
<1>4. base.events = SubSeq(all, k + 1, Len(all)) /\ k <= Len(all)
  BY <1>3 DEF EventsLeft
<1>5. base.events # <<>>
  <2>1. Len(SubSeq(all, k + 1, Len(all))) = Len(all) - k
    BY <1>2, <1>3
  <2>2. Len(base.events) > 0
    BY <2>1, <1>2, <1>3, <1>4
  <2> QED BY <2>2
<1>6. /\ event = all[k + 1] /\ event \in BaseEvent
      /\ rest = SubSeq(all, (k + 1) + 1, Len(all)) /\ rest \in Seq(BaseEvent)
  BY <1>2, <1>4, <1>5, NextEvent
<1> HIDE DEF rest, event
<1>7. event \in ToSet(j)
  <2>1. k + 1 \in DOMAIN j /\ j[k + 1] = event
    BY <1>2, <1>3, <1>6
  <2> QED BY <2>1 DEF ToSet
<1>8. /\ sent \in Seq(BaseEvent) /\ Len(sent) = Len(board) + 1
      /\ \A i \in 1 .. Len(board) : sent[i] = board[i]
      /\ sent[Len(board) + 1] = event
  BY <1>2, <1>6
<1> HIDE DEF sent
<1>9. ToSet(sent) \subseteq ToSet(j)
  <2>1. ASSUME NEW i \in 1 .. Len(sent) PROVE sent[i] \in ToSet(j)
    <3>1. CASE i = Len(board) + 1
      BY <3>1, <1>7, <1>8
    <3>2. CASE i # Len(board) + 1
      <4>1. i \in 1 .. Len(board)
        BY <3>2, <1>2, <1>8
      <4>2. board[i] \in ToSet(board)
        BY <4>1, <1>2 DEF ToSet
      <4> QED BY <4>1, <4>2, <1>2, <1>8
    <3> QED BY <3>1, <3>2
  <2> QED BY <2>1, <1>8 DEF ToSet
<1>10. IsInjective(sent)
  <2>1. ASSUME NEW i \in 1 .. Len(board) PROVE board[i] # event
    BY <1>2, <1>3, <1>6 DEF ToSet
  <2>2. ASSUME NEW i \in 1 .. Len(sent), NEW n \in 1 .. Len(sent), sent[i] = sent[n]
        PROVE  i = n
    <3>1. /\ i \in 1 .. Len(board) \/ i = Len(board) + 1
          /\ n \in 1 .. Len(board) \/ n = Len(board) + 1
      BY <1>2, <1>8
    <3>2. CASE i \in 1 .. Len(board) /\ n \in 1 .. Len(board)
      BY <3>2, <2>2, <1>2, <1>8 DEF IsInjective
    <3>3. CASE i = Len(board) + 1 /\ n = Len(board) + 1
      BY <3>3
    <3>4. CASE i \in 1 .. Len(board) /\ n = Len(board) + 1
      BY <3>4, <2>1, <2>2, <1>8
    <3>5. CASE n \in 1 .. Len(board) /\ i = Len(board) + 1
      BY <3>5, <2>1, <2>2, <1>8
    <3> QED BY <3>1, <3>2, <3>3, <3>4, <3>5
  <2> QED BY <2>2, <1>8 DEF IsInjective
<1>11. /\ b \in BaseCommand /\ b.at = "journal" /\ b.results = base.results
       /\ b.modes = base.modes /\ b.wrote = base.wrote /\ b.events = rest /\ PayloadOf(b) = p
  BY <1>2, <1>6 DEF BaseCommand, BaseAts, PayloadOf
<1> HIDE DEF b
<1>12. BaseTypeOK'
  BY <1>1, <1>8, <1>11 DEF BaseInv, BaseTypeOK
<1>13. ModesInOrder(b) /\ StagesOK(b, baseFiles)
  BY <1>1, <1>2, <1>11 DEF ModesInOrder, StagesOK
<1>14. SendingInOrder(b, baseFiles, sent)
  <2>1. EventsLeft(b, all, k + 1) /\ k + 1 \in Nat /\ k + 1 <= Len(j)
    BY <1>2, <1>3, <1>6, <1>11 DEF EventsLeft
  <2> QED BY <2>1, <1>11 DEF SendingInOrder, all
<1>15. WholeReport(baseFiles, sent, b.wrote)
  <2>1. WholeReport(baseFiles, board, base.wrote)
    BY DEF BaseInv
  <2> QED BY <2>1, <1>9, <1>10, <1>11 DEF WholeReport
<1> QED BY <1>1, <1>12, <1>13, <1>14, <1>15 DEF BaseInv

LEMMA EndingOK ==
  ASSUME BaseInv, FinishBase \/ FailBase \/ KillBase
  PROVE  BaseInv'
<1>1. /\ base \in BaseCommand /\ baseFiles \in BaseDirectory
      /\ WholeReport(baseFiles, board, base.wrote)
  BY DEF BaseInv, BaseTypeOK
<1>2. base.at \in {"journal", "send"} => baseFiles.report # Nothing
  BY WhileSending
<1>3. CASE FinishBase
  BY <1>2, <1>3, EndsAsIs DEF FinishBase
<1>4. CASE FailBase
  <2>1. EndBase(baseFiles) /\ base.at \in {"mode", "samples", "comparison", "journal", "send"}
    BY <1>4 DEF FailBase
  <2>2. base.at \in {"mode", "samples", "comparison"} => ~base.wrote
    BY <1>1 DEF BaseInv, StagesOK, BaseCommand
  <2> QED BY <1>2, <2>1, <2>2, EndsAsIs
<1>5. CASE KillBase
  <2> DEFINE f == [baseFiles EXCEPT !.killed = TRUE]
  <2>1. EndBase(f)
    BY <1>5 DEF KillBase
  <2>2. /\ f \in BaseDirectory /\ f.samples = baseFiles.samples /\ f.core = baseFiles.core
        /\ f.report = baseFiles.report /\ f.journal = baseFiles.journal /\ f.killed = TRUE
    BY <1>1 DEF BaseDirectory
  <2> HIDE DEF f
  <2>3. WholeReport(f, board, FALSE)
    BY <1>1, <2>2 DEF WholeReport
  <2> QED BY <2>1, <2>2, <2>3, EndsBase
<1> QED BY <1>3, <1>4, <1>5

LEMMA BaseInitOK == BaseInit => BaseInv
<1> SUFFICES ASSUME BaseInit PROVE BaseInv
  OBVIOUS
<1>1. base = NoBase /\ baseFiles = NoFiles /\ board = <<>> /\ baseCommands = 0
  BY DEF BaseInit
<1>2. /\ NoBase \in BaseCommand /\ NoBase.at = "idle" /\ NoBase.wrote = FALSE
      /\ NoBase.results = <<>> /\ NoBase.modes = <<>>
  BY DEF NoBase, BaseCommand, BaseAts, BaseIds
<1>3. /\ NoFiles \in BaseDirectory /\ NoFiles.report = Nothing /\ NoFiles.journal = <<>>
      /\ NoFiles.core = Nothing
  BY DEF NoFiles, BaseDirectory, Nothing, BaseValue
<1> DEFINE none == <<>>
<1>4. none \in Seq(BaseEvent) /\ ToSet(none) = {} /\ IsInjective(none)
  BY DEF ToSet, IsInjective
<1>5. BaseTypeOK
  BY <1>1, <1>2, <1>3, <1>4 DEF BaseTypeOK
<1>6. ModesInOrder(NoBase) /\ StagesOK(NoBase, NoFiles) /\ SendingInOrder(NoBase, NoFiles, none)
  BY <1>2 DEF ModesInOrder, StagesOK, SendingInOrder
<1> HIDE DEF none
<1>7. WholeReport(NoFiles, none, NoBase.wrote)
  BY <1>3, <1>4 DEF WholeReport
<1> QED BY <1>1, <1>5, <1>6, <1>7 DEF BaseInv, none

LEMMA BaseNextOK == BaseInv /\ [BaseNext]_baseVars => BaseInv'
<1> SUFFICES ASSUME BaseInv, [BaseNext]_baseVars PROVE BaseInv'
  OBVIOUS
<1>1. ASSUME NEW request \in BaseRequests, RunBase(request) PROVE BaseInv'
  BY <1>1, RunBaseOK
<1>2. CASE RunMode \/ CheckReport \/ WriteBaseSamples \/ WriteComparison
  BY <1>2, RunModeOK, CheckReportOK, WriteSamplesOK, WriteComparisonOK
<1>3. CASE PublishBase \/ FailPublish \/ JournalBase \/ SendBase
  BY <1>3, PublishBaseOK, FailPublishOK, JournalBaseOK, SendBaseOK
<1>4. CASE FinishBase \/ FailBase \/ KillBase
  BY <1>4, EndingOK
<1>5. CASE UNCHANGED baseVars
  BY <1>5 DEF BaseInv, BaseTypeOK, baseVars
<1> QED BY <1>1, <1>2, <1>3, <1>4, <1>5, Zenon DEF BaseNext

\* eval_base, whatever the requests, the commands repeated in one directory and
\* where they fail or are killed: the report, its samples, its comparison and
\* its journal agree, and Weights & Biases is sent no event that the journal
\* lacks and none twice.
THEOREM BaseReportIsWholeHolds == BaseSpec => []BaseReportIsWhole
<1>1. BaseInv => BaseReportIsWhole
  BY ReportMeaning DEF BaseInv
<1> QED BY <1>1, BaseInitOK, BaseNextOK, PTL DEF BaseSpec

-----------------------------------------------------------------------------
(* Finetuning: types.                                                      *)

NoConfig == NoSource.config
SftConfigOrNone == SftConfigs \cup {NoConfig}
SftValidation == [step : Nat, current : Nat, minimum : Nat]
SftModel == [base : SftBases \cup {0}, step : Nat, fed : Seq(Nat), val : SftValidation]
SftCheckpoint == [config : SftConfigOrNone, state : SftModel]
SftRoles == {"periodic", "best", "latest", "report", "samples"}
SftAts == {"idle", "check", "train", "log?", "validate", "best", "best!", "track", "save?",
           "periodic!", "last", "last!", "sample", "report", "report!", "samples!", "done"}
SftFolder ==
  [config : SftConfigOrNone, metric : Nat, torn : BOOLEAN, registered : SUBSET (SftRoles \X Nat),
   periodic : SUBSET SftCheckpoint, best : SftCheckpoint, last : SftCheckpoint,
   samples : SftCheckpoint, report : SftCheckpoint, reported : SftValidation,
   foreign : BOOLEAN]
SftProcess ==
  [at : SftAts, config : SftConfigOrNone, source : SftCheckpoint, state : SftModel,
   final : BOOLEAN]

SftTypeOK ==
  /\ score \in SftScores /\ folder \in SftFolder /\ shelf \in SUBSET SftCheckpoint
  /\ tuning \in SftProcess /\ sftCalls \in Nat

-----------------------------------------------------------------------------
(* The inductive invariant, of the scores z, a directory f and a process t. *)

\* v is the validation of the steps S, without a choice of its extremes.
OfSteps(z, v, S) ==
  IF S = {} THEN v = Unscored
  ELSE /\ v.step \in S /\ v.current = z[v.step]
       /\ \A s \in S : s <= v.step /\ v.minimum <= z[s]
       /\ \E s \in S : z[s] = v.minimum

\* v is of all the steps up to its own that a run of the configuration
\* validates; none up to n is missing.
Scored(z, c, v) == OfSteps(z, v, ValidatedBy(c, v.step))
UpTo(c, v, n)   == \A s \in ValidatedBy(c, n) : s <= v.step

\* What a run has at step n: all that is validated before n and, unless n is
\* only validated because it is the last, n itself.
OnSchedule(z, c, s) ==
  /\ s.step <= c.target /\ s.fed = [i \in 1 .. s.step |-> i]
  /\ s.val.step <= s.step /\ Scored(z, c, s.val)
  /\ UpTo(c, s.val, s.step - 1)
SettledAt(c, s) == s.step % c.eval = 0 => UpTo(c, s.val, s.step)

IsExact(z, c) ==
  /\ c.config \in SftConfigs /\ c.state.step >= 1
  /\ OnSchedule(z, c.config, c.state) /\ SettledAt(c.config, c.state)

\* best.pt is at a step that scored as well as any of v, or at a later one.
Covered(z, f, v) ==
  v.step > 0 => \E r \in ValidatedBy(f.config, v.step) :
                  z[r] = v.minimum /\ r <= f.best.state.step

BestOK(z, f) ==
  f.best # NoSource =>
    /\ f.best.state.val.step = f.best.state.step
    /\ \A s \in ValidatedBy(f.config, f.best.state.step - 1) : z[f.best.state.step] < z[s]

\* A directory that no checkpoint ahead of its metrics was resumed in.
OwnOK(z, f) ==
  ~f.foreign =>
    /\ \A c \in f.periodic \cup {f.last} : c.state.val.step <= f.metric
    /\ \A c \in Saved(f) : Covered(z, f, c.state.val)
    /\ \A s \in ValidatedBy(f.config, f.best.state.step - 1) : s <= f.metric

ListedOK(f) ==
  \A e \in f.registered :
    CASE e[1] = "periodic" -> \E c \in f.periodic : c.state.step = e[2]
      [] e[1] = "best"     -> f.foreign \/ f.best.state.step >= e[2]
      [] e[1] = "latest"   -> f.last.state.step >= e[2]
      [] OTHER             -> f.report # NoSource /\ f.report.state.step = e[2]

ReportOK(f) ==
  f.report # NoSource =>
    /\ f.report = f.last /\ f.samples = f.last /\ f.reported = f.last.state.val
    /\ f.last.state.step = f.config.target /\ f.last.state.val.step = f.config.target
    /\ f.metric = f.config.target

FolderOK(z, f) ==
  /\ \A c \in Saved(f) : IsExact(z, c) /\ c.config = f.config
  /\ BestOK(z, f) /\ OwnOK(z, f) /\ ListedOK(f) /\ ReportOK(f)

ShelfOK(z, sh) == \A c \in sh : IsExact(z, c)

\* The process at each of its stages.
Running(t)   == t.at \notin {"idle", "check"}
Unvalidated(t) == t.at \in {"log?", "validate", "best", "best!"}
Published    == {"report!", "samples!", "done"}
Finished     == {"sample", "report"} \cup Published

CommandOK(f, t, sh) ==
  /\ t.at # "idle" => t.config \in SftConfigs /\ f.config = t.config
  /\ t.at = "check" => t.source \in {NoSource} \cup Saved(f) \cup sh /\ ~t.final
ModelOK(z, f, t) ==
  Running(t) =>
    /\ OnSchedule(z, t.config, t.state)
    /\ t.at # "train" => t.state.step >= 1
    /\ IF Unvalidated(t) THEN t.state.val.step < t.state.step
       ELSE SettledAt(t.config, t.state)
    /\ t.at \in {"validate", "best", "best!", "track"} =>
         t.state.step \in ValidatedBy(t.config, t.state.step)
    /\ t.at = "track" => t.state.val.step = t.state.step
    /\ t.at = "best" => t.state.val = Unscored \/ z[t.state.step] < t.state.val.minimum
StageOK(t) ==
  Running(t) =>
    /\ t.at \in {"train", "log?", "save?", "periodic!"} => ~t.final
    /\ t.final => t.state.step = t.config.target
    /\ t.at \in Finished => t.final
    /\ t.at \in {"last", "last!"} \cup Finished /\ t.final => t.state.val.step = t.state.step
WrittenOK(z, f, t) ==
  Running(t) =>
    /\ f.last.state.step <= t.state.step /\ f.metric <= t.state.step
    /\ t.at = "log?" => f.metric < t.state.step
    /\ t.at \in {"last", "last!"} \cup Finished /\ t.final => f.metric = t.state.step
    /\ t.at = "best!" => f.best.state.step = t.state.step
    /\ t.at = "periodic!" => \E c \in f.periodic : c.state.step = t.state.step
    /\ t.at \in {"last!"} \cup Finished => f.last = [config |-> t.config, state |-> t.state]
    /\ t.at \in {"report"} \cup Published => f.samples = f.last
    /\ f.report # NoSource <=> t.at \in Published
    /\ \/ t.at = "track" \/ t.state.val.step < t.config.target
       \/ f.metric = t.state.step
    /\ ~f.foreign =>
         /\ Covered(z, f, t.state.val)
         /\ t.at = "track" \/ t.state.val.step <= f.metric
         /\ t.at \in {"validate", "best"} => f.best.state.step <= t.state.step

SftInvOf(z, f, t, sh) ==
  /\ FolderOK(z, f) /\ ShelfOK(z, sh) /\ CommandOK(f, t, sh)
  /\ ModelOK(z, f, t) /\ StageOK(t) /\ WrittenOK(z, f, t)
SftInv == SftTypeOK /\ SftInvOf(score, folder, tuning, shelf)

-----------------------------------------------------------------------------
(* Steps and their validation.                                             *)

LEMMA SftConfigFields ==
  ASSUME NEW c \in SftConfigs
  PROVE  /\ c.target \in Nat /\ c.target >= 1 /\ c.eval \in Nat /\ c.eval >= 1
         /\ c.log \in Nat /\ c.log >= 1 /\ c.save \in Nat /\ c.save >= 1
         /\ c # NoConfig /\ c \in SftConfigOrNone
<1>1. c \in [target : Nat \ {0}, log : Nat \ {0}, eval : Nat \ {0}, save : Nat \ {0}]
  BY FinetuningAssumption
<1>2. NoConfig = [target |-> 0, log |-> 0, eval |-> 0, save |-> 0]
  BY DEF NoConfig, NoSource
<1>3. NoConfig.target = 0
  BY <1>2
<1>4. c.target # 0
  BY <1>1
<1> QED BY <1>1, <1>3, <1>4 DEF SftConfigOrNone

LEMMA ValidatedMeans ==
  ASSUME NEW c, NEW n \in Nat, NEW s
  PROVE  s \in ValidatedBy(c, n) <=> s \in 1 .. n /\ (s % c.eval = 0 \/ s = c.target)
BY DEF ValidatedBy

LEMMA ValidatedSteps ==
  ASSUME NEW c, NEW n \in Nat
  PROVE  /\ ValidatedBy(c, n) \subseteq 1 .. n /\ ValidatedBy(c, n) \subseteq Nat
         /\ \A m \in Nat : m <= n => ValidatedBy(c, m) = {s \in ValidatedBy(c, n) : s <= m}
BY DEF ValidatedBy

LEMMA ScoreTypes ==
  ASSUME SftTypeOK, NEW c \in SftConfigs, NEW s \in 1 .. c.target
  PROVE  s \in DOMAIN score /\ score[s] \in Nat
BY FinetuningAssumption DEF SftTypeOK

\* A validation is the one that ValidationOf chooses.
LEMMA ValidationIs ==
  ASSUME NEW S, S \subseteq Nat, \A s \in S : score[s] \in Nat, NEW v \in SftValidation,
         OfSteps(score, v, S)
  PROVE  v = ValidationOf(S)
<1>1. CASE S = {}
  BY <1>1 DEF OfSteps, ValidationOf
<1>2. CASE S # {}
  <2>1. /\ v.step \in S /\ v.current = score[v.step]
        /\ \A s \in S : s <= v.step /\ v.minimum <= score[s]
        /\ \E s \in S : score[s] = v.minimum
    BY <1>2, Zenon DEF OfSteps
  <2>2. Max(S) = v.step
    <3>1. \A y \in S : v.step >= y
      BY <2>1
    <3>2. ASSUME NEW x \in S, \A y \in S : x >= y PROVE x = v.step
      <4>1. x \in Nat /\ v.step \in Nat /\ x >= v.step /\ v.step >= x
        BY <2>1, <3>2
      <4> QED BY <4>1
    <3> QED BY <2>1, <3>1, <3>2 DEF Max
  <2> DEFINE T == {score[s] : s \in S}
  <2>3. Min(T) = v.minimum
    <3>1. v.minimum \in T /\ T \subseteq Nat
      BY <2>1
    <3>2. \A y \in T : v.minimum =< y
      BY <2>1
    <3> HIDE DEF T
    <3>3. ASSUME NEW x \in T, \A y \in T : x =< y PROVE x = v.minimum
      <4>1. x \in Nat /\ v.minimum \in Nat /\ x =< v.minimum /\ v.minimum =< x
        BY <3>1, <3>2, <3>3
      <4> QED BY <4>1
    <3> QED BY <3>1, <3>2, <3>3 DEF Min
  <2>4. v = [step |-> v.step, current |-> v.current, minimum |-> v.minimum]
    BY DEF SftValidation
  <2>5. ValidationOf(S) = [step |-> Max(S), current |-> score[Max(S)], minimum |-> Min(T)]
    BY <1>2 DEF ValidationOf
  <2> QED BY <2>1, <2>2, <2>3, <2>4, <2>5
<1> QED BY <1>1, <1>2

\* Nothing validated: the validation that a run starts from.
LEMMA UnscoredMeans ==
  ASSUME NEW z, NEW c, NEW v \in SftValidation, Scored(z, c, v)
  PROVE  /\ v = Unscored <=> v.step = 0
         /\ v.step > 0 => v.step \in ValidatedBy(c, v.step)
         /\ ValidatedBy(c, v.step) = {} <=> v.step = 0
<1>1. v.step \in Nat
  BY DEF SftValidation
<1>2. ValidatedBy(c, v.step) \subseteq 1 .. v.step
  BY <1>1, ValidatedSteps
<1>3. Unscored.step = 0
  BY DEF Unscored
<1>4. CASE ValidatedBy(c, v.step) = {}
  BY <1>3, <1>4 DEF Scored, OfSteps
<1>5. CASE ValidatedBy(c, v.step) # {}
  <2>1. v.step \in ValidatedBy(c, v.step)
    BY <1>5 DEF Scored, OfSteps
  <2>2. v.step >= 1
    BY <2>1, <1>1, <1>2
  <2> QED BY <2>1, <2>2, <1>3, <1>5, <1>1
<1> QED BY <1>4, <1>5

\* What is validated up to a step whose validation is v.
LEMMA ValidatedUpTo ==
  ASSUME NEW c, NEW n \in Nat, NEW v \in SftValidation, v.step <= n, UpTo(c, v, n)
  PROVE  ValidatedBy(c, n) = ValidatedBy(c, v.step)
<1>1. v.step \in Nat
  BY DEF SftValidation
<1>2. ValidatedBy(c, v.step) = {s \in ValidatedBy(c, n) : s <= v.step}
  BY <1>1, ValidatedSteps
<1> QED BY <1>2 DEF UpTo

LEMMA ValidatedBefore ==
  ASSUME NEW c, NEW n \in Nat, n >= 1, NEW v \in SftValidation, v.step < n,
         UpTo(c, v, n - 1)
  PROVE  /\ ValidatedBy(c, v.step) = ValidatedBy(c, n - 1)
         /\ ValidatedBy(c, v.step) = ValidatedBy(c, n) \ {n}
<1>1. v.step \in Nat /\ v.step <= n - 1 /\ n - 1 \in Nat
  BY DEF SftValidation
<1>2. ValidatedBy(c, n - 1) = ValidatedBy(c, v.step)
  BY <1>1, ValidatedUpTo
<1>3. ValidatedBy(c, n - 1) = {s \in ValidatedBy(c, n) : s <= n - 1}
  BY <1>1, ValidatedSteps
<1>4. \A s \in ValidatedBy(c, n) : s \in Nat /\ s <= n
  BY ValidatedSteps
<1>5. \A s \in ValidatedBy(c, n) : s <= n - 1 <=> s # n
  BY <1>4
<1> QED BY <1>2, <1>3, <1>5

\* advance_sft_validation_state at a step that is validated.
AdvancedOf(z, n, v) ==
  [step |-> n, current |-> z[n],
   minimum |-> IF v = Unscored \/ z[n] < v.minimum THEN z[n] ELSE v.minimum]

LEMMA AdvanceScored ==
  ASSUME NEW z, NEW c, NEW n \in Nat, n >= 1, NEW v \in SftValidation, v.step < n,
         UpTo(c, v, n - 1), Scored(z, c, v), n \in ValidatedBy(c, n), z[n] \in Nat,
         \A s \in ValidatedBy(c, n) : z[s] \in Nat
  PROVE  /\ AdvancedOf(z, n, v) \in SftValidation /\ AdvancedOf(z, n, v).step = n
         /\ Scored(z, c, AdvancedOf(z, n, v)) /\ UpTo(c, AdvancedOf(z, n, v), n)
         /\ v = Unscored \/ z[n] < v.minimum =>
              /\ AdvancedOf(z, n, v).minimum = z[n]
              /\ \A s \in ValidatedBy(c, n - 1) : z[n] < z[s]
         /\ ~(v = Unscored \/ z[n] < v.minimum) => AdvancedOf(z, n, v).minimum = v.minimum
<1> DEFINE m == IF v = Unscored \/ z[n] < v.minimum THEN z[n] ELSE v.minimum
           a == AdvancedOf(z, n, v)
           S == ValidatedBy(c, v.step)
           T == ValidatedBy(c, n)
<1>1. m \in Nat /\ v.minimum \in Nat /\ v.step \in Nat
  BY DEF SftValidation
<1>2. v = Unscored \/ z[n] < v.minimum => m = z[n]
  OBVIOUS
<1>3. ~(v = Unscored \/ z[n] < v.minimum) => m = v.minimum
  OBVIOUS
<1> HIDE DEF m
<1>4. a = [step |-> n, current |-> z[n], minimum |-> m]
  BY DEF AdvancedOf, m
<1>5. a \in SftValidation /\ a.step = n /\ a.current = z[n] /\ a.minimum = m
  BY <1>1, <1>4 DEF SftValidation
<1> HIDE DEF a
<1>6. S = ValidatedBy(c, n - 1) /\ S = T \ {n}
  BY ValidatedBefore
<1>7. S # {} => v # Unscored /\ (\A s \in S : v.minimum <= z[s]) /\ \E s \in S : z[s] = v.minimum
  BY UnscoredMeans DEF Scored, OfSteps
<1>8. S = {} <=> v = Unscored
  BY UnscoredMeans
<1>9. T \subseteq 1 .. n
  BY ValidatedSteps
<1> HIDE DEF S, T
<1>10. \A s \in T : s <= n /\ z[s] \in Nat
  BY <1>9 DEF T
<1>11. n \in T /\ \A s \in T : s = n \/ s \in S
  BY <1>6 DEF T
<1>12. \A s \in T : m <= z[s]
  BY <1>1, <1>2, <1>3, <1>7, <1>8, <1>10, <1>11
<1>13. \E s \in T : z[s] = m
  BY <1>2, <1>3, <1>6, <1>7, <1>8, <1>11
<1>14. OfSteps(z, a, T)
  BY <1>5, <1>10, <1>11, <1>12, <1>13 DEF OfSteps
<1>15. Scored(z, c, a) /\ UpTo(c, a, n)
  BY <1>14, <1>5, <1>10 DEF Scored, UpTo, T
<1>16. v = Unscored \/ z[n] < v.minimum => \A s \in S : z[n] < z[s]
  BY <1>1, <1>6, <1>7, <1>8, <1>10
<1> QED BY <1>2, <1>3, <1>5, <1>6, <1>15, <1>16 DEF a

-----------------------------------------------------------------------------
(* The invariant means what the property says.                             *)

LEMMA CheckpointTypes ==
  ASSUME NEW c \in SftCheckpoint
  PROVE  /\ c.config \in SftConfigOrNone /\ c.state \in SftModel /\ c.state.step \in Nat
         /\ c.state.val \in SftValidation /\ c.state.val.step \in Nat
         /\ c.state.val.minimum \in Nat /\ c.state.fed \in Seq(Nat)
BY DEF SftCheckpoint, SftModel, SftValidation

LEMMA FolderTypes ==
  ASSUME NEW f \in SftFolder
  PROVE  /\ f.config \in SftConfigOrNone /\ f.metric \in Nat /\ f.torn \in BOOLEAN
         /\ f.registered \in SUBSET (SftRoles \X Nat)
         /\ f.periodic \in SUBSET SftCheckpoint /\ f.best \in SftCheckpoint
         /\ f.last \in SftCheckpoint /\ f.samples \in SftCheckpoint
         /\ f.report \in SftCheckpoint /\ f.reported \in SftValidation /\ f.foreign \in BOOLEAN
         /\ Saved(f) \subseteq SftCheckpoint /\ NoSource \notin Saved(f)
BY DEF SftFolder, Saved

LEMMA ProcessTypes ==
  ASSUME NEW t \in SftProcess
  PROVE  /\ t.at \in SftAts /\ t.config \in SftConfigOrNone /\ t.source \in SftCheckpoint
         /\ t.state \in SftModel /\ t.state.step \in Nat /\ t.state.val \in SftValidation
         /\ t.state.val.step \in Nat /\ t.state.val.minimum \in Nat
         /\ t.state.fed \in Seq(Nat) /\ t.final \in BOOLEAN
BY DEF SftProcess, SftModel, SftValidation

LEMMA UntunedFields ==
  ASSUME NEW b \in SftBases \cup {0}
  PROVE  /\ Untuned(b) \in SftModel /\ Untuned(b).step = 0 /\ Untuned(b).val = Unscored
         /\ Untuned(b).fed = <<>> /\ Unscored \in SftValidation /\ Unscored.step = 0
<1> DEFINE none == <<>>
<1>1. none \in Seq(Nat)
  OBVIOUS
<1>2. Unscored \in SftValidation /\ Unscored.step = 0
  BY DEF Unscored, SftValidation
<1> HIDE DEF none
<1>3. Untuned(b) = [base |-> b, step |-> 0, fed |-> none, val |-> Unscored]
  BY Zenon DEF Untuned, none
<1>4. Untuned(b) \in SftModel /\ Untuned(b).step = 0 /\ Untuned(b).val = Unscored
      /\ Untuned(b).fed = none
  BY <1>1, <1>2, <1>3 DEF SftModel
<1> QED BY <1>2, <1>4 DEF none

LEMMA NoSourceFields ==
  /\ NoSource \in SftCheckpoint /\ NoSource.config = NoConfig
  /\ NoSource.state.step = 0 /\ NoSource.state.val = Unscored /\ NoSource.state.val.step = 0
  /\ Unscored \in SftValidation /\ Unscored.step = 0 /\ NoConfig \in SftConfigOrNone
<1>1. /\ Unscored \in SftValidation /\ Unscored.step = 0 /\ Untuned(0) \in SftModel
      /\ Untuned(0).step = 0 /\ Untuned(0).val = Unscored
  <2> DEFINE zero == 0
  <2>1. zero \in SftBases \cup {0}
    OBVIOUS
  <2> HIDE DEF zero
  <2>2. /\ Untuned(zero) \in SftModel /\ Untuned(zero).step = 0
        /\ Untuned(zero).val = Unscored /\ Unscored \in SftValidation /\ Unscored.step = 0
    BY <2>1, UntunedFields
  <2> QED BY <2>2, Zenon DEF zero
<1>2. NoConfig \in SftConfigOrNone
  BY DEF SftConfigOrNone
<1>3. NoSource = [config |-> NoConfig, state |-> Untuned(0)]
  BY DEF NoSource, NoConfig
<1>4. /\ NoSource.config = NoConfig /\ NoSource.state = Untuned(0)
      /\ NoSource \in SftCheckpoint
  <2> DEFINE u == Untuned(0)
  <2>1. u \in SftModel
    BY <1>1
  <2> HIDE DEF u
  <2>2. NoSource = [config |-> NoConfig, state |-> u]
    BY <1>3, Zenon DEF u
  <2>3. NoSource.config = NoConfig /\ NoSource.state = u /\ NoSource \in SftCheckpoint
    BY <2>1, <2>2, <1>2 DEF SftCheckpoint
  <2> QED BY <2>3 DEF u
<1> QED BY <1>1, <1>2, <1>4

\* The steps that a checkpoint may have validated have scores.
LEMMA ScoresUpTo ==
  ASSUME SftTypeOK, NEW c \in SftConfigs, NEW n \in Nat, n <= c.target
  PROVE  \A s \in ValidatedBy(c, n) : s \in Nat /\ 1 <= s /\ s <= n /\ score[s] \in Nat
<1> SUFFICES ASSUME NEW s \in ValidatedBy(c, n)
             PROVE  s \in Nat /\ 1 <= s /\ s <= n /\ score[s] \in Nat
  OBVIOUS
<1>1. s \in 1 .. n
  BY ValidatedSteps
<1>2. s \in 1 .. c.target
  BY <1>1, SftConfigFields
<1> QED BY <1>1, <1>2, ScoreTypes

LEMMA ExactMeans ==
  ASSUME SftTypeOK, NEW c \in SftCheckpoint, IsExact(score, c)
  PROVE  LET full == ValidatedBy(c.config, c.state.step) IN
         /\ c.state.fed = [i \in 1 .. c.state.step |-> i]
         /\ \/ c.state.val = ValidationOf(full)
            \/ /\ c.state.step % c.config.eval # 0
               /\ c.state.val = ValidationOf(full \ {c.state.step})
<1> DEFINE n == c.state.step
           v == c.state.val
           full == ValidatedBy(c.config, n)
           S == ValidatedBy(c.config, v.step)
<1>1. /\ n \in Nat /\ n >= 1 /\ n <= c.config.target /\ v \in SftValidation /\ v.step \in Nat
      /\ v.step <= n /\ c.config \in SftConfigs /\ c.state.fed = [i \in 1 .. n |-> i]
      /\ Scored(score, c.config, v) /\ UpTo(c.config, v, n - 1)
      /\ n % c.config.eval = 0 => UpTo(c.config, v, n)
  BY CheckpointTypes DEF IsExact, OnSchedule, SettledAt
<1>2. v.step <= c.config.target
  BY <1>1, SftConfigFields
<1>3. S \subseteq Nat /\ \A s \in S : score[s] \in Nat
  BY <1>1, <1>2, ScoresUpTo
<1>4. v = ValidationOf(S)
  BY <1>1, <1>3, ValidationIs DEF Scored
<1>5. CASE UpTo(c.config, v, n)
  <2>1. full = S
    BY <1>1, <1>5, ValidatedUpTo
  <2> QED BY <2>1, <1>1, <1>4
<1>6. CASE ~UpTo(c.config, v, n)
  <2>1. PICK s \in full : ~(s <= v.step)
    BY <1>6 DEF UpTo
  <2>2. s \in Nat /\ s <= n
    BY <1>1, ValidatedSteps
  <2>3. v.step < n
    BY <2>1, <2>2, <1>1
  <2>4. S = full \ {n}
    BY <2>3, <1>1, ValidatedBefore
  <2> HIDE DEF S, full
  <2>5. v = ValidationOf(full \ {n})
    BY <2>4, <1>4
  <2> QED BY <2>5, <1>1, <1>6 DEF full
<1> QED BY <1>5, <1>6

\* best.pt when everything is validated and covered.
LEMMA BestIsFirst ==
  ASSUME SftTypeOK, NEW f \in SftFolder, NEW v \in SftValidation, f.config \in SftConfigs,
         \A c \in Saved(f) : IsExact(score, c) /\ c.config = f.config,
         BestOK(score, f), Covered(score, f, v), Scored(score, f.config, v),
         v.step = f.config.target
  PROVE  LET steps == ValidatedBy(f.config, f.config.target) IN
         f.best.state.step = Min({s \in steps : \A r \in steps : score[s] <= score[r]})
<1> DEFINE target == f.config.target
           steps == ValidatedBy(f.config, target)
           b == f.best.state.step
           firsts == {s \in steps : \A r \in steps : score[s] <= score[r]}
<1>1. target \in Nat /\ target >= 1
  BY SftConfigFields
<1>2. \A s \in steps : s \in Nat /\ 1 <= s /\ s <= target /\ score[s] \in Nat
  BY <1>1, ScoresUpTo
<1>3. PICK r \in steps : score[r] = v.minimum /\ r <= b
  BY <1>1 DEF Covered
<1>4. \A s \in steps : v.minimum <= score[s]
  BY <1>3 DEF Scored, OfSteps
<1>5. f.best # NoSource /\ f.best \in Saved(f) /\ b \in Nat
  <2>1. f.best \in SftCheckpoint
    BY FolderTypes
  <2>2. b \in Nat
    BY <2>1, CheckpointTypes
  <2>3. b >= 1
    BY <1>2, <1>3, <2>2
  <2>4. f.best # NoSource
    BY <2>3, NoSourceFields
  <2> QED BY <2>2, <2>4 DEF Saved
<1>6. /\ f.best.state.val.step = b /\ b <= target /\ b >= 1
      /\ Scored(score, f.config, f.best.state.val) /\ f.best.state.val \in SftValidation
      /\ \A s \in ValidatedBy(f.config, b - 1) : score[b] < score[s]
  <2>1. IsExact(score, f.best) /\ f.best.config = f.config
    BY <1>5
  <2>2. f.best \in SftCheckpoint
    BY FolderTypes
  <2>3. f.best.state.val \in SftValidation
    BY <2>2, CheckpointTypes
  <2>4. f.best.state.val.step = b /\ \A s \in ValidatedBy(f.config, b - 1) : score[b] < score[s]
    BY <1>5 DEF BestOK
  <2> QED BY <2>1, <2>3, <2>4 DEF IsExact, OnSchedule
<1>7. b \in steps
  <2>1. b \in ValidatedBy(f.config, b)
    BY <1>5, <1>6, UnscoredMeans
  <2> QED BY <2>1, <1>1, <1>5, <1>6, ValidatedSteps
<1>8. r = b
  <2>1. CASE r < b
    <3>1. r \in Nat /\ b - 1 \in Nat /\ r <= b - 1 /\ b - 1 <= target
      BY <2>1, <1>1, <1>2, <1>5, <1>6
    <3>2. r \in ValidatedBy(f.config, b - 1)
      BY <3>1, <1>1, ValidatedSteps
    <3>3. score[b] < score[r]
      BY <3>2, <1>6
    <3>4. score[r] <= score[b] /\ score[r] \in Nat /\ score[b] \in Nat
      BY <1>2, <1>3, <1>4, <1>7
    <3> QED BY <3>3, <3>4
  <2> QED BY <2>1, <1>2, <1>3, <1>5
<1> HIDE DEF steps, target, b
<1>9. b \in firsts
  BY <1>3, <1>4, <1>7, <1>8
<1>10. ASSUME NEW s \in firsts PROVE b <= s
  <2>1. s \in steps /\ score[s] <= score[b] /\ s \in Nat /\ score[s] \in Nat /\ score[b] \in Nat
    BY <1>2, <1>7
  <2>2. CASE s < b
    <3>1. b - 1 \in Nat /\ s <= b - 1 /\ b - 1 <= target
      BY <2>1, <2>2, <1>1, <1>5, <1>6
    <3>2. s \in ValidatedBy(f.config, b - 1)
      BY <3>1, <2>1, <1>1, ValidatedSteps DEF steps
    <3>3. score[b] < score[s]
      BY <3>2, <1>6
    <3> QED BY <3>3, <2>1
  <2> QED BY <2>1, <2>2, <1>5
<1>11. ASSUME NEW x \in firsts, \A y \in firsts : x =< y PROVE x = b
  <2>1. x \in Nat /\ b \in Nat /\ x =< b /\ b =< x
    BY <1>2, <1>5, <1>9, <1>10, <1>11
  <2> QED BY <2>1
<1>12. Min(firsts) = b
  <2> HIDE DEF firsts
  <2> QED BY <1>9, <1>10, <1>11 DEF Min
<1> QED BY <1>12 DEF steps, target, b

LEMMA FinetuningMeaning == SftInv => FinetuningIsExact
<1> SUFFICES ASSUME SftInv PROVE FinetuningIsExact
  OBVIOUS
<1>1. /\ SftTypeOK /\ FolderOK(score, folder) /\ ShelfOK(score, shelf)
      /\ folder \in SftFolder /\ shelf \subseteq SftCheckpoint
  BY DEF SftInv, SftInvOf, SftTypeOK
<1>2. CheckpointsAreExact
  <2> SUFFICES ASSUME NEW c \in Saved(folder) \cup shelf
               PROVE  LET full == ValidatedBy(c.config, c.state.step) IN
                      /\ c.state.fed = [i \in 1 .. c.state.step |-> i]
                      /\ \/ c.state.val = ValidationOf(full)
                         \/ /\ c.state.step % c.config.eval # 0
                            /\ c.state.val = ValidationOf(full \ {c.state.step})
    BY Zenon DEF CheckpointsAreExact
  <2>1. c \in SftCheckpoint /\ IsExact(score, c)
    BY <1>1, FolderTypes DEF FolderOK, ShelfOK
  <2> QED BY <2>1, <1>1, ExactMeans
<1>3. ListedIsSaved
  BY <1>1 DEF FolderOK, ListedOK, ListedIsSaved
<1>4. ReportIsFinal
  <2> DEFINE steps == ValidatedBy(folder.config, folder.config.target)
  <2>1. SUFFICES ASSUME folder.report # NoSource
                 PROVE  /\ folder.report = folder.last /\ folder.samples = folder.last
                        /\ folder.last.state.step = folder.config.target
                        /\ folder.reported = ValidationOf(steps)
                        /\ folder.metric = folder.config.target
                        /\ ~folder.foreign =>
                             folder.best.state.step =
                               Min({s \in steps : \A r \in steps : score[s] <= score[r]})
    BY Zenon DEF ReportIsFinal
  <2>2. /\ folder.report = folder.last /\ folder.samples = folder.last
        /\ folder.reported = folder.last.state.val
        /\ folder.last.state.step = folder.config.target
        /\ folder.last.state.val.step = folder.config.target
        /\ folder.metric = folder.config.target
    BY <1>1, <2>1 DEF FolderOK, ReportOK
  <2>3. folder.last \in Saved(folder) /\ folder.last \in SftCheckpoint
    BY <2>1, <2>2, <1>1, FolderTypes DEF Saved
  <2>4. /\ IsExact(score, folder.last) /\ folder.last.config = folder.config
        /\ folder.config \in SftConfigs /\ Scored(score, folder.config, folder.last.state.val)
        /\ folder.last.state.val \in SftValidation
    BY <2>3, <1>1, CheckpointTypes DEF FolderOK, IsExact, OnSchedule
  <2>5. folder.config.target \in Nat
    BY <2>4, SftConfigFields
  <2>6. folder.reported = ValidationOf(steps)
    <3>1. steps \subseteq Nat /\ \A s \in steps : score[s] \in Nat
      BY <2>4, <2>5, <1>1, ScoresUpTo
    <3>2. OfSteps(score, folder.last.state.val, steps)
      BY <2>2, <2>4 DEF Scored
    <3> HIDE DEF steps
    <3> QED BY <3>1, <3>2, <2>2, <2>4, ValidationIs
  <2>7. ASSUME ~folder.foreign
        PROVE  folder.best.state.step =
                 Min({s \in steps : \A r \in steps : score[s] <= score[r]})
    <3>1. Covered(score, folder, folder.last.state.val) /\ BestOK(score, folder)
      BY <2>3, <2>7, <1>1 DEF FolderOK, OwnOK
    <3>2. \A c \in Saved(folder) : IsExact(score, c) /\ c.config = folder.config
      BY <1>1 DEF FolderOK
    <3> QED BY <3>1, <3>2, <2>2, <2>4, <1>1, BestIsFirst
  <2> QED BY <2>2, <2>6, <2>7
<1> QED BY <1>2, <1>3, <1>4 DEF FinetuningIsExact

-----------------------------------------------------------------------------
(* Steps in general.                                                       *)

LEMMA SftGoes ==
  ASSUME SftInv, NEW f \in SftFolder, NEW t \in SftProcess,
         score' = score, folder' = f, tuning' = t, shelf' = shelf, sftCalls' = sftCalls,
         FolderOK(score, f), CommandOK(f, t, shelf), ModelOK(score, f, t), StageOK(t),
         WrittenOK(score, f, t)
  PROVE  SftInv'
<1>1. SftTypeOK'
  BY DEF SftInv, SftTypeOK
<1>2. ShelfOK(score, shelf)
  BY DEF SftInv, SftInvOf
<1>3. SftInvOf(score, f, t, shelf)
  BY <1>2 DEF SftInvOf
<1>4. SftInvOf(score, folder, tuning, shelf)'
  BY <1>3, Zenon
<1> QED BY <1>1, <1>4 DEF SftInv

\* A directory whose checkpoints stay as they are.
LEMMA FolderKept ==
  ASSUME NEW z, NEW f \in SftFolder, NEW f2 \in SftFolder, FolderOK(z, f),
         f2.config = f.config, f2.periodic = f.periodic, f2.best = f.best, f2.last = f.last,
         f2.metric >= f.metric, f.foreign => f2.foreign, ListedOK(f2), ReportOK(f2)
  PROVE  FolderOK(z, f2)
<1>1. Saved(f2) = Saved(f)
  BY DEF Saved
<1>2. BestOK(z, f2)
  BY DEF FolderOK, BestOK
<1>3. \A v : Covered(z, f, v) => Covered(z, f2, v)
  BY DEF Covered
<1>4. f.metric \in Nat /\ f2.metric \in Nat /\ f.foreign \in BOOLEAN /\ f2.foreign \in BOOLEAN
      /\ f.best \in SftCheckpoint
  BY FolderTypes
<1>5. ASSUME ~f2.foreign
      PROVE  /\ \A c \in f2.periodic \cup {f2.last} : c.state.val.step <= f2.metric
             /\ \A c \in Saved(f2) : Covered(z, f2, c.state.val)
             /\ \A s \in ValidatedBy(f2.config, f2.best.state.step - 1) : s <= f2.metric
  <2>1. /\ \A c \in f.periodic \cup {f.last} : c.state.val.step <= f.metric
        /\ \A c \in Saved(f) : Covered(z, f, c.state.val)
        /\ \A s \in ValidatedBy(f.config, f.best.state.step - 1) : s <= f.metric
    BY <1>4, <1>5 DEF FolderOK, OwnOK
  <2>2. \A c \in f.periodic \cup {f.last} : c.state.val.step \in Nat
    BY FolderTypes, CheckpointTypes
  <2>3. \A s \in ValidatedBy(f.config, f.best.state.step - 1) : s \in Nat
    BY <1>4, CheckpointTypes DEF ValidatedBy
  <2> QED BY <2>1, <2>2, <2>3, <1>1, <1>3, <1>4
<1>6. OwnOK(z, f2)
  BY <1>5, Zenon DEF OwnOK
<1> QED BY <1>1, <1>2, <1>6 DEF FolderOK

\* The facts about a running process that its steps use.
LEMMA WhileRunning ==
  ASSUME SftInv, Running(tuning)
  PROVE  /\ folder \in SftFolder /\ tuning \in SftProcess /\ FolderOK(score, folder)
         /\ tuning.config \in SftConfigs /\ folder.config = tuning.config
         /\ tuning.state \in SftModel /\ tuning.state.step \in Nat
         /\ tuning.state.val \in SftValidation /\ tuning.state.val.step \in Nat
         /\ folder.metric \in Nat /\ folder.best.state.step \in Nat
         /\ folder.last.state.step \in Nat /\ folder.foreign \in BOOLEAN
         /\ tuning.final \in BOOLEAN
         /\ OnSchedule(score, tuning.config, tuning.state)
         /\ ModelOK(score, folder, tuning) /\ StageOK(tuning)
         /\ WrittenOK(score, folder, tuning)
<1>1. /\ folder \in SftFolder /\ tuning \in SftProcess /\ FolderOK(score, folder)
      /\ CommandOK(folder, tuning, shelf) /\ ModelOK(score, folder, tuning)
      /\ StageOK(tuning) /\ WrittenOK(score, folder, tuning)
  BY DEF SftInv, SftInvOf, SftTypeOK
<1>2. tuning.config \in SftConfigs /\ folder.config = tuning.config
  BY <1>1 DEF CommandOK, Running
<1>3. OnSchedule(score, tuning.config, tuning.state)
  BY <1>1 DEF ModelOK
<1>4. folder.best \in SftCheckpoint /\ folder.last \in SftCheckpoint /\ folder.metric \in Nat
      /\ folder.foreign \in BOOLEAN
  BY <1>1, FolderTypes
<1>5. folder.best.state.step \in Nat /\ folder.last.state.step \in Nat
  BY <1>4, CheckpointTypes
<1> QED BY <1>1, <1>2, <1>3, <1>4, <1>5, ProcessTypes

LEMMA StillRunning ==
  ASSUME NEW f \in SftFolder, NEW t \in SftProcess, Running(t), t.config \in SftConfigs,
         f.config = t.config, NEW sh
  PROVE  CommandOK(f, t, sh)
BY DEF CommandOK, Running

LEMMA AtMoves ==
  ASSUME NEW t \in SftProcess, NEW a \in SftAts
  PROVE  LET t2 == [t EXCEPT !.at = a] IN
         /\ t2 \in SftProcess /\ t2.at = a /\ t2.config = t.config /\ t2.source = t.source
         /\ t2.state = t.state /\ t2.final = t.final
BY DEF SftProcess

\* An entry more in the tracker's list.
LEMMA Lists ==
  ASSUME NEW f \in SftFolder, NEW role \in SftRoles, NEW n \in Nat, ListedOK(f),
         CASE role = "periodic" -> \E c \in f.periodic : c.state.step = n
           [] role = "best"     -> f.foreign \/ f.best.state.step >= n
           [] role = "latest"   -> f.last.state.step >= n
           [] OTHER             -> f.report # NoSource /\ f.report.state.step = n
  PROVE  LET f2 == [f EXCEPT !.registered = @ \cup {<<role, n>>}] IN
         /\ f2 \in SftFolder /\ ListedOK(f2) /\ f2.config = f.config /\ f2.metric = f.metric
         /\ f2.periodic = f.periodic /\ f2.best = f.best /\ f2.last = f.last
         /\ f2.samples = f.samples /\ f2.report = f.report /\ f2.reported = f.reported
         /\ f2.foreign = f.foreign
<1> DEFINE new == f.registered \cup {<<role, n>>}
           f2 == [f EXCEPT !.registered = new]
<1>1. new \in SUBSET (SftRoles \X Nat)
  BY FolderTypes
<1>2. \A e \in new : e \in f.registered \/ (e[1] = role /\ e[2] = n)
  OBVIOUS
<1> HIDE DEF new
<1>3. /\ f2 \in SftFolder /\ f2.registered = new /\ f2.config = f.config
      /\ f2.metric = f.metric /\ f2.periodic = f.periodic /\ f2.best = f.best
      /\ f2.last = f.last /\ f2.samples = f.samples /\ f2.report = f.report
      /\ f2.reported = f.reported /\ f2.foreign = f.foreign
  BY <1>1 DEF SftFolder
<1> HIDE DEF f2
<1>4. ListedOK(f2)
  <2> SUFFICES ASSUME NEW e \in new
               PROVE  CASE e[1] = "periodic" -> \E c \in f2.periodic : c.state.step = e[2]
                        [] e[1] = "best"     -> f2.foreign \/ f2.best.state.step >= e[2]
                        [] e[1] = "latest"   -> f2.last.state.step >= e[2]
                        [] OTHER -> f2.report # NoSource /\ f2.report.state.step = e[2]
    BY <1>3 DEF ListedOK
  <2>1. CASE e \in f.registered
    BY <2>1, <1>3 DEF ListedOK
  <2>2. CASE e[1] = role /\ e[2] = n
    BY <2>2, <1>3
  <2> QED BY <2>1, <2>2, <1>2
<1> QED BY <1>3, <1>4 DEF f2, new

-----------------------------------------------------------------------------
(* Training.                                                               *)

\* All the batches up to the next one.
LEMMA OneMoreBatch ==
  ASSUME NEW n \in Nat, NEW q, q = [i \in 1 .. n |-> i]
  PROVE  /\ Append(q, Len(q) + 1) = [i \in 1 .. n + 1 |-> i]
         /\ Append(q, Len(q) + 1) \in Seq(Nat)
<1>1. q \in Seq(Nat) /\ Len(q) = n
  <2>1. \A i \in 1 .. n : i \in Nat
    OBVIOUS
  <2> QED BY <2>1
<1> DEFINE u == Append(q, n + 1)
           w == [i \in 1 .. n + 1 |-> i]
<1>2. u \in Seq(Nat) /\ Len(u) = n + 1 /\ \A i \in 1 .. n + 1 : u[i] = i
  BY <1>1
<1>3. w \in Seq(Nat) /\ Len(w) = n + 1 /\ \A i \in 1 .. n + 1 : w[i] = i
  <2>1. \A i \in 1 .. n + 1 : i \in Nat
    OBVIOUS
  <2> QED BY <2>1
<1> HIDE DEF u, w
<1>4. u = w
  BY <1>2, <1>3, SeqEqual
<1> QED BY <1>1, <1>2, <1>4 DEF u, w

LEMMA UpToNext ==
  ASSUME NEW c \in SftConfigs, NEW n \in Nat, n < c.target, NEW v \in SftValidation,
         UpTo(c, v, n - 1), n % c.eval = 0 => UpTo(c, v, n)
  PROVE  UpTo(c, v, n)
<1>1. CASE n \in ValidatedBy(c, n)
  <2>1. n % c.eval = 0
    BY <1>1, SftConfigFields, ValidatedMeans
  <2> QED BY <2>1
<1>2. CASE n \notin ValidatedBy(c, n)
  <2>1. \A s \in ValidatedBy(c, n) : s \in ValidatedBy(c, n - 1)
    BY <1>2 DEF ValidatedBy
  <2> QED BY <2>1 DEF UpTo
<1> QED BY <1>1, <1>2

LEMMA TrainStepOK == ASSUME SftInv, TrainStep PROVE SftInv'
<1> DEFINE s == tuning.state
           n == s.step
           m == n + 1
           fed == Append(s.fed, Len(s.fed) + 1)
           s2 == [s EXCEPT !.step = m, !.fed = fed]
           t == [tuning EXCEPT !.at = "log?", !.state = s2]
<1>1. /\ tuning.at = "train" /\ n # tuning.config.target
      /\ tuning' = t /\ UNCHANGED <<score, folder, shelf, sftCalls>>
  <2>1. tuning.at = "train" /\ ~AtTarget /\ UNCHANGED <<score, folder, shelf, sftCalls>>
    BY Zenon DEF TrainStep
  <2>2. tuning' = t
    BY DEF TrainStep
  <2> QED BY <2>1, <2>2 DEF AtTarget
<1>2. Running(tuning)
  BY <1>1 DEF Running
<1> DEFINE c == tuning.config
           v == s.val
<1>3. /\ folder \in SftFolder /\ tuning \in SftProcess /\ FolderOK(score, folder)
      /\ c \in SftConfigs /\ folder.config = c /\ s \in SftModel /\ n \in Nat
      /\ v \in SftValidation /\ v.step \in Nat /\ OnSchedule(score, c, s)
      /\ WrittenOK(score, folder, tuning)
  BY <1>2, WhileRunning
<1>4. /\ n <= c.target /\ s.fed = [i \in 1 .. n |-> i] /\ v.step <= n
      /\ Scored(score, c, v) /\ UpTo(c, v, n - 1)
  BY <1>3 DEF OnSchedule
<1>5. SettledAt(c, s) /\ ~tuning.final
  BY <1>1, <1>2, <1>3, WhileRunning DEF ModelOK, StageOK, Unvalidated
<1>6. m \in Nat /\ m >= 1 /\ m <= c.target /\ m - 1 = n /\ v.step < m
  BY <1>1, <1>3, <1>4, SftConfigFields
<1>7. UpTo(c, v, m - 1)
  BY <1>1, <1>3, <1>4, <1>5, <1>6, SftConfigFields, UpToNext DEF SettledAt
<1>8. fed = [i \in 1 .. m |-> i] /\ fed \in Seq(Nat)
  BY <1>3, <1>4, OneMoreBatch
<1>w. /\ folder.last.state.step <= n /\ folder.metric <= n /\ folder.report = NoSource
      /\ v.step < c.target \/ folder.metric = n
      /\ ~folder.foreign => Covered(score, folder, v) /\ v.step <= folder.metric
  BY <1>1, <1>2, <1>3 DEF WrittenOK, Published, Finished
<1>n. folder.last.state.step \in Nat /\ folder.metric \in Nat
  BY <1>2, WhileRunning
<1> HIDE DEF m, fed
<1>9. s2 \in SftModel /\ s2.step = m /\ s2.fed = fed /\ s2.val = v
  BY <1>3, <1>6, <1>8 DEF SftModel
<1> HIDE DEF s2
<1>10. /\ t \in SftProcess /\ t.at = "log?" /\ t.config = c /\ t.state = s2
       /\ t.final = tuning.final
  BY <1>3, <1>9 DEF SftProcess, SftAts
<1> HIDE DEF t
<1>11. Running(t) /\ Unvalidated(t)
  BY <1>10 DEF Running, Unvalidated
<1>12. OnSchedule(score, c, s2)
  BY <1>3, <1>4, <1>6, <1>7, <1>8, <1>9 DEF OnSchedule
<1>13. ModelOK(score, folder, t)
  BY <1>6, <1>9, <1>10, <1>11, <1>12 DEF ModelOK
<1>14. StageOK(t)
  BY <1>5, <1>10 DEF StageOK, Finished, Published
<1>15. WrittenOK(score, folder, t)
  <2>1. v.step < c.target
    BY <1>1, <1>3, <1>4, SftConfigFields
  <2>2. folder.last.state.step <= m /\ folder.metric < m /\ folder.metric <= m
    BY <1>3, <1>6, <1>w, <1>n DEF m
  <2> QED BY <2>1, <2>2, <1>5, <1>9, <1>10, <1>w DEF WrittenOK, Finished, Published
<1>16. CommandOK(folder, t, shelf)
  BY <1>3, <1>10, <1>11, StillRunning
<1> QED BY <1>1, <1>3, <1>10, <1>13, <1>14, <1>15, <1>16, SftGoes

\* What the steps of a process that only writes leave of its invariant: the
\* model stays, only the stage and the directory change.
LEMMA ModelKept ==
  ASSUME SftInv, Running(tuning), NEW f, NEW t \in SftProcess, Running(t),
         t.config = tuning.config, t.state = tuning.state,
         t.at # "train" => tuning.state.step >= 1,
         IF Unvalidated(t) THEN tuning.state.val.step < tuning.state.step
         ELSE SettledAt(tuning.config, tuning.state),
         t.at \in {"validate", "best", "best!", "track"} =>
           tuning.state.step \in ValidatedBy(tuning.config, tuning.state.step),
         t.at = "track" => tuning.state.val.step = tuning.state.step,
         t.at = "best" => \/ tuning.state.val = Unscored
                          \/ score[tuning.state.step] < tuning.state.val.minimum
  PROVE  ModelOK(score, f, t)
BY WhileRunning DEF ModelOK

LEMMA LogStepOK == ASSUME SftInv, LogStep PROVE SftInv'
<1> DEFINE c == tuning.config
           n == tuning.state.step
           v == tuning.state.val
           f == IF n % c.log = 0 THEN [folder EXCEPT !.metric = n] ELSE folder
           a == IF n % c.eval = 0 THEN "validate" ELSE "save?"
           t == [tuning EXCEPT !.at = a]
<1>1. /\ tuning.at = "log?" /\ folder' = f /\ tuning' = t
      /\ UNCHANGED <<score, shelf, sftCalls>>
  BY Zenon DEF LogStep, Put, Due, AfterStep
<1>2. Running(tuning) /\ Unvalidated(tuning)
  BY <1>1 DEF Running, Unvalidated
<1>3. /\ folder \in SftFolder /\ tuning \in SftProcess /\ FolderOK(score, folder)
      /\ c \in SftConfigs /\ folder.config = c /\ n \in Nat /\ v \in SftValidation
      /\ v.step \in Nat /\ OnSchedule(score, c, tuning.state) /\ folder.metric \in Nat
      /\ folder.best.state.step \in Nat /\ WrittenOK(score, folder, tuning)
  BY <1>2, WhileRunning
<1>4. n >= 1 /\ v.step < n /\ ~tuning.final /\ n <= c.target
  BY <1>1, <1>2, <1>3, WhileRunning DEF ModelOK, StageOK, OnSchedule
<1>w. /\ folder.last.state.step <= n /\ folder.metric < n /\ folder.report = NoSource
      /\ ~folder.foreign => Covered(score, folder, v) /\ v.step <= folder.metric
  BY <1>1, <1>2, <1>3 DEF WrittenOK, Published, Finished
<1>5. a \in {"validate", "save?"} /\ a \in SftAts
      /\ (a = "validate" <=> n % c.eval = 0)
  BY DEF SftAts
<1>6. /\ f \in SftFolder /\ f.metric \in {n, folder.metric} /\ f.config = c
      /\ f.periodic = folder.periodic /\ f.best = folder.best /\ f.last = folder.last
      /\ f.registered = folder.registered /\ f.samples = folder.samples
      /\ f.report = folder.report /\ f.reported = folder.reported
      /\ f.foreign = folder.foreign
  BY <1>3 DEF SftFolder
<1> HIDE DEF f, a
<1>7. /\ t \in SftProcess /\ t.at = a /\ t.config = c /\ t.state = tuning.state
      /\ t.final = tuning.final
  BY <1>3, <1>5, AtMoves
<1> HIDE DEF t
<1>8. Running(t)
  BY <1>5, <1>7 DEF Running
<1>9. FolderOK(score, f)
  <2>1. ListedOK(f) /\ ReportOK(f)
    BY <1>3, <1>6, <1>w DEF FolderOK, ListedOK, ReportOK
  <2>2. f.metric >= folder.metric
    BY <1>3, <1>6, <1>w
  <2> QED BY <2>1, <2>2, <1>3, <1>6, FolderKept
<1>10. ModelOK(score, f, t)
  <2>1. a = "save?" => SettledAt(c, tuning.state)
    BY <1>5 DEF SettledAt
  <2>2. a = "validate" => n \in ValidatedBy(c, n)
    BY <1>3, <1>4, <1>5, ValidatedMeans
  <2> QED BY <2>1, <2>2, <1>2, <1>4, <1>5, <1>7, <1>8, ModelKept DEF Unvalidated
<1>11. StageOK(t)
  BY <1>4, <1>5, <1>7 DEF StageOK, Finished, Published
<1>12. WrittenOK(score, f, t)
  <2>1. f.metric <= n /\ v.step < c.target
    BY <1>3, <1>4, <1>6, <1>w, SftConfigFields
  <2>2. ~f.foreign => Covered(score, f, v) /\ v.step <= f.metric
    BY <1>3, <1>6, <1>w DEF Covered
  <2>3. ASSUME ~f.foreign, a = "validate", ~(f.best.state.step <= n) PROVE FALSE
    <3>1. n <= f.best.state.step - 1 /\ f.best.state.step - 1 \in Nat
      BY <2>3, <1>3, <1>4, <1>6
    <3>2. n \in ValidatedBy(c, f.best.state.step - 1)
      BY <2>3, <3>1, <1>3, <1>4, <1>5, ValidatedMeans
    <3>3. n <= folder.metric
      BY <2>3, <3>2, <1>3, <1>6 DEF FolderOK, OwnOK
    <3> QED BY <3>3, <1>3, <1>w
  <2> QED BY <2>1, <2>2, <2>3, <1>4, <1>5, <1>6, <1>7, <1>w DEF WrittenOK, Finished, Published
<1>13. CommandOK(f, t, shelf)
  BY <1>3, <1>6, <1>7, <1>8, StillRunning
<1> QED BY <1>1, <1>6, <1>7, <1>9, <1>10, <1>11, <1>12, <1>13, SftGoes

-----------------------------------------------------------------------------
(* Validation.                                                             *)

\* A process that is about to validate its step.
LEMMA BeforeValidation ==
  ASSUME SftInv, tuning.at \in {"validate", "best", "best!"}
  PROVE  LET c == tuning.config
             n == tuning.state.step
             v == tuning.state.val
             x == AdvancedOf(score, n, v)
         IN  /\ Running(tuning) /\ n \in Nat /\ n >= 1 /\ n <= c.target /\ v.step < n
             /\ v.step \in Nat /\ n \in ValidatedBy(c, n) /\ score[n] \in Nat
             /\ Scored(score, c, v) /\ UpTo(c, v, n - 1)
             /\ x = Advanced /\ (Better <=> v = Unscored \/ score[n] < v.minimum)
             /\ x \in SftValidation /\ x.step = n /\ Scored(score, c, x) /\ UpTo(c, x, n)
             /\ v = Unscored \/ score[n] < v.minimum =>
                  /\ x.minimum = score[n]
                  /\ \A s \in ValidatedBy(c, n - 1) : score[n] < score[s]
             /\ ~(v = Unscored \/ score[n] < v.minimum) => x.minimum = v.minimum
<1> DEFINE c == tuning.config
           n == tuning.state.step
           v == tuning.state.val
<1>1. Running(tuning) /\ Unvalidated(tuning) /\ tuning.at # "train"
  BY DEF Running, Unvalidated
<1>2. /\ c \in SftConfigs /\ n \in Nat /\ v \in SftValidation /\ v.step \in Nat
      /\ OnSchedule(score, c, tuning.state) /\ ModelOK(score, folder, tuning)
  BY <1>1, WhileRunning
<1>3. n <= c.target /\ Scored(score, c, v) /\ UpTo(c, v, n - 1)
  BY <1>2 DEF OnSchedule
<1>4. n >= 1 /\ v.step < n /\ n \in ValidatedBy(c, n)
  BY <1>1, <1>2 DEF ModelOK
<1>5. \A s \in ValidatedBy(c, n) : score[s] \in Nat
  BY <1>2, <1>3, ScoresUpTo DEF SftInv
<1>6. score[n] \in Nat
  BY <1>4, <1>5
<1>7. AdvancedOf(score, n, v) = Advanced
  BY Zenon DEF AdvancedOf, Advanced
<1>8. Advanced.current = score[n]
  BY DEF Advanced
<1>9. Better <=> v = Unscored \/ score[n] < v.minimum
  BY <1>8, Zenon DEF Better
<1> DEFINE x == AdvancedOf(score, n, v)
<1>10. /\ x \in SftValidation /\ x.step = n /\ Scored(score, c, x) /\ UpTo(c, x, n)
       /\ v = Unscored \/ score[n] < v.minimum =>
            /\ x.minimum = score[n]
            /\ \A s \in ValidatedBy(c, n - 1) : score[n] < score[s]
       /\ ~(v = Unscored \/ score[n] < v.minimum) => x.minimum = v.minimum
  <2>1. /\ n \in Nat /\ n >= 1 /\ v \in SftValidation /\ v.step < n /\ UpTo(c, v, n - 1)
        /\ Scored(score, c, v) /\ n \in ValidatedBy(c, n) /\ score[n] \in Nat
        /\ \A s \in ValidatedBy(c, n) : score[s] \in Nat
    BY <1>2, <1>3, <1>4, <1>5, <1>6
  <2> HIDE DEF c, n, v, x
  <2> DEFINE z == score
  <2>2. /\ AdvancedOf(z, n, v) \in SftValidation /\ AdvancedOf(z, n, v).step = n
        /\ Scored(z, c, AdvancedOf(z, n, v)) /\ UpTo(c, AdvancedOf(z, n, v), n)
        /\ v = Unscored \/ z[n] < v.minimum =>
             /\ AdvancedOf(z, n, v).minimum = z[n]
             /\ \A s \in ValidatedBy(c, n - 1) : z[n] < z[s]
        /\ ~(v = Unscored \/ z[n] < v.minimum) => AdvancedOf(z, n, v).minimum = v.minimum
    BY <2>1, AdvanceScored
  <2> QED BY <2>2, Zenon DEF x
<1> HIDE DEF x
<1>11. /\ Running(tuning) /\ n \in Nat /\ n >= 1 /\ n <= c.target /\ v.step < n
       /\ v.step \in Nat /\ n \in ValidatedBy(c, n) /\ score[n] \in Nat
       /\ Scored(score, c, v) /\ UpTo(c, v, n - 1)
       /\ x = Advanced /\ (Better <=> v = Unscored \/ score[n] < v.minimum)
  BY <1>1, <1>2, <1>3, <1>4, <1>6, <1>7, <1>9, Zenon DEF x
<1> QED BY <1>10, <1>11, Zenon DEF x

\* The schedule of the model once its step is validated.
LEMMA Validated ==
  ASSUME NEW z, NEW c, NEW s \in SftModel, NEW s2 \in SftModel, OnSchedule(z, c, s),
         s2.step = s.step, s2.fed = s.fed, s2.val.step = s.step,
         Scored(z, c, s2.val), UpTo(c, s2.val, s.step)
  PROVE  OnSchedule(z, c, s2) /\ SettledAt(c, s2)
<1>1. s.step \in Nat
  BY DEF SftModel
<1>2. UpTo(c, s2.val, s.step - 1)
  <2>1. ValidatedBy(c, s.step - 1) \subseteq ValidatedBy(c, s.step)
    BY <1>1 DEF ValidatedBy
  <2> QED BY <2>1 DEF UpTo
<1> QED BY <1>1, <1>2 DEF OnSchedule, SettledAt

\* The stage "track" with its validation advanced.
LEMMA GoesToTrack ==
  ASSUME SftInv, tuning.at \in {"validate", "best!"}, NEW f \in SftFolder,
         FolderOK(score, f), f.config = tuning.config, f.last = folder.last,
         f.metric = folder.metric, f.report = NoSource,
         ~f.foreign => Covered(score, f, AdvancedOf(score, tuning.state.step, tuning.state.val)),
         folder' = f, UNCHANGED <<score, shelf, sftCalls>>,
         tuning' = [tuning EXCEPT !.at = "track", !.state.val = Advanced]
  PROVE  SftInv'
<1> DEFINE c == tuning.config
           n == tuning.state.step
           v == tuning.state.val
           x == AdvancedOf(score, n, v)
           t == [tuning EXCEPT !.at = "track", !.state.val = x]
<1>1. /\ Running(tuning) /\ n \in Nat /\ n >= 1 /\ n <= c.target /\ v.step < n
      /\ v.step \in Nat /\ n \in ValidatedBy(c, n) /\ x = Advanced
      /\ x \in SftValidation /\ x.step = n /\ Scored(score, c, x) /\ UpTo(c, x, n)
  BY BeforeValidation
<1>2. /\ tuning \in SftProcess /\ c \in SftConfigs /\ tuning.state \in SftModel
      /\ OnSchedule(score, c, tuning.state) /\ StageOK(tuning)
      /\ WrittenOK(score, folder, tuning)
  BY <1>1, WhileRunning
<1>3. tuning' = t
  BY <1>1, Zenon
<1> HIDE DEF x
<1>4. "track" \in SftAts
  BY DEF SftAts
<1>5. /\ t \in SftProcess /\ t.at = "track" /\ t.config = c /\ t.final = tuning.final
      /\ t.state \in SftModel /\ t.state.step = n /\ t.state.fed = tuning.state.fed
      /\ t.state.val = x
  <2> DEFINE a == "track"
  <2>1. a \in SftAts
    BY <1>4
  <2> HIDE DEF a
  <2>2. LET t2 == [tuning EXCEPT !.at = a, !.state.val = x] IN
        /\ t2 \in SftProcess /\ t2.at = a /\ t2.config = c /\ t2.final = tuning.final
        /\ t2.state \in SftModel /\ t2.state.step = n /\ t2.state.fed = tuning.state.fed
        /\ t2.state.val = x
    <3> HIDE DEF c, n
    <3>1. tuning \in SftProcess /\ a \in SftAts /\ x \in SftValidation
      BY <1>1, <1>2, <2>1
    <3>2. LET t2 == [tuning EXCEPT !.at = a, !.state.val = x] IN
          /\ t2 \in SftProcess /\ t2.at = a /\ t2.config = tuning.config
          /\ t2.source = tuning.source /\ t2.final = tuning.final /\ t2.state \in SftModel
          /\ t2.state.step = tuning.state.step /\ t2.state.fed = tuning.state.fed
          /\ t2.state.val = x
      BY <3>1 DEF SftProcess, SftModel
    <3> QED BY <3>2, Zenon DEF c, n
  <2> QED BY <2>2, Zenon DEF a
<1> HIDE DEF t
<1>6. Running(t) /\ ~Unvalidated(t)
  BY <1>5 DEF Running, Unvalidated
<1>7. OnSchedule(score, c, t.state) /\ SettledAt(c, t.state)
  BY <1>1, <1>2, <1>5, Validated
<1>8. ModelOK(score, f, t)
  BY <1>1, <1>5, <1>6, <1>7 DEF ModelOK
<1>9. StageOK(t)
  BY <1>1, <1>2, <1>5 DEF StageOK, Finished, Published
<1>10. WrittenOK(score, f, t)
  <2>1. folder.last.state.step <= n /\ folder.metric <= n
    BY <1>1, <1>2 DEF WrittenOK
  <2> QED BY <2>1, <1>5 DEF WrittenOK, Finished, Published, x
<1>11. CommandOK(f, t, shelf)
  BY <1>2, <1>5, <1>6, StillRunning
<1> QED BY <1>3, <1>5, <1>8, <1>9, <1>10, <1>11, SftGoes

LEMMA ValidateOK == ASSUME SftInv, Validate PROVE SftInv'
<1> DEFINE c == tuning.config
           n == tuning.state.step
           v == tuning.state.val
           x == AdvancedOf(score, n, v)
           t == [tuning EXCEPT !.at = "best"]
<1>1. /\ tuning.at = "validate"
      /\ \/ /\ Better /\ folder' = folder /\ tuning' = t /\ UNCHANGED <<score, shelf, sftCalls>>
         \/ /\ ~Better /\ folder' = folder /\ UNCHANGED <<score, shelf, sftCalls>>
            /\ tuning' = [tuning EXCEPT !.at = "track", !.state.val = Advanced]
  BY Zenon DEF Validate, Put
<1>2. /\ Running(tuning) /\ n \in Nat /\ n >= 1 /\ n <= c.target /\ v.step < n
      /\ v.step \in Nat /\ n \in ValidatedBy(c, n)
      /\ (Better <=> v = Unscored \/ score[n] < v.minimum)
      /\ ~(v = Unscored \/ score[n] < v.minimum) => x.minimum = v.minimum
      /\ x.step = n /\ x \in SftValidation /\ Scored(score, c, v)
  BY <1>1, BeforeValidation
<1>3. /\ folder \in SftFolder /\ tuning \in SftProcess /\ FolderOK(score, folder)
      /\ c \in SftConfigs /\ folder.config = c /\ v \in SftValidation
      /\ StageOK(tuning) /\ WrittenOK(score, folder, tuning)
  BY <1>2, WhileRunning
<1>w. /\ folder.last.state.step <= n /\ folder.metric <= n /\ folder.report = NoSource
      /\ v.step < c.target \/ folder.metric = n
      /\ ~folder.foreign => /\ Covered(score, folder, v) /\ v.step <= folder.metric
                            /\ folder.best.state.step <= n
  BY <1>1, <1>2, <1>3 DEF WrittenOK, Published, Finished
<1>4. CASE Better /\ tuning' = t /\ folder' = folder /\ UNCHANGED <<score, shelf, sftCalls>>
  <2>1. /\ t \in SftProcess /\ t.at = "best" /\ t.config = c /\ t.state = tuning.state
        /\ t.final = tuning.final
    <3>1. "best" \in SftAts
      BY DEF SftAts
    <3> QED BY <3>1, <1>3, AtMoves
  <2> HIDE DEF t
  <2>2. Running(t) /\ Unvalidated(t)
    BY <2>1 DEF Running, Unvalidated
  <2>3. ModelOK(score, folder, t)
    BY <2>1, <2>2, <1>2, <1>4, ModelKept
  <2>4. StageOK(t)
    BY <2>1, <1>2, <1>3 DEF StageOK, Finished, Published
  <2>5. WrittenOK(score, folder, t)
    BY <2>1, <1>w DEF WrittenOK, Finished, Published
  <2>6. CommandOK(folder, t, shelf)
    BY <2>1, <2>2, <1>3, StillRunning
  <2> QED BY <2>1, <2>3, <2>4, <2>5, <2>6, <1>3, <1>4, SftGoes
<1>5. CASE /\ ~Better /\ folder' = folder /\ UNCHANGED <<score, shelf, sftCalls>>
           /\ tuning' = [tuning EXCEPT !.at = "track", !.state.val = Advanced]
  <2>1. ASSUME ~folder.foreign PROVE Covered(score, folder, x)
    <3>1. v.step > 0 /\ x.minimum = v.minimum
      BY <1>2, <1>3, <1>5, UnscoredMeans
    <3>2. PICK r \in ValidatedBy(c, v.step) : score[r] = v.minimum /\ r <= folder.best.state.step
      BY <2>1, <3>1, <1>3, <1>w DEF Covered
    <3>3. r \in ValidatedBy(c, n)
      BY <3>2, <1>2, ValidatedSteps
    <3> QED BY <3>1, <3>2, <3>3, <1>2, <1>3 DEF Covered
  <2> HIDE DEF x
  <2> QED BY <2>1, <1>1, <1>3, <1>5, <1>w, GoesToTrack DEF x
<1> QED BY <1>1, <1>4, <1>5

LEMMA RegisterSftBestOK == ASSUME SftInv, RegisterSftBest PROVE SftInv'
<1> DEFINE c == tuning.config
           n == tuning.state.step
           v == tuning.state.val
           x == AdvancedOf(score, n, v)
           f == [folder EXCEPT !.registered = @ \cup {<<"best", n>>}]
<1>1. /\ tuning.at = "best!" /\ folder' = f /\ UNCHANGED <<score, shelf, sftCalls>>
      /\ tuning' = [tuning EXCEPT !.at = "track", !.state.val = Advanced]
  BY Zenon DEF RegisterSftBest
<1>2. /\ Running(tuning) /\ n \in Nat /\ n >= 1 /\ v.step < n /\ v.step \in Nat
      /\ n \in ValidatedBy(c, n) /\ x.step = n /\ x \in SftValidation
      /\ v = Unscored \/ score[n] < v.minimum => x.minimum = score[n]
      /\ ~(v = Unscored \/ score[n] < v.minimum) => x.minimum = v.minimum
      /\ Scored(score, c, v)
  BY <1>1, BeforeValidation
<1>3. /\ folder \in SftFolder /\ FolderOK(score, folder) /\ folder.config = c
      /\ v \in SftValidation /\ WrittenOK(score, folder, tuning)
  BY <1>2, WhileRunning
<1>w. /\ folder.report = NoSource /\ folder.best.state.step = n
      /\ ~folder.foreign => Covered(score, folder, v)
  BY <1>1, <1>2, <1>3 DEF WrittenOK, Published, Finished
<1>4. /\ f \in SftFolder /\ ListedOK(f) /\ f.config = folder.config
      /\ f.metric = folder.metric /\ f.periodic = folder.periodic /\ f.best = folder.best
      /\ f.last = folder.last /\ f.report = folder.report /\ f.foreign = folder.foreign
  <2>1. folder.best.state.step >= n /\ ListedOK(folder) /\ "best" \in SftRoles
    BY <1>2, <1>3, <1>w DEF FolderOK, SftRoles
  <2> QED BY <2>1, <1>2, <1>3, Lists
<1> HIDE DEF f
<1>5. FolderOK(score, f)
  <2>1. f.metric >= folder.metric /\ ReportOK(f)
    BY <1>3, <1>4, <1>w, FolderTypes DEF ReportOK
  <2> QED BY <2>1, <1>3, <1>4, FolderKept
<1>6. ASSUME ~f.foreign PROVE Covered(score, f, x)
  <2>1. CASE v = Unscored \/ score[n] < v.minimum
    <3>1. score[n] = x.minimum /\ n <= f.best.state.step
      BY <2>1, <1>2, <1>4, <1>w
    <3> QED BY <3>1, <1>2, <1>3, <1>4 DEF Covered
  <2>2. CASE ~(v = Unscored \/ score[n] < v.minimum)
    <3>1. v.step > 0 /\ x.minimum = v.minimum
      BY <2>2, <1>2, <1>3, UnscoredMeans
    <3>2. PICK r \in ValidatedBy(c, v.step) : score[r] = v.minimum /\ r <= f.best.state.step
      BY <3>1, <1>3, <1>4, <1>6, <1>w DEF Covered
    <3>3. r \in ValidatedBy(c, n)
      BY <3>2, <1>2, ValidatedSteps
    <3> QED BY <3>1, <3>2, <3>3, <1>2, <1>3, <1>4 DEF Covered
  <2> QED BY <2>1, <2>2
<1> HIDE DEF x
<1> QED BY <1>1, <1>3, <1>4, <1>5, <1>6, <1>w, GoesToTrack DEF x

\* A process that only writes: the model stays, the stage and the directory
\* change.
LEMMA OnlyWrites ==
  ASSUME SftInv, Running(tuning), NEW f \in SftFolder, NEW a \in SftAts, NEW t,
         a \notin {"idle", "check"}, t = [tuning EXCEPT !.at = a],
         folder' = f, tuning' = t, UNCHANGED <<score, shelf, sftCalls>>,
         f.config = folder.config, FolderOK(score, f),
         a # "train" => tuning.state.step >= 1,
         IF a \in {"log?", "validate", "best", "best!"}
         THEN tuning.state.val.step < tuning.state.step
         ELSE SettledAt(tuning.config, tuning.state),
         a \in {"validate", "best", "best!", "track"} =>
           tuning.state.step \in ValidatedBy(tuning.config, tuning.state.step),
         a = "track" => tuning.state.val.step = tuning.state.step,
         a = "best" => \/ tuning.state.val = Unscored
                       \/ score[tuning.state.step] < tuning.state.val.minimum,
         StageOK(t), WrittenOK(score, f, t)
  PROVE  SftInv'
<1>1. /\ tuning \in SftProcess /\ tuning.config \in SftConfigs
      /\ folder.config = tuning.config
  BY WhileRunning
<1>2. /\ t \in SftProcess /\ t.at = a /\ t.config = tuning.config /\ t.state = tuning.state
  BY <1>1, AtMoves
<1>3. Running(t) /\ (Unvalidated(t) <=> a \in {"log?", "validate", "best", "best!"})
  BY <1>2 DEF Running, Unvalidated
<1>4. ModelOK(score, f, t)
  BY <1>2, <1>3, ModelKept
<1>5. CommandOK(f, t, shelf)
  BY <1>1, <1>2, <1>3, StillRunning
<1> QED BY <1>2, <1>4, <1>5, SftGoes

\* A better best.pt covers what the old one did.
LEMMA CoveredMore ==
  ASSUME NEW z, NEW f \in SftFolder, NEW f2 \in SftFolder, NEW v \in SftValidation,
         f2.config = f.config, f2.best.state.step >= f.best.state.step, Covered(z, f, v)
  PROVE  Covered(z, f2, v)
<1>1. f.best.state.step \in Nat /\ f2.best.state.step \in Nat
  BY FolderTypes, CheckpointTypes
<1>2. CASE v.step > 0
  <2>1. PICK r \in ValidatedBy(f.config, v.step) :
          z[r] = v.minimum /\ r <= f.best.state.step
    BY <1>2 DEF Covered
  <2>2. r \in Nat
    BY <2>1 DEF ValidatedBy
  <2>3. r <= f2.best.state.step
    BY <1>1, <2>1, <2>2
  <2> QED BY <2>1, <2>3 DEF Covered
<1>3. CASE ~(v.step > 0)
  BY <1>3 DEF Covered
<1> QED BY <1>2, <1>3

LEMMA SaveSftBestOK == ASSUME SftInv, SaveSftBest PROVE SftInv'
<1> DEFINE c == tuning.config
           s == tuning.state
           n == s.step
           v == s.val
           x == AdvancedOf(score, n, v)
           s2 == [s EXCEPT !.val = x]
           b == [config |-> c, state |-> s2]
           f == [folder EXCEPT !.best = b]
           t == [tuning EXCEPT !.at = "best!"]
<1>1. /\ Running(tuning) /\ n \in Nat /\ n >= 1 /\ n <= c.target /\ v.step < n
      /\ v.step \in Nat /\ n \in ValidatedBy(c, n) /\ x = Advanced
      /\ x \in SftValidation /\ x.step = n /\ Scored(score, c, x) /\ UpTo(c, x, n)
      /\ (v = Unscored \/ score[n] < v.minimum =>
            /\ x.minimum = score[n]
            /\ \A i \in ValidatedBy(c, n - 1) : score[n] < score[i])
      /\ UpTo(c, v, n - 1) /\ Unvalidated(tuning) /\ tuning.at = "best"
  BY BeforeValidation DEF SaveSftBest, Unvalidated
<1>2. /\ folder' = f /\ tuning' = t /\ UNCHANGED <<score, shelf, sftCalls>>
  BY <1>1, Zenon DEF SaveSftBest, Put, Snap
<1>3. /\ folder \in SftFolder /\ tuning \in SftProcess /\ FolderOK(score, folder)
      /\ c \in SftConfigs /\ folder.config = c /\ s \in SftModel /\ v \in SftValidation
      /\ OnSchedule(score, c, s) /\ folder.metric \in Nat /\ folder.best.state.step \in Nat
      /\ folder.last.state.step \in Nat /\ tuning.final \in BOOLEAN
      /\ ModelOK(score, folder, tuning) /\ StageOK(tuning)
      /\ WrittenOK(score, folder, tuning)
  BY <1>1, WhileRunning
<1>4. x.minimum = score[n] /\ \A i \in ValidatedBy(c, n - 1) : score[n] < score[i]
  BY <1>1, <1>3 DEF ModelOK
<1>w. /\ folder.last.state.step <= n /\ folder.metric <= n /\ folder.report = NoSource
      /\ v.step < c.target \/ folder.metric = n
      /\ ~folder.foreign => /\ Covered(score, folder, v) /\ v.step <= folder.metric
                            /\ folder.best.state.step <= n
  BY <1>1, <1>3 DEF WrittenOK, Published, Finished
<1> HIDE DEF x
<1>5. s2 \in SftModel /\ s2.step = n /\ s2.fed = s.fed /\ s2.val = x
  BY <1>1, <1>3 DEF SftModel
<1> HIDE DEF s2
<1>6. b \in SftCheckpoint /\ b.config = c /\ b.state = s2 /\ b # NoSource
  <2>1. c \in SftConfigOrNone
    BY <1>3, SftConfigFields
  <2>2. b \in SftCheckpoint /\ b.config = c /\ b.state = s2
    BY <2>1, <1>5 DEF SftCheckpoint
  <2>3. b.state.step # 0
    BY <2>2, <1>1, <1>5
  <2> QED BY <2>2, <2>3, NoSourceFields
<1>7. IsExact(score, b)
  <2>1. OnSchedule(score, c, s2) /\ SettledAt(c, s2)
    BY <1>1, <1>3, <1>5, Validated
  <2> QED BY <2>1, <1>1, <1>3, <1>5, <1>6 DEF IsExact
<1> HIDE DEF b
<1>8. /\ f \in SftFolder /\ f.metric = folder.metric /\ f.config = c
      /\ f.periodic = folder.periodic /\ f.best = b /\ f.last = folder.last
      /\ f.registered = folder.registered /\ f.samples = folder.samples
      /\ f.report = folder.report /\ f.reported = folder.reported
      /\ f.foreign = folder.foreign
  BY <1>3, <1>6 DEF SftFolder
<1> HIDE DEF f
<1>9. Saved(f) \subseteq Saved(folder) \cup {b}
  BY <1>8 DEF Saved
<1>10. f.best.state.step = n
  BY <1>5, <1>6, <1>8
<1>11. FolderOK(score, f)
  <2>1. \A d \in Saved(f) : IsExact(score, d) /\ d.config = f.config
    BY <1>3, <1>6, <1>7, <1>8, <1>9 DEF FolderOK
  <2>2. BestOK(score, f)
    BY <1>1, <1>4, <1>5, <1>6, <1>8 DEF BestOK
  <2>3. ASSUME ~f.foreign
        PROVE  /\ \A d \in f.periodic \cup {f.last} : d.state.val.step <= f.metric
               /\ \A d \in Saved(f) : Covered(score, f, d.state.val)
               /\ \A i \in ValidatedBy(f.config, f.best.state.step - 1) : i <= f.metric
    <3>1. /\ \A d \in folder.periodic \cup {folder.last} : d.state.val.step <= folder.metric
          /\ \A d \in Saved(folder) : Covered(score, folder, d.state.val)
      BY <2>3, <1>3, <1>8 DEF FolderOK, OwnOK
    <3>2. ASSUME NEW d \in Saved(folder) PROVE Covered(score, f, d.state.val)
      <4>1. d.state.val \in SftValidation
        BY <1>3, FolderTypes, CheckpointTypes
      <4>2. f.best.state.step >= folder.best.state.step
        BY <2>3, <1>1, <1>3, <1>8, <1>10, <1>w
      <4> QED BY <4>1, <4>2, <3>1, <1>3, <1>8, CoveredMore
    <3>3. Covered(score, f, b.state.val)
      <4>1. b.state.val = x /\ n <= f.best.state.step /\ n \in ValidatedBy(f.config, x.step)
        BY <1>1, <1>5, <1>6, <1>8, <1>10
      <4> QED BY <4>1, <1>4 DEF Covered
    <3>4. \A i \in ValidatedBy(c, n - 1) : i <= folder.metric
      <4> SUFFICES ASSUME NEW i \in ValidatedBy(c, n - 1) PROVE i <= folder.metric
        OBVIOUS
      <4>1. i \in Nat /\ i <= v.step
        BY <1>1 DEF UpTo, ValidatedBy
      <4> QED BY <4>1, <2>3, <1>1, <1>3, <1>8, <1>w
    <3> QED BY <3>1, <3>2, <3>3, <3>4, <1>8, <1>9, <1>10
  <2>4. OwnOK(score, f)
    BY <2>3, Zenon DEF OwnOK
  <2>5. ListedOK(f)
    <3> SUFFICES ASSUME NEW e \in folder.registered
                 PROVE  CASE e[1] = "periodic" -> \E d \in f.periodic : d.state.step = e[2]
                          [] e[1] = "best"     -> f.foreign \/ f.best.state.step >= e[2]
                          [] e[1] = "latest"   -> f.last.state.step >= e[2]
                          [] OTHER -> f.report # NoSource /\ f.report.state.step = e[2]
      BY <1>8 DEF ListedOK
    <3>1. e[2] \in Nat
      BY <1>3, FolderTypes
    <3>2. e[1] = "best" => folder.foreign \/ folder.best.state.step >= e[2]
      BY <1>3 DEF FolderOK, ListedOK
    <3>3. e[1] = "best" => f.foreign \/ f.best.state.step >= e[2]
      BY <3>1, <3>2, <1>1, <1>3, <1>8, <1>10, <1>w
    <3> QED BY <3>3, <1>3, <1>8 DEF FolderOK, ListedOK
  <2>6. ReportOK(f)
    BY <1>8, <1>w DEF ReportOK
  <2> QED BY <2>1, <2>2, <2>4, <2>5, <2>6 DEF FolderOK
<1>12. "best!" \in SftAts
  BY DEF SftAts
<1>13. t.at = "best!" /\ t.config = c /\ t.state = s /\ t.final = tuning.final
  BY <1>3, <1>12, AtMoves
<1> HIDE DEF t
<1>14. StageOK(t)
  BY <1>1, <1>3, <1>13 DEF StageOK, Finished, Published
<1>15. WrittenOK(score, f, t)
  <2>1. ~f.foreign => Covered(score, f, v)
    <3>1. ~f.foreign => f.best.state.step >= folder.best.state.step
      BY <1>1, <1>3, <1>8, <1>10, <1>w
    <3> QED BY <3>1, <1>3, <1>8, <1>w, CoveredMore
  <2> QED BY <2>1, <1>8, <1>10, <1>13, <1>w DEF WrittenOK, Finished, Published
<1> QED BY <1>1, <1>2, <1>3, <1>8, <1>11, <1>12, <1>14, <1>15, OnlyWrites DEF t

LEMMA TrackSftValidationOK == ASSUME SftInv, TrackSftValidation PROVE SftInv'
<1> DEFINE c == tuning.config
           n == tuning.state.step
           v == tuning.state.val
           f == [folder EXCEPT !.metric = n]
           a == IF tuning.final THEN "last" ELSE "save?"
           t == [tuning EXCEPT !.at = a]
<1>1. /\ tuning.at = "track" /\ folder' = f /\ tuning' = t
      /\ UNCHANGED <<score, shelf, sftCalls>>
  BY Zenon DEF TrackSftValidation, Put
<1>2. Running(tuning) /\ ~Unvalidated(tuning)
  BY <1>1 DEF Running, Unvalidated
<1>3. /\ folder \in SftFolder /\ tuning \in SftProcess /\ FolderOK(score, folder)
      /\ c \in SftConfigs /\ folder.config = c /\ n \in Nat /\ v \in SftValidation
      /\ v.step \in Nat /\ folder.metric \in Nat /\ tuning.final \in BOOLEAN
      /\ ModelOK(score, folder, tuning) /\ StageOK(tuning)
      /\ WrittenOK(score, folder, tuning)
  BY <1>2, WhileRunning
<1>4. n >= 1 /\ v.step = n /\ SettledAt(c, tuning.state)
  BY <1>1, <1>2, <1>3 DEF ModelOK
<1>w. /\ folder.last.state.step <= n /\ folder.metric <= n /\ folder.report = NoSource
      /\ ~folder.foreign => Covered(score, folder, v)
  BY <1>1, <1>2, <1>3 DEF WrittenOK, Published, Finished
<1>5. a \in SftAts /\ a \in {"last", "save?"} /\ (a = "last" <=> tuning.final)
  BY <1>3 DEF SftAts
<1>6. /\ f \in SftFolder /\ f.metric = n /\ f.config = c
      /\ f.periodic = folder.periodic /\ f.best = folder.best /\ f.last = folder.last
      /\ f.registered = folder.registered /\ f.samples = folder.samples
      /\ f.report = folder.report /\ f.reported = folder.reported
      /\ f.foreign = folder.foreign
  BY <1>3 DEF SftFolder
<1> HIDE DEF f, a
<1>7. t.at = a /\ t.config = c /\ t.state = tuning.state /\ t.final = tuning.final
  BY <1>3, <1>5, AtMoves
<1> HIDE DEF t
<1>8. FolderOK(score, f)
  <2>1. ListedOK(f) /\ ReportOK(f) /\ f.metric >= folder.metric
    BY <1>3, <1>6, <1>w DEF FolderOK, ListedOK, ReportOK
  <2> QED BY <2>1, <1>3, <1>6, FolderKept
<1>9. StageOK(t)
  BY <1>2, <1>3, <1>4, <1>5, <1>7 DEF StageOK, Finished, Published
<1>10. WrittenOK(score, f, t)
  BY <1>3, <1>4, <1>5, <1>6, <1>7, <1>w DEF WrittenOK, Finished, Published, Covered
<1> QED BY <1>1, <1>2, <1>3, <1>4, <1>5, <1>6, <1>8, <1>9, <1>10, OnlyWrites DEF t

-----------------------------------------------------------------------------
(* Checkpoints.                                                            *)

\* What a process that has no validation pending saves.
LEMMA SnapIsExact ==
  ASSUME SftInv, Running(tuning), ~Unvalidated(tuning), tuning.at # "train"
  PROVE  LET b == Snap(tuning.state) IN
         /\ b \in SftCheckpoint /\ b.config = tuning.config /\ b.state = tuning.state
         /\ b # NoSource /\ IsExact(score, b)
<1> DEFINE c == tuning.config
           s == tuning.state
           b == [config |-> c, state |-> s]
<1>1. /\ c \in SftConfigs /\ s \in SftModel /\ s.step \in Nat /\ OnSchedule(score, c, s)
      /\ ModelOK(score, folder, tuning)
  BY WhileRunning
<1>2. s.step >= 1 /\ SettledAt(c, s)
  BY <1>1 DEF ModelOK
<1>3. b \in SftCheckpoint /\ b.config = c /\ b.state = s
  BY <1>1, SftConfigFields DEF SftCheckpoint
<1> HIDE DEF b
<1>4. b # NoSource
  <2>1. b.state.step # 0
    BY <1>1, <1>2, <1>3
  <2> QED BY <2>1, NoSourceFields
<1>5. IsExact(score, b)
  BY <1>1, <1>2, <1>3 DEF IsExact
<1>6. b = Snap(tuning.state)
  BY DEF b, Snap
<1> QED BY <1>3, <1>4, <1>5, <1>6

LEMMA SaveSftPeriodicOK == ASSUME SftInv, SaveSftPeriodic PROVE SftInv'
<1> DEFINE c == tuning.config
           n == tuning.state.step
           v == tuning.state.val
           b == Snap(tuning.state)
           kept == {d \in folder.periodic : d.state.step # n}
           f == [folder EXCEPT !.periodic = kept \cup {b}]
           t1 == [tuning EXCEPT !.at = "periodic!"]
           t2 == [tuning EXCEPT !.at = "train"]
<1>1. /\ tuning.at = "save?" /\ UNCHANGED <<score, shelf, sftCalls>>
      /\ \/ folder' = f /\ tuning' = t1
         \/ folder' = folder /\ tuning' = t2
  BY Zenon DEF SaveSftPeriodic, Put
<1>2. Running(tuning) /\ ~Unvalidated(tuning)
  BY <1>1 DEF Running, Unvalidated
<1>3. /\ folder \in SftFolder /\ tuning \in SftProcess /\ FolderOK(score, folder)
      /\ c \in SftConfigs /\ folder.config = c /\ n \in Nat /\ v \in SftValidation
      /\ v.step \in Nat /\ folder.metric \in Nat /\ tuning.final \in BOOLEAN
      /\ ModelOK(score, folder, tuning) /\ StageOK(tuning)
      /\ WrittenOK(score, folder, tuning)
  BY <1>2, WhileRunning
<1>4. n >= 1 /\ SettledAt(c, tuning.state) /\ ~tuning.final
  BY <1>1, <1>2, <1>3 DEF ModelOK, StageOK
<1>w. /\ folder.last.state.step <= n /\ folder.metric <= n /\ folder.report = NoSource
      /\ v.step < c.target \/ folder.metric = n
      /\ ~folder.foreign => Covered(score, folder, v) /\ v.step <= folder.metric
  BY <1>1, <1>2, <1>3 DEF WrittenOK, Published, Finished
<1>5. /\ b \in SftCheckpoint /\ b.config = c /\ b.state = tuning.state /\ b # NoSource
      /\ IsExact(score, b)
  BY <1>1, <1>2, SnapIsExact
<1>6. {"periodic!", "train"} \subseteq SftAts
  BY DEF SftAts
<1>7. /\ t1.at = "periodic!" /\ t1.config = c /\ t1.state = tuning.state
      /\ t1.final = tuning.final
      /\ t2.at = "train" /\ t2.config = c /\ t2.state = tuning.state
      /\ t2.final = tuning.final
  BY <1>3, <1>6, AtMoves
<1> HIDE DEF b
<1>8. CASE folder' = folder /\ tuning' = t2
  <2>1. StageOK(t2)
    BY <1>3, <1>4, <1>7 DEF StageOK, Finished, Published
  <2>2. WrittenOK(score, folder, t2)
    BY <1>4, <1>7, <1>w DEF WrittenOK, Finished, Published
  <2> HIDE DEF t2
  <2> QED BY <2>1, <2>2, <1>1, <1>2, <1>3, <1>4, <1>6, <1>8, OnlyWrites DEF t2
<1>9. CASE folder' = f /\ tuning' = t1
  <2> HIDE DEF kept
  <2>1. kept \subseteq folder.periodic /\ \A d \in folder.periodic : d.state.step # n => d \in kept
    BY DEF kept
  <2> DEFINE new == kept \cup {b}
  <2>2. new \in SUBSET SftCheckpoint
    BY <2>1, <1>3, <1>5, FolderTypes
  <2>3. new \subseteq folder.periodic \cup {b} /\ b \in new
    BY <2>1
  <2>4. \A d \in folder.periodic : \E e \in new : e.state.step = d.state.step
    BY <2>1, <1>5
  <2> HIDE DEF new
  <2>5. /\ f \in SftFolder /\ f.metric = folder.metric /\ f.config = c
        /\ f.periodic = new /\ f.best = folder.best /\ f.last = folder.last
        /\ f.registered = folder.registered /\ f.samples = folder.samples
        /\ f.report = folder.report /\ f.reported = folder.reported
        /\ f.foreign = folder.foreign
  <3>1. f = [folder EXCEPT !.periodic = new]
    BY DEF new
  <3> HIDE DEF f
  <3> QED BY <3>1, <2>2, <1>3 DEF SftFolder
  <2> HIDE DEF f
  <2>6. Saved(f) \subseteq Saved(folder) \cup {b}
    BY <2>3, <2>5 DEF Saved
  <2>7. FolderOK(score, f)
    <3>1. \A d \in Saved(f) : IsExact(score, d) /\ d.config = f.config
      BY <2>5, <2>6, <1>3, <1>5 DEF FolderOK
    <3>2. BestOK(score, f)
      BY <2>5, <1>3 DEF FolderOK, BestOK
    <3>3. OwnOK(score, f)
      <4>1. \A u : Covered(score, folder, u) => Covered(score, f, u)
        BY <2>5, <1>3 DEF Covered
      <4>2. b.state.val = v
        BY <1>5
      <4> QED BY <4>1, <4>2, <2>3, <2>5, <2>6, <1>3, <1>w DEF FolderOK, OwnOK
    <3>4. ListedOK(f)
      BY <2>4, <2>5, <1>3 DEF FolderOK, ListedOK
    <3>5. ReportOK(f)
      BY <2>5, <1>w DEF ReportOK
    <3> QED BY <3>1, <3>2, <3>3, <3>4, <3>5 DEF FolderOK
  <2>8. StageOK(t1)
    BY <1>3, <1>4, <1>7 DEF StageOK, Finished, Published
  <2>9. WrittenOK(score, f, t1)
    <3>1. \E d \in f.periodic : d.state.step = n
      BY <2>3, <2>5, <1>5
    <3>2. ~f.foreign => Covered(score, f, v) /\ v.step <= f.metric
      BY <2>5, <1>3, <1>w DEF Covered
    <3> QED BY <3>1, <3>2, <2>5, <1>4, <1>7, <1>w DEF WrittenOK, Finished, Published
  <2> HIDE DEF t1
  <2> QED BY <2>5, <2>7, <2>8, <2>9, <1>1, <1>2, <1>3, <1>4, <1>6, <1>9, OnlyWrites DEF t1
<1> QED BY <1>1, <1>8, <1>9

LEMMA SaveSftLatestOK == ASSUME SftInv, SaveSftLatest PROVE SftInv'
<1> DEFINE c == tuning.config
           n == tuning.state.step
           v == tuning.state.val
           b == Snap(tuning.state)
           f == [folder EXCEPT !.last = b]
           t == [tuning EXCEPT !.at = "last!"]
<1>1. /\ tuning.at = "last" /\ UNCHANGED <<score, shelf, sftCalls>>
      /\ folder' = f /\ tuning' = t
  BY Zenon DEF SaveSftLatest, Put
<1>2. Running(tuning) /\ ~Unvalidated(tuning)
  BY <1>1 DEF Running, Unvalidated
<1>3. /\ folder \in SftFolder /\ tuning \in SftProcess /\ FolderOK(score, folder)
      /\ c \in SftConfigs /\ folder.config = c /\ n \in Nat /\ v \in SftValidation
      /\ v.step \in Nat /\ folder.metric \in Nat /\ tuning.final \in BOOLEAN
      /\ folder.last.state.step \in Nat
      /\ ModelOK(score, folder, tuning) /\ StageOK(tuning)
      /\ WrittenOK(score, folder, tuning)
  BY <1>2, WhileRunning
<1>4. /\ n >= 1 /\ SettledAt(c, tuning.state)
      /\ tuning.final => n = c.target /\ v.step = n
  BY <1>1, <1>2, <1>3 DEF ModelOK, StageOK
<1>w. /\ folder.last.state.step <= n /\ folder.metric <= n /\ folder.report = NoSource
      /\ v.step < c.target \/ folder.metric = n
      /\ tuning.final => folder.metric = n
      /\ ~folder.foreign => Covered(score, folder, v) /\ v.step <= folder.metric
  BY <1>1, <1>2, <1>3 DEF WrittenOK, Published, Finished
<1>5. /\ b \in SftCheckpoint /\ b.config = c /\ b.state = tuning.state /\ b # NoSource
      /\ IsExact(score, b) /\ b = [config |-> c, state |-> tuning.state]
  BY <1>1, <1>2, SnapIsExact DEF Snap
<1>6. "last!" \in SftAts
  BY DEF SftAts
<1>7. t.at = "last!" /\ t.config = c /\ t.state = tuning.state /\ t.final = tuning.final
  BY <1>3, <1>6, AtMoves
<1> HIDE DEF b, t
<1>8. /\ f \in SftFolder /\ f.metric = folder.metric /\ f.config = c
      /\ f.periodic = folder.periodic /\ f.best = folder.best /\ f.last = b
      /\ f.registered = folder.registered /\ f.samples = folder.samples
      /\ f.report = folder.report /\ f.reported = folder.reported
      /\ f.foreign = folder.foreign
  BY <1>3, <1>5 DEF SftFolder
<1> HIDE DEF f
<1>9. Saved(f) \subseteq Saved(folder) \cup {b}
  BY <1>8 DEF Saved
<1>10. FolderOK(score, f)
  <2>1. \A d \in Saved(f) : IsExact(score, d) /\ d.config = f.config
    BY <1>3, <1>5, <1>8, <1>9 DEF FolderOK
  <2>2. BestOK(score, f)
    BY <1>3, <1>8 DEF FolderOK, BestOK
  <2>3. OwnOK(score, f)
    <3>1. \A u : Covered(score, folder, u) => Covered(score, f, u)
      BY <1>3, <1>8 DEF Covered
    <3>2. b.state.val = v
      BY <1>5
    <3> QED BY <3>1, <3>2, <1>3, <1>8, <1>9, <1>w DEF FolderOK, OwnOK
  <2>4. ListedOK(f)
    <3> SUFFICES ASSUME NEW e \in folder.registered
                 PROVE  CASE e[1] = "periodic" -> \E d \in f.periodic : d.state.step = e[2]
                          [] e[1] = "best"     -> f.foreign \/ f.best.state.step >= e[2]
                          [] e[1] = "latest"   -> f.last.state.step >= e[2]
                          [] OTHER -> f.report # NoSource /\ f.report.state.step = e[2]
      BY <1>8 DEF ListedOK
    <3>1. e[2] \in Nat
      BY <1>3, FolderTypes
    <3>2. e[1] = "latest" => folder.last.state.step >= e[2]
      BY <1>3 DEF FolderOK, ListedOK
    <3>3. e[1] = "latest" => f.last.state.step >= e[2]
      BY <3>1, <3>2, <1>3, <1>5, <1>8, <1>w
    <3> QED BY <3>3, <1>3, <1>8 DEF FolderOK, ListedOK
  <2>5. ReportOK(f)
    BY <1>8, <1>w DEF ReportOK
  <2> QED BY <2>1, <2>2, <2>3, <2>4, <2>5 DEF FolderOK
<1>11. StageOK(t)
  BY <1>2, <1>3, <1>4, <1>7 DEF StageOK, Finished, Published
<1>12. WrittenOK(score, f, t)
  <2>1. ~f.foreign => Covered(score, f, v) /\ v.step <= f.metric
    BY <1>3, <1>8, <1>w DEF Covered
  <2> QED BY <2>1, <1>3, <1>5, <1>7, <1>8, <1>w DEF WrittenOK, Finished, Published
<1> QED BY <1>1, <1>2, <1>3, <1>4, <1>6, <1>8, <1>10, <1>11, <1>12, OnlyWrites DEF t

\* The tracker's records.
LEMMA RegisteringOK ==
  ASSUME SftInv, Running(tuning), ~Unvalidated(tuning), tuning.at \notin {"train", "track"},
         NEW role \in SftRoles, NEW a \in SftAts, NEW t, t = [tuning EXCEPT !.at = a],
         CASE role = "periodic" ->
                \E c \in folder.periodic : c.state.step = tuning.state.step
           [] role = "best" ->
                folder.foreign \/ folder.best.state.step >= tuning.state.step
           [] role = "latest" -> folder.last.state.step >= tuning.state.step
           [] OTHER -> /\ folder.report # NoSource
                       /\ folder.report.state.step = tuning.state.step,
         Registering(role, a), StageOK(t), WrittenOK(score, folder, t),
         a \notin {"idle", "check", "log?", "validate", "best", "best!", "track"}
  PROVE  SftInv'
<1> DEFINE n == tuning.state.step
           f == [folder EXCEPT !.registered = @ \cup {<<role, n>>}]
<1>1. folder' = f /\ tuning' = t /\ UNCHANGED <<score, shelf, sftCalls>>
  BY Zenon DEF Registering, Put
<1>2. /\ folder \in SftFolder /\ FolderOK(score, folder) /\ n \in Nat
      /\ folder.metric \in Nat /\ ModelOK(score, folder, tuning)
  BY WhileRunning
<1>3. n >= 1 /\ SettledAt(tuning.config, tuning.state)
  BY <1>2 DEF ModelOK
<1>4. /\ f \in SftFolder /\ ListedOK(f) /\ f.config = folder.config
      /\ f.metric = folder.metric /\ f.periodic = folder.periodic /\ f.best = folder.best
      /\ f.last = folder.last /\ f.samples = folder.samples /\ f.report = folder.report
      /\ f.reported = folder.reported /\ f.foreign = folder.foreign
  <2>1. ListedOK(folder)
    BY <1>2 DEF FolderOK
  <2> QED BY <2>1, <1>2, Lists
<1> HIDE DEF f
<1>5. FolderOK(score, f)
  <2>1. ReportOK(f) /\ f.metric >= folder.metric
    BY <1>2, <1>4 DEF FolderOK, ReportOK
  <2> QED BY <2>1, <1>2, <1>4, FolderKept
<1>6. WrittenOK(score, f, t)
  BY <1>4 DEF WrittenOK, Covered
<1> QED BY <1>1, <1>2, <1>3, <1>4, <1>5, <1>6, OnlyWrites

LEMMA RegisterSftPeriodicOK == ASSUME SftInv, RegisterSftPeriodic PROVE SftInv'
<1> DEFINE t == [tuning EXCEPT !.at = "last"]
<1>1. tuning.at = "periodic!" /\ Registering("periodic", "last")
  BY DEF RegisterSftPeriodic
<1>2. Running(tuning) /\ ~Unvalidated(tuning)
  BY <1>1 DEF Running, Unvalidated
<1>3. /\ tuning \in SftProcess /\ StageOK(tuning) /\ WrittenOK(score, folder, tuning)
      /\ tuning.final \in BOOLEAN
  BY <1>2, WhileRunning
<1>4. "last" \in SftAts /\ "periodic" \in SftRoles
  BY DEF SftAts, SftRoles
<1>5. /\ t.at = "last" /\ t.config = tuning.config /\ t.state = tuning.state
      /\ t.final = tuning.final
  BY <1>3, <1>4, AtMoves
<1> HIDE DEF t
<1>6. \E d \in folder.periodic : d.state.step = tuning.state.step
  BY <1>1, <1>2, <1>3 DEF WrittenOK
<1>7. StageOK(t) /\ WrittenOK(score, folder, t)
  BY <1>1, <1>2, <1>3, <1>5 DEF StageOK, WrittenOK, Finished, Published
<1> QED BY <1>1, <1>2, <1>4, <1>6, <1>7, RegisteringOK DEF t

LEMMA RegisterSftLatestOK == ASSUME SftInv, RegisterSftLatest PROVE SftInv'
<1> DEFINE a == IF tuning.final THEN "sample" ELSE "train"
           t == [tuning EXCEPT !.at = a]
<1>1. tuning.at = "last!" /\ Registering("latest", a)
  BY DEF RegisterSftLatest
<1>2. Running(tuning) /\ ~Unvalidated(tuning)
  BY <1>1 DEF Running, Unvalidated
<1>3. /\ tuning \in SftProcess /\ StageOK(tuning) /\ WrittenOK(score, folder, tuning)
      /\ tuning.final \in BOOLEAN /\ tuning.state.step \in Nat
  BY <1>2, WhileRunning
<1>4. a \in SftAts /\ a \in {"sample", "train"} /\ (a = "sample" <=> tuning.final)
      /\ "latest" \in SftRoles
  BY <1>3 DEF SftAts, SftRoles
<1> HIDE DEF a
<1>5. /\ t.at = a /\ t.config = tuning.config /\ t.state = tuning.state
      /\ t.final = tuning.final
  BY <1>3, <1>4, AtMoves
<1> HIDE DEF t
<1>6. folder.last.state.step >= tuning.state.step
  <2>1. folder.last = [config |-> tuning.config, state |-> tuning.state]
    BY <1>1, <1>2, <1>3 DEF WrittenOK
  <2> QED BY <2>1, <1>3
<1>7. StageOK(t)
  BY <1>1, <1>2, <1>3, <1>4, <1>5 DEF StageOK, Finished, Published
<1>8. WrittenOK(score, folder, t)
  BY <1>1, <1>2, <1>3, <1>4, <1>5 DEF WrittenOK, Finished, Published
<1> QED BY <1>1, <1>2, <1>4, <1>6, <1>7, <1>8, RegisteringOK DEF t

-----------------------------------------------------------------------------
(* The end of a run.                                                       *)

LEMMA FinalizeSftOK == ASSUME SftInv, FinalizeSft PROVE SftInv'
<1> DEFINE c == tuning.config
           n == tuning.state.step
           v == tuning.state.val
           a == IF v.step # n THEN "validate" ELSE "last"
           t == [tuning EXCEPT !.final = TRUE, !.at = a]
<1>1. /\ tuning.at = "train" /\ n = c.target /\ tuning' = t
      /\ UNCHANGED <<score, folder, shelf, sftCalls>>
  BY Zenon DEF FinalizeSft, AtTarget
<1>2. Running(tuning) /\ ~Unvalidated(tuning)
  BY <1>1 DEF Running, Unvalidated
<1>3. /\ folder \in SftFolder /\ tuning \in SftProcess /\ FolderOK(score, folder)
      /\ c \in SftConfigs /\ folder.config = c /\ n \in Nat /\ v \in SftValidation
      /\ v.step \in Nat /\ OnSchedule(score, c, tuning.state)
      /\ folder.best.state.step \in Nat /\ folder.best \in SftCheckpoint
      /\ ModelOK(score, folder, tuning) /\ StageOK(tuning)
      /\ WrittenOK(score, folder, tuning)
  BY <1>2, WhileRunning, FolderTypes
<1>4. n >= 1 /\ v.step <= n /\ SettledAt(c, tuning.state) /\ n \in ValidatedBy(c, n)
  <2>1. n >= 1
    BY <1>1, <1>3, SftConfigFields
  <2> QED BY <2>1, <1>1, <1>2, <1>3, ValidatedMeans DEF ModelOK, OnSchedule
<1>w. /\ folder.last.state.step <= n /\ folder.metric <= n /\ folder.report = NoSource
      /\ v.step < c.target \/ folder.metric = n
      /\ ~folder.foreign => Covered(score, folder, v) /\ v.step <= folder.metric
  BY <1>1, <1>2, <1>3 DEF WrittenOK, Published, Finished
<1>5. a \in SftAts /\ a \in {"validate", "last"} /\ (a = "last" <=> v.step = n)
  BY DEF SftAts
<1> HIDE DEF a
<1>6. /\ t \in SftProcess /\ t.at = a /\ t.config = c /\ t.state = tuning.state
      /\ t.final = TRUE
  BY <1>3, <1>5 DEF SftProcess
<1> HIDE DEF t
<1>7. Running(t) /\ (Unvalidated(t) <=> a = "validate")
  BY <1>5, <1>6 DEF Running, Unvalidated
<1>8. ModelOK(score, folder, t)
  BY <1>2, <1>3, <1>4, <1>5, <1>6, <1>7, ModelKept
<1>9. StageOK(t)
  BY <1>1, <1>5, <1>6 DEF StageOK, Finished, Published
<1>10. folder.best.state.step <= n
  <2>1. CASE folder.best = NoSource
    BY <2>1, <1>3, NoSourceFields
  <2>2. CASE folder.best # NoSource
    <3>1. IsExact(score, folder.best) /\ folder.best.config = c
      BY <2>2, <1>3 DEF Saved, FolderOK
    <3> QED BY <3>1, <1>1 DEF IsExact, OnSchedule
  <2> QED BY <2>1, <2>2
<1>11. WrittenOK(score, folder, t)
  BY <1>1, <1>3, <1>4, <1>5, <1>6, <1>10, <1>w DEF WrittenOK, Finished, Published
<1>12. CommandOK(folder, t, shelf)
  BY <1>3, <1>6, <1>7, StillRunning
<1> QED BY <1>1, <1>3, <1>6, <1>8, <1>9, <1>11, <1>12, SftGoes

\* What is true of a run past its last checkpoint.
LEMMA PastLast ==
  ASSUME SftInv, tuning.at \in Finished
  PROVE  LET c == tuning.config
             s == tuning.state
         IN  /\ Running(tuning) /\ ~Unvalidated(tuning)
             /\ tuning.at \notin {"train", "track", "idle", "check"}
             /\ folder \in SftFolder /\ tuning \in SftProcess /\ FolderOK(score, folder)
             /\ c \in SftConfigs /\ folder.config = c /\ s.step \in Nat /\ s.step >= 1
             /\ s.step = c.target /\ s.val.step = s.step /\ SettledAt(c, s)
             /\ tuning.final /\ folder.metric = s.step /\ folder.last # NoSource
             /\ folder.last.state = s
             /\ folder.last = [config |-> c, state |-> s]
             /\ ModelOK(score, folder, tuning) /\ StageOK(tuning)
             /\ WrittenOK(score, folder, tuning)
<1> DEFINE c == tuning.config
           s == tuning.state
<1>1. /\ Running(tuning) /\ ~Unvalidated(tuning)
      /\ tuning.at \notin {"train", "track", "idle", "check"}
  BY DEF Running, Unvalidated, Finished, Published
<1>2. /\ folder \in SftFolder /\ tuning \in SftProcess /\ FolderOK(score, folder)
      /\ c \in SftConfigs /\ folder.config = c /\ s.step \in Nat
      /\ ModelOK(score, folder, tuning) /\ StageOK(tuning)
      /\ WrittenOK(score, folder, tuning)
  BY <1>1, WhileRunning
<1>3. s.step >= 1 /\ SettledAt(c, s)
  BY <1>1, <1>2 DEF ModelOK
<1>4. tuning.final /\ s.step = c.target /\ s.val.step = s.step
  BY <1>1, <1>2 DEF StageOK
<1>5. folder.metric = s.step /\ folder.last = [config |-> c, state |-> s]
  BY <1>1, <1>2, <1>4 DEF WrittenOK
<1>6. folder.last # NoSource
  BY <1>2, <1>3, <1>5, NoSourceFields
<1> QED BY <1>1, <1>2, <1>3, <1>4, <1>5, <1>6

LEMMA WriteSftSamplesOK == ASSUME SftInv, WriteSamples PROVE SftInv'
<1> DEFINE c == tuning.config
           n == tuning.state.step
           f == [folder EXCEPT !.samples = folder.last]
           t == [tuning EXCEPT !.at = "report"]
<1>1. /\ tuning.at = "sample" /\ UNCHANGED <<score, shelf, sftCalls>>
      /\ folder' = f /\ tuning' = t
  BY Zenon DEF WriteSamples, Put
<1>2. tuning.at \in Finished
  BY <1>1 DEF Finished
<1>3. /\ Running(tuning) /\ folder \in SftFolder /\ tuning \in SftProcess
      /\ FolderOK(score, folder) /\ n >= 1 /\ SettledAt(c, tuning.state)
      /\ folder.config = c /\ tuning.final /\ n = c.target /\ tuning.state.val.step = n
      /\ StageOK(tuning) /\ WrittenOK(score, folder, tuning)
      /\ ModelOK(score, folder, tuning)
  BY <1>2, PastLast
<1>w. folder.report = NoSource
  BY <1>1, <1>3 DEF WrittenOK, Published
<1>4. "report" \in SftAts
  BY DEF SftAts
<1>5. t.at = "report" /\ t.config = c /\ t.state = tuning.state /\ t.final = tuning.final
  BY <1>3, <1>4, AtMoves
<1> HIDE DEF t
<1>6. /\ f \in SftFolder /\ f.metric = folder.metric /\ f.config = folder.config
      /\ f.periodic = folder.periodic /\ f.best = folder.best /\ f.last = folder.last
      /\ f.registered = folder.registered /\ f.samples = folder.last
      /\ f.report = folder.report /\ f.reported = folder.reported
      /\ f.foreign = folder.foreign
  BY <1>3, FolderTypes DEF SftFolder
<1> HIDE DEF f
<1>7. FolderOK(score, f)
  <2>1. ListedOK(f) /\ ReportOK(f) /\ f.metric >= folder.metric
    BY <1>3, <1>6, <1>w, FolderTypes DEF FolderOK, ListedOK, ReportOK
  <2> QED BY <2>1, <1>3, <1>6, FolderKept
<1>8. StageOK(t)
  BY <1>3, <1>5 DEF StageOK, Finished, Published
<1>9. WrittenOK(score, f, t)
  BY <1>1, <1>2, <1>3, <1>5, <1>6, <1>w DEF WrittenOK, Finished, Published, Covered
<1> QED BY <1>1, <1>3, <1>4, <1>6, <1>7, <1>8, <1>9, OnlyWrites DEF t

LEMMA WriteSftReportOK == ASSUME SftInv, WriteReport PROVE SftInv'
<1> DEFINE c == tuning.config
           n == tuning.state.step
           v == tuning.state.val
           f == [folder EXCEPT !.report = folder.last, !.reported = v]
           t == [tuning EXCEPT !.at = "report!"]
<1>1. /\ tuning.at = "report" /\ UNCHANGED <<score, shelf, sftCalls>>
      /\ folder' = f /\ tuning' = t
  BY Zenon DEF WriteReport, Put
<1>2. tuning.at \in Finished
  BY <1>1 DEF Finished
<1>3. /\ Running(tuning) /\ folder \in SftFolder /\ tuning \in SftProcess
      /\ FolderOK(score, folder) /\ n >= 1 /\ SettledAt(c, tuning.state)
      /\ folder.config = c /\ tuning.final /\ n = c.target /\ v.step = n
      /\ folder.metric = n /\ folder.last # NoSource /\ folder.last.state = tuning.state
      /\ StageOK(tuning) /\ WrittenOK(score, folder, tuning)
      /\ ModelOK(score, folder, tuning)
  BY <1>2, PastLast
<1>w. folder.report = NoSource /\ folder.samples = folder.last
  BY <1>1, <1>3 DEF WrittenOK, Published
<1>4. "report!" \in SftAts
  BY DEF SftAts
<1>5. t.at = "report!" /\ t.config = c /\ t.state = tuning.state /\ t.final = tuning.final
  BY <1>3, <1>4, AtMoves
<1> HIDE DEF t
<1>6. /\ f \in SftFolder /\ f.metric = folder.metric /\ f.config = folder.config
      /\ f.periodic = folder.periodic /\ f.best = folder.best /\ f.last = folder.last
      /\ f.registered = folder.registered /\ f.samples = folder.samples
      /\ f.report = folder.last /\ f.reported = v
      /\ f.foreign = folder.foreign
  BY <1>3, FolderTypes, ProcessTypes DEF SftFolder
<1> HIDE DEF f
<1>7. FolderOK(score, f)
  <2>1. ListedOK(f)
    BY <1>3, <1>6, <1>w DEF FolderOK, ListedOK
  <2>2. ReportOK(f) /\ f.metric >= folder.metric
    BY <1>3, <1>6, <1>w, FolderTypes DEF ReportOK
  <2> QED BY <2>1, <2>2, <1>3, <1>6, FolderKept
<1>8. StageOK(t)
  BY <1>3, <1>5 DEF StageOK, Finished, Published
<1>9. WrittenOK(score, f, t)
  BY <1>1, <1>2, <1>3, <1>5, <1>6, <1>w DEF WrittenOK, Finished, Published, Covered
<1> QED BY <1>1, <1>3, <1>4, <1>6, <1>7, <1>8, <1>9, OnlyWrites DEF t

\* The records of the report and of the samples.
LEMMA RegisterEvaluationOK ==
  ASSUME SftInv,
         \/ RegisterReport
         \/ RegisterSamples
  PROVE  SftInv'
<1>1. PICK role \in {"report", "samples"}, a \in {"samples!", "done"} :
        tuning.at \in {"report!", "samples!"} /\ Registering(role, a)
  BY Zenon DEF RegisterReport, RegisterSamples
<1> DEFINE t == [tuning EXCEPT !.at = a]
<1>2. tuning.at \in Finished /\ tuning.at \in Published
  BY <1>1 DEF Finished, Published
<1>3. /\ Running(tuning) /\ ~Unvalidated(tuning) /\ tuning \in SftProcess
      /\ tuning.at \notin {"train", "track"} /\ FolderOK(score, folder)
      /\ tuning.final /\ tuning.state.step = tuning.config.target
      /\ tuning.state.val.step = tuning.state.step /\ folder.last.state = tuning.state
      /\ StageOK(tuning) /\ WrittenOK(score, folder, tuning)
  BY <1>2, PastLast
<1>4. a \in SftAts /\ role \in SftRoles /\ role \notin {"periodic", "best", "latest"}
      /\ a \in Published
  BY <1>1 DEF SftAts, SftRoles, Published
<1>5. t.at = a /\ t.config = tuning.config /\ t.state = tuning.state /\ t.final = tuning.final
  BY <1>3, <1>4, AtMoves
<1> HIDE DEF t
<1>6. folder.report # NoSource /\ folder.report = folder.last
  BY <1>2, <1>3 DEF WrittenOK, FolderOK, ReportOK
<1>7. StageOK(t)
  BY <1>1, <1>3, <1>5 DEF StageOK, Finished, Published
<1>8. WrittenOK(score, folder, t)
  BY <1>1, <1>2, <1>3, <1>5, <1>6 DEF WrittenOK, Finished, Published
<1>9. CASE role = "report"
  BY <1>1, <1>3, <1>4, <1>6, <1>7, <1>8, <1>9, RegisteringOK DEF t
<1>10. CASE role = "samples"
  BY <1>1, <1>3, <1>4, <1>6, <1>7, <1>8, <1>10, RegisteringOK DEF t
<1> QED BY <1>9, <1>10

\* A process that ends or is killed: at most the last line is incomplete.
LEMMA ParkedFields ==
  /\ Parked \in SftProcess /\ Parked.at = "idle" /\ Parked.final = FALSE
  /\ \A f, sh, z : CommandOK(f, Parked, sh) /\ ModelOK(z, f, Parked)
                   /\ StageOK(Parked) /\ WrittenOK(z, f, Parked)
<1> DEFINE zero == 0
           u == Untuned(zero)
<1>1. zero \in SftBases \cup {0}
  OBVIOUS
<1>2. Parked = [at |-> "idle", config |-> NoConfig, source |-> NoSource, state |-> u,
                final |-> FALSE]
  BY DEF Parked, NoConfig
<1> HIDE DEF zero, u
<1>3. u \in SftModel
  BY <1>1, UntunedFields DEF u
<1>4. Parked \in SftProcess /\ Parked.at = "idle" /\ Parked.final = FALSE
  BY <1>2, <1>3, NoSourceFields DEF SftProcess, SftAts
<1>5. ~Running(Parked)
  BY <1>4 DEF Running
<1>6. \A f, sh, z : CommandOK(f, Parked, sh) /\ ModelOK(z, f, Parked)
                    /\ StageOK(Parked) /\ WrittenOK(z, f, Parked)
  BY <1>4, <1>5 DEF CommandOK, ModelOK, StageOK, WrittenOK
<1> QED BY <1>4, <1>6

LEMMA LeaveOK == ASSUME SftInv, FinishSft \/ StopSft PROVE SftInv'
<1>1. PICK torn \in BOOLEAN : /\ folder' = [folder EXCEPT !.torn = torn] /\ tuning' = Parked
                              /\ UNCHANGED <<score, shelf, sftCalls>>
  <2>1. folder \in SftFolder
    BY DEF SftInv, SftTypeOK
  <2>2. CASE FinishSft
    <3>1. folder' = folder /\ tuning' = Parked /\ UNCHANGED <<score, shelf, sftCalls>>
      BY <2>2, Zenon DEF FinishSft, Leave
    <3>2. folder = [folder EXCEPT !.torn = folder.torn] /\ folder.torn \in BOOLEAN
      BY <2>1 DEF SftFolder
    <3> QED BY <3>1, <3>2
  <2>3. CASE StopSft
    <3>1. PICK torn \in {FALSE, tuning.at \in AppendingAt} :
            Leave([folder EXCEPT !.torn = torn])
      BY <2>3, Zenon DEF StopSft
    <3>2. torn \in BOOLEAN
      <4>1. CASE torn = FALSE
        BY <4>1
      <4>2. CASE torn = (tuning.at \in AppendingAt)
        <5> DEFINE p == tuning.at \in AppendingAt
        <5>1. p \in BOOLEAN
          OBVIOUS
        <5> HIDE DEF p
        <5> QED BY <4>2, <5>1 DEF p
      <4> QED BY <4>1, <4>2
    <3> QED BY <3>1, <3>2, Zenon DEF Leave
  <2> QED BY <2>2, <2>3
<1> DEFINE f == [folder EXCEPT !.torn = torn]
<1>2. folder \in SftFolder /\ FolderOK(score, folder)
  BY DEF SftInv, SftTypeOK, SftInvOf
<1>3. /\ f \in SftFolder /\ f.metric = folder.metric /\ f.config = folder.config
      /\ f.periodic = folder.periodic /\ f.best = folder.best /\ f.last = folder.last
      /\ f.registered = folder.registered /\ f.samples = folder.samples
      /\ f.report = folder.report /\ f.reported = folder.reported
      /\ f.foreign = folder.foreign
  BY <1>2 DEF SftFolder
<1>4. folder' = f
  BY <1>1
<1> HIDE DEF f
<1>5. FolderOK(score, f)
  <2>1. ListedOK(f) /\ ReportOK(f) /\ f.metric >= folder.metric
    BY <1>2, <1>3, FolderTypes DEF FolderOK, ListedOK, ReportOK
  <2> QED BY <2>1, <1>2, <1>3, FolderKept
<1> QED BY <1>1, <1>3, <1>4, <1>5, ParkedFields, SftGoes

-----------------------------------------------------------------------------
(* Commands.                                                               *)

\* Nothing is validated before the first step.
LEMMA NothingValidated ==
  ASSUME NEW c, NEW n \in Int, n <= 0
  PROVE  ValidatedBy(c, n) = {}
BY DEF ValidatedBy

\* A directory without checkpoints.
LEMMA EmptyOK ==
  ASSUME NEW z, NEW f \in SftFolder, Saved(f) = {},
         \A c \in f.periodic \cup {f.last} : c.state.val.step <= f.metric,
         ListedOK(f), f.report = NoSource
  PROVE  FolderOK(z, f)
<1>1. f.best = NoSource /\ f.best.state.step = 0
  BY NoSourceFields DEF Saved
<1>2. ValidatedBy(f.config, f.best.state.step - 1) = {}
  BY <1>1, NothingValidated
<1> QED BY <1>1, <1>2 DEF FolderOK, BestOK, OwnOK, ReportOK

LEMMA EmptyFolderFields ==
  /\ EmptyFolder \in SftFolder /\ EmptyFolder.config = NoConfig
  /\ EmptyFolder.periodic = {} /\ EmptyFolder.best = NoSource
  /\ EmptyFolder.last = NoSource /\ EmptyFolder.registered = {}
  /\ EmptyFolder.report = NoSource /\ EmptyFolder.metric = 0
<1> DEFINE zero == 0
<1>1. zero \in Nat /\ {} \in SUBSET (SftRoles \X Nat) /\ {} \in SUBSET SftCheckpoint
  OBVIOUS
<1>2. NoSource.config = NoConfig
  BY DEF NoConfig
<1> HIDE DEF zero
<1>3. EmptyFolder = [config |-> NoConfig, metric |-> zero, torn |-> FALSE,
                     registered |-> {}, periodic |-> {}, best |-> NoSource,
                     last |-> NoSource, samples |-> NoSource, report |-> NoSource,
                     reported |-> Unscored, foreign |-> FALSE]
  BY <1>2, Zenon DEF EmptyFolder, zero
<1>4. /\ EmptyFolder \in SftFolder /\ EmptyFolder.config = NoConfig
      /\ EmptyFolder.periodic = {} /\ EmptyFolder.best = NoSource
      /\ EmptyFolder.last = NoSource /\ EmptyFolder.registered = {}
      /\ EmptyFolder.report = NoSource /\ EmptyFolder.metric = zero
  BY <1>1, <1>3, NoSourceFields DEF SftFolder
<1> QED BY <1>4 DEF zero

\* The directory of a command: a new one, or one of the same configuration.
LEMMA CommandFolder ==
  ASSUME NEW z, NEW f \in SftFolder, NEW f2, NEW config \in SftConfigs, FolderOK(z, f),
         \/ f2 = [EmptyFolder EXCEPT !.config = config]
         \/ f2 = [f EXCEPT !.config = config] /\ f.config \in {NoConfig, config}
  PROVE  f2 \in SftFolder /\ f2.config = config /\ FolderOK(z, f2)
<1>1. config \in SftConfigOrNone /\ config # NoConfig
  BY SftConfigFields
<1>2. CASE f2 = [EmptyFolder EXCEPT !.config = config]
  <2> DEFINE e == EmptyFolder
  <2>1. /\ e \in SftFolder /\ e.periodic = {} /\ e.best = NoSource /\ e.last = NoSource
        /\ e.registered = {} /\ e.report = NoSource /\ e.metric = 0
    BY EmptyFolderFields
  <2> HIDE DEF e
  <2>2. /\ f2 \in SftFolder /\ f2.config = config /\ f2.periodic = {} /\ f2.best = NoSource
        /\ f2.last = NoSource /\ f2.registered = {} /\ f2.report = NoSource
        /\ f2.metric = 0
    <3>1. f2 = [e EXCEPT !.config = config]
      BY <1>2 DEF e
    <3> QED BY <3>1, <2>1, <1>1 DEF SftFolder
  <2>3. Saved(f2) = {} /\ ListedOK(f2)
    BY <2>2 DEF Saved, ListedOK
  <2>4. \A c \in f2.periodic \cup {f2.last} : c.state.val.step <= f2.metric
    BY <2>2, NoSourceFields
  <2> QED BY <2>2, <2>3, <2>4, EmptyOK
<1>3. CASE f2 = [f EXCEPT !.config = config] /\ f.config \in {NoConfig, config}
  <2>1. /\ f2 \in SftFolder /\ f2.metric = f.metric /\ f2.config = config
        /\ f2.periodic = f.periodic /\ f2.best = f.best /\ f2.last = f.last
        /\ f2.registered = f.registered /\ f2.samples = f.samples
        /\ f2.report = f.report /\ f2.reported = f.reported /\ f2.foreign = f.foreign
    BY <1>1, <1>3 DEF SftFolder
  <2>2. CASE f.config = config
    <3>1. ListedOK(f2) /\ ReportOK(f2) /\ f2.metric >= f.metric
      BY <2>1, <2>2, FolderTypes DEF FolderOK, ListedOK, ReportOK
    <3> QED BY <3>1, <2>1, <2>2, FolderKept
  <2>3. CASE f.config = NoConfig
    <3>1. Saved(f) = {}
      <4> SUFFICES ASSUME NEW c \in Saved(f) PROVE FALSE
        OBVIOUS
      <4>1. c.config \in SftConfigs /\ c.config = NoConfig
        BY <2>3 DEF FolderOK, IsExact
      <4> QED BY <4>1, SftConfigFields
    <3>2. Saved(f2) = {} /\ f.last = NoSource
      BY <3>1, <2>1 DEF Saved
    <3>3. ListedOK(f2)
      BY <2>1 DEF FolderOK, ListedOK
    <3>4. f2.report = NoSource
      BY <3>2, <2>1 DEF FolderOK, ReportOK
    <3>5. \A c \in f2.periodic \cup {f2.last} : c.state.val.step <= f2.metric
      <4>1. \A c \in f2.periodic \cup {f2.last} : c = NoSource
        BY <3>2 DEF Saved
      <4>2. f2.metric \in Nat
        BY <2>1, FolderTypes
      <4> QED BY <4>1, <4>2, NoSourceFields
    <3> QED BY <3>2, <3>3, <3>4, <3>5, <2>1, EmptyOK
  <2> QED BY <2>2, <2>3, <1>3
<1> QED BY <1>2, <1>3

LEMMA FinetuneOK ==
  ASSUME SftInv, NEW config \in SftConfigs,
         NEW source \in {NoSource} \cup Saved(folder) \cup shelf, NEW anew \in BOOLEAN,
         Finetune(config, source, anew)
  PROVE  SftInv'
<1> DEFINE f == [IF anew THEN EmptyFolder ELSE folder EXCEPT !.config = config]
           t == [Parked EXCEPT !.at = "check", !.config = config, !.source = source]
           sh == IF anew THEN shelf \cup Saved(folder) ELSE shelf
<1>1. /\ anew \/ folder.config \in {NoConfig, config}
      /\ folder' = f /\ tuning' = t /\ shelf' = sh
      /\ sftCalls' = sftCalls + 1 /\ score' = score
  BY Zenon DEF Finetune, NoConfig
<1>2. /\ folder \in SftFolder /\ FolderOK(score, folder) /\ ShelfOK(score, shelf)
      /\ shelf \subseteq SftCheckpoint /\ score \in SftScores /\ sftCalls \in Nat
      /\ Saved(folder) \subseteq SftCheckpoint
  BY FolderTypes DEF SftInv, SftInvOf, SftTypeOK
<1>3. f \in SftFolder /\ f.config = config /\ FolderOK(score, f)
  <2>1. \/ f = [EmptyFolder EXCEPT !.config = config]
        \/ f = [folder EXCEPT !.config = config] /\ folder.config \in {NoConfig, config}
    BY <1>1
  <2> HIDE DEF f
  <2> QED BY <2>1, <1>2, CommandFolder
<1>4. sh \in SUBSET SftCheckpoint /\ ShelfOK(score, sh) /\ shelf \subseteq sh
  BY <1>2 DEF ShelfOK, FolderOK
<1>5. source \in {NoSource} \cup Saved(f) \cup sh
  <2>1. CASE anew
    BY <2>1
  <2>2. CASE ~anew
    <3>1. Saved(f) = Saved(folder)
      BY <2>2, <1>2 DEF Saved, SftFolder
    <3> QED BY <3>1, <2>2
  <2> QED BY <2>1, <2>2
<1>6. source \in SftCheckpoint /\ config \in SftConfigOrNone
  BY <1>2, NoSourceFields, SftConfigFields
<1> DEFINE p == Parked
<1>7. p \in SftProcess /\ p.final = FALSE /\ "check" \in SftAts
  BY ParkedFields DEF SftAts
<1> HIDE DEF f, sh, p
<1>8. /\ t \in SftProcess /\ t.at = "check" /\ t.config = config /\ t.source = source
      /\ t.final = FALSE
  <2>1. t = [p EXCEPT !.at = "check", !.config = config, !.source = source]
    BY DEF p
  <2> HIDE DEF t
  <2> QED BY <2>1, <1>6, <1>7 DEF SftProcess
<1> HIDE DEF t
<1>9. ~Running(t)
  BY <1>8 DEF Running
<1>10. CommandOK(f, t, sh) /\ ModelOK(score, f, t) /\ StageOK(t) /\ WrittenOK(score, f, t)
  BY <1>3, <1>5, <1>8, <1>9 DEF CommandOK, ModelOK, StageOK, WrittenOK
<1>11. SftInvOf(score, f, t, sh)
  BY <1>3, <1>4, <1>10 DEF SftInvOf
<1>12. SftTypeOK'
  BY <1>1, <1>2, <1>3, <1>4, <1>8 DEF SftTypeOK
<1>13. SftInvOf(score, folder, tuning, shelf)'
  BY <1>1, <1>11, Zenon
<1> QED BY <1>12, <1>13 DEF SftInv

LEMMA ResumeSftOK == ASSUME SftInv, ResumeSft PROVE SftInv'
<1> DEFINE c == tuning.config
           src == tuning.source
           s == src.state
           v == s.val
           foreign == folder.foreign \/ src \notin Saved(folder) \/ v.step > folder.metric
           f == [folder EXCEPT !.foreign = foreign]
           t == [tuning EXCEPT !.at = "train", !.state = s]
<1>1. /\ tuning.at = "check" /\ src # NoSource /\ src.config = c /\ s.step < c.target
      /\ folder.metric <= s.step /\ folder.last.state.step <= s.step
      /\ tuning' = t /\ UNCHANGED <<score, shelf, sftCalls>>
  BY Zenon DEF ResumeSft, NothingNewer
<1>2. folder' = f
  BY DEF ResumeSft
<1>3. /\ folder \in SftFolder /\ tuning \in SftProcess /\ FolderOK(score, folder)
      /\ ShelfOK(score, shelf) /\ CommandOK(folder, tuning, shelf)
  BY DEF SftInv, SftInvOf, SftTypeOK
<1>4. /\ c \in SftConfigs /\ folder.config = c /\ src \in Saved(folder) \cup shelf
      /\ tuning.final = FALSE
  BY <1>1, <1>3, ProcessTypes DEF CommandOK
<1>5. IsExact(score, src)
  BY <1>3, <1>4 DEF FolderOK, ShelfOK
<1>6. /\ s \in SftModel /\ s.step \in Nat /\ v \in SftValidation /\ v.step \in Nat
      /\ folder.metric \in Nat /\ folder.foreign \in BOOLEAN /\ c.target \in Nat
  BY <1>3, <1>4, ProcessTypes, CheckpointTypes, FolderTypes, SftConfigFields
<1>7. OnSchedule(score, c, s) /\ SettledAt(c, s) /\ v.step <= s.step
  BY <1>1, <1>5 DEF IsExact, OnSchedule
<1>8. folder.report = NoSource
  <2>1. folder.metric # c.target
    BY <1>1, <1>6
  <2> QED BY <2>1, <1>3, <1>4 DEF FolderOK, ReportOK
<1>9. foreign \in BOOLEAN
  OBVIOUS
<1>10. ~foreign => ~folder.foreign /\ src \in Saved(folder) /\ v.step <= folder.metric
  BY <1>6
<1>11. folder.foreign => foreign
  OBVIOUS
<1> HIDE DEF foreign
<1>12. /\ f \in SftFolder /\ f.metric = folder.metric /\ f.config = folder.config
       /\ f.periodic = folder.periodic /\ f.best = folder.best /\ f.last = folder.last
       /\ f.registered = folder.registered /\ f.samples = folder.samples
       /\ f.report = folder.report /\ f.reported = folder.reported
       /\ f.foreign = foreign
  BY <1>3, <1>9 DEF SftFolder
<1> HIDE DEF f
<1>13. FolderOK(score, f)
  <2>1. ListedOK(f) /\ ReportOK(f) /\ f.metric >= folder.metric
    BY <1>3, <1>6, <1>8, <1>11, <1>12 DEF FolderOK, ListedOK, ReportOK
  <2> QED BY <2>1, <1>3, <1>11, <1>12, FolderKept
<1>14. /\ t \in SftProcess /\ t.at = "train" /\ t.config = c /\ t.state = s
       /\ t.final = FALSE
  BY <1>3, <1>4, <1>6 DEF SftProcess, SftAts
<1> HIDE DEF t
<1>15. Running(t) /\ ~Unvalidated(t)
  BY <1>14 DEF Running, Unvalidated
<1>16. ModelOK(score, f, t)
  BY <1>7, <1>14, <1>15 DEF ModelOK
<1>17. StageOK(t)
  BY <1>14 DEF StageOK, Finished, Published
<1>18. WrittenOK(score, f, t)
  <2>1. v.step < c.target
    BY <1>1, <1>6, <1>7
  <2>2. ~f.foreign => Covered(score, f, v) /\ v.step <= f.metric
    BY <1>3, <1>10, <1>12 DEF FolderOK, OwnOK, Covered
  <2> QED BY <2>1, <2>2, <1>1, <1>8, <1>12, <1>14 DEF WrittenOK, Finished, Published
<1>19. CommandOK(f, t, shelf)
  BY <1>4, <1>12, <1>14, <1>15, StillRunning
<1> QED BY <1>1, <1>2, <1>12, <1>13, <1>14, <1>16, <1>17, <1>18, <1>19, SftGoes

LEMMA StartSftOK == ASSUME SftInv, NEW origin \in SftBases, StartSft(origin) PROVE SftInv'
<1> DEFINE c == tuning.config
           s == Untuned(origin)
           t == [tuning EXCEPT !.at = "train", !.state = s]
<1>1. /\ tuning.at = "check" /\ Saved(folder) = {} /\ folder.metric = 0
      /\ folder.report = NoSource
      /\ tuning' = t /\ UNCHANGED <<score, folder, shelf, sftCalls>>
  BY Zenon DEF StartSft, NoSftOutputs
<1>2. /\ folder \in SftFolder /\ tuning \in SftProcess /\ FolderOK(score, folder)
      /\ CommandOK(folder, tuning, shelf)
  BY DEF SftInv, SftInvOf, SftTypeOK
<1>3. c \in SftConfigs /\ folder.config = c /\ tuning.final = FALSE
  BY <1>1, <1>2, ProcessTypes DEF CommandOK
<1>4. /\ s \in SftModel /\ s.step = 0 /\ s.val = Unscored /\ s.fed = <<>>
      /\ Unscored \in SftValidation /\ Unscored.step = 0
  BY UntunedFields
<1>5. folder.last = NoSource /\ folder.last.state.step = 0
  BY <1>1, NoSourceFields DEF Saved
<1> HIDE DEF s
<1>6. c.target \in Nat /\ c.target >= 1
  BY <1>3, SftConfigFields
<1>7. OnSchedule(score, c, s) /\ SettledAt(c, s)
  <2>1. s.fed = [i \in 1 .. s.step |-> i]
    <3>1. <<>> = [i \in 1 .. 0 |-> i]
      OBVIOUS
    <3> QED BY <3>1, <1>4
  <2>2. ValidatedBy(c, s.step) = {} /\ ValidatedBy(c, s.step - 1) = {}
    BY <1>4, NothingValidated
  <2>3. ValidatedBy(c, s.val.step) = {}
    BY <1>4, NothingValidated
  <2> QED BY <2>1, <2>2, <2>3, <1>4, <1>6 DEF OnSchedule, SettledAt, Scored, OfSteps, UpTo
<1>8. /\ t \in SftProcess /\ t.at = "train" /\ t.config = c /\ t.state = s
      /\ t.final = FALSE
  BY <1>2, <1>3, <1>4 DEF SftProcess, SftAts
<1> HIDE DEF t
<1>9. Running(t) /\ ~Unvalidated(t)
  BY <1>8 DEF Running, Unvalidated
<1>10. ModelOK(score, folder, t)
  BY <1>7, <1>8, <1>9 DEF ModelOK
<1>11. StageOK(t)
  BY <1>8 DEF StageOK, Finished, Published
<1>12. WrittenOK(score, folder, t)
  <2>1. t.state.step = 0 /\ t.state.val.step = 0 /\ 0 < c.target
    BY <1>4, <1>6, <1>8
  <2>2. Covered(score, folder, t.state.val)
    BY <2>1 DEF Covered
  <2> QED BY <2>1, <2>2, <1>1, <1>5, <1>8 DEF WrittenOK, Finished, Published
<1>13. CommandOK(folder, t, shelf)
  BY <1>2, <1>3, <1>8, <1>9, StillRunning
<1> QED BY <1>1, <1>2, <1>8, <1>10, <1>11, <1>12, <1>13, SftGoes

-----------------------------------------------------------------------------
(* The theorem.                                                            *)

LEMMA SftInvInit == FinetuningInit => SftInv
<1> SUFFICES ASSUME FinetuningInit PROVE SftInv
  OBVIOUS
<1>1. /\ score \in SftScores /\ folder = EmptyFolder /\ shelf = {} /\ tuning = Parked
      /\ sftCalls = 0
  BY DEF FinetuningInit
<1>2. SftTypeOK
  BY <1>1, EmptyFolderFields, ParkedFields DEF SftTypeOK
<1>3. FolderOK(score, folder)
  <2>1. Saved(folder) = {} /\ ListedOK(folder)
    BY <1>1, EmptyFolderFields DEF Saved, ListedOK
  <2>2. \A c \in folder.periodic \cup {folder.last} : c.state.val.step <= folder.metric
    BY <1>1, EmptyFolderFields, NoSourceFields
  <2> QED BY <2>1, <2>2, <1>1, EmptyFolderFields, EmptyOK
<1> QED BY <1>1, <1>2, <1>3, ParkedFields DEF SftInv, SftInvOf, ShelfOK

LEMMA SftInvStep == SftInv /\ [FinetuningNext]_finetuningVars => SftInv'
<1> SUFFICES ASSUME SftInv, [FinetuningNext]_finetuningVars PROVE SftInv'
  OBVIOUS
<1>1. ASSUME NEW config \in SftConfigs, NEW anew \in BOOLEAN,
             NEW source \in {NoSource} \cup Saved(folder) \cup shelf,
             Finetune(config, source, anew)
      PROVE  SftInv'
  BY <1>1, FinetuneOK
<1>2. CASE ResumeSft
  BY <1>2, ResumeSftOK
<1>3. ASSUME NEW origin \in SftBases, StartSft(origin) PROVE SftInv'
  BY <1>3, StartSftOK
<1>4. CASE TrainStep
  BY <1>4, TrainStepOK
<1>5. CASE LogStep
  BY <1>5, LogStepOK
<1>6. CASE Validate
  BY <1>6, ValidateOK
<1>7. CASE SaveSftBest
  BY <1>7, SaveSftBestOK
<1>8. CASE RegisterSftBest
  BY <1>8, RegisterSftBestOK
<1>9. CASE TrackSftValidation
  BY <1>9, TrackSftValidationOK
<1>10. CASE SaveSftPeriodic
  BY <1>10, SaveSftPeriodicOK
<1>11. CASE RegisterSftPeriodic
  BY <1>11, RegisterSftPeriodicOK
<1>12. CASE SaveSftLatest
  BY <1>12, SaveSftLatestOK
<1>13. CASE RegisterSftLatest
  BY <1>13, RegisterSftLatestOK
<1>14. CASE FinalizeSft
  BY <1>14, FinalizeSftOK
<1>15. CASE WriteSamples
  BY <1>15, WriteSftSamplesOK
<1>16. CASE WriteReport
  BY <1>16, WriteSftReportOK
<1>17. CASE RegisterReport \/ RegisterSamples
  BY <1>17, RegisterEvaluationOK
<1>18. CASE FinishSft \/ StopSft
  BY <1>18, LeaveOK
<1>19. CASE UNCHANGED finetuningVars
  BY <1>19, Zenon DEF finetuningVars, SftInv, SftTypeOK, SftInvOf
<1> QED BY <1>1, <1>2, <1>3, <1>4, <1>5, <1>6, <1>7, <1>8, <1>9, <1>10, <1>11, <1>12, <1>13,
           <1>14, <1>15, <1>16, <1>17, <1>18, <1>19, Zenon DEF FinetuningNext

\* However often a finetuning run stops and is resumed, its checkpoints hold
\* what an uninterrupted run has, a published evaluation is of the final
\* last.pt, and what the tracker lists is in the directory: for every
\* configuration, every sequence of scores and any number of commands.
THEOREM FinetuningIsExactHolds == FinetuningSpec => []FinetuningIsExact
<1>1. FinetuningInit => SftInv
  BY SftInvInit
<1>2. SftInv /\ [FinetuningNext]_finetuningVars => SftInv'
  BY SftInvStep
<1>3. SftInv => FinetuningIsExact
  BY FinetuningMeaning
<1> QED BY <1>1, <1>2, <1>3, PTL DEF FinetuningSpec

-----------------------------------------------------------------------------
(* Sequences without repetition.                                           *)

LEMMA ElementsAre ==
  ASSUME NEW S, NEW s \in Seq(S)
  PROVE  /\ ToSet(s) = {s[i] : i \in 1 .. Len(s)} /\ ToSet(s) \subseteq S
         /\ IsInjective(s) <=> \A i, j \in 1 .. Len(s) : s[i] = s[j] => i = j
<1>1. DOMAIN s = 1 .. Len(s) /\ \A i \in 1 .. Len(s) : s[i] \in S
  OBVIOUS
<1> QED BY <1>1 DEF ToSet, IsInjective

LEMMA ConcatElements ==
  ASSUME NEW S, NEW s \in Seq(S), NEW t \in Seq(S)
  PROVE  /\ s \o t \in Seq(S) /\ ToSet(s \o t) = ToSet(s) \cup ToSet(t)
         /\ IsInjective(s \o t) <=>
              IsInjective(s) /\ IsInjective(t) /\ ToSet(s) \cap ToSet(t) = {}
<1> DEFINE m == Len(s)
           n == Len(t)
           all == s \o t
<1>1. m \in Nat /\ n \in Nat
  OBVIOUS
<1>2. /\ all \in Seq(S) /\ Len(all) = m + n
      /\ \A i \in 1 .. m + n : all[i] = IF i <= m THEN s[i] ELSE t[i - m]
  BY ConcatProperties
<1> HIDE DEF all
<1>3. \A i \in 1 .. m : i \in 1 .. m + n /\ all[i] = s[i]
  BY <1>1, <1>2
<1>4. \A i \in 1 .. n : m + i \in 1 .. m + n /\ all[m + i] = t[i]
  <2> TAKE i \in 1 .. n
  <2>1. m + i \in 1 .. m + n /\ ~(m + i <= m) /\ (m + i) - m = i
    BY <1>1
  <2> QED BY <1>2, <2>1
<1>5. \A i \in 1 .. m + n : i \in 1 .. m \/ \E j \in 1 .. n : i = m + j
  <2> SUFFICES ASSUME NEW i \in 1 .. m + n, i \notin 1 .. m PROVE \E j \in 1 .. n : i = m + j
    OBVIOUS
  <2>1. i - m \in 1 .. n /\ i = m + (i - m)
    BY <1>1
  <2> QED BY <2>1
<1>6. /\ ToSet(all) = {all[i] : i \in 1 .. m + n}
      /\ ToSet(s) = {s[i] : i \in 1 .. m} /\ ToSet(t) = {t[i] : i \in 1 .. n}
      /\ IsInjective(all) <=> \A i, j \in 1 .. m + n : all[i] = all[j] => i = j
      /\ IsInjective(s) <=> \A i, j \in 1 .. m : s[i] = s[j] => i = j
      /\ IsInjective(t) <=> \A i, j \in 1 .. n : t[i] = t[j] => i = j
  <2>1. /\ ToSet(all) = {all[i] : i \in 1 .. Len(all)}
        /\ IsInjective(all) <=> \A i, j \in 1 .. Len(all) : all[i] = all[j] => i = j
    BY <1>2, ElementsAre
  <2>2. /\ ToSet(s) = {s[i] : i \in 1 .. Len(s)}
        /\ IsInjective(s) <=> \A i, j \in 1 .. Len(s) : s[i] = s[j] => i = j
    BY ElementsAre
  <2>3. /\ ToSet(t) = {t[i] : i \in 1 .. Len(t)}
        /\ IsInjective(t) <=> \A i, j \in 1 .. Len(t) : t[i] = t[j] => i = j
    BY ElementsAre
  <2> QED BY <1>2, <2>1, <2>2, <2>3
<1>7. ToSet(all) = ToSet(s) \cup ToSet(t)
  <2>1. \A x \in ToSet(all) : x \in ToSet(s) \/ x \in ToSet(t)
    <3> TAKE x \in ToSet(all)
    <3>1. PICK i \in 1 .. m + n : x = all[i]
      BY <1>6
    <3>2. CASE i \in 1 .. m
      BY <1>3, <1>6, <3>1, <3>2
    <3>3. CASE \E j \in 1 .. n : i = m + j
      BY <1>4, <1>6, <3>1, <3>3
    <3> QED BY <1>5, <3>2, <3>3
  <2>2. \A x \in ToSet(s) : x \in ToSet(all)
    BY <1>3, <1>6
  <2>3. ASSUME NEW x \in ToSet(t) PROVE x \in ToSet(all)
    <3>1. PICK i \in 1 .. n : x = t[i]
      BY <1>6
    <3>2. m + i \in 1 .. m + n /\ all[m + i] = x
      BY <1>4, <3>1
    <3> QED BY <1>6, <3>2
  <2> QED BY <2>1, <2>2, <2>3
<1> HIDE DEF m, n
<1>8. ASSUME IsInjective(all)
      PROVE  IsInjective(s) /\ IsInjective(t) /\ ToSet(s) \cap ToSet(t) = {}
  <2>1. IsInjective(s)
    BY <1>3, <1>6, <1>8
  <2>2. \A i, j \in 1 .. n : t[i] = t[j] => i = j
    <3> SUFFICES ASSUME NEW i \in 1 .. n, NEW j \in 1 .. n, t[i] = t[j] PROVE i = j
      OBVIOUS
    <3>1. m + i = m + j
      BY <1>4, <1>6, <1>8
    <3> QED BY <1>1, <3>1 DEF m, n
  <2>3. ASSUME NEW i \in 1 .. m, NEW j \in 1 .. n, s[i] = t[j] PROVE FALSE
    <3>1. i = m + j
      BY <1>3, <1>4, <1>6, <1>8, <2>3
    <3> QED BY <1>1, <3>1 DEF m, n
  <2>4. ToSet(s) \cap ToSet(t) = {}
    BY <1>6, <2>3
  <2> QED BY <1>6, <2>1, <2>2, <2>4
<1>9. ASSUME IsInjective(s), IsInjective(t), ToSet(s) \cap ToSet(t) = {}
      PROVE  IsInjective(all)
  <2> SUFFICES ASSUME NEW i \in 1 .. m + n, NEW j \in 1 .. m + n, all[i] = all[j]
               PROVE  i = j
    BY <1>6
  <2>1. CASE i \in 1 .. m /\ j \in 1 .. m
    BY <1>3, <1>6, <1>9, <2>1
  <2>2. ASSUME NEW a \in 1 .. m, NEW b \in 1 .. n, s[a] = t[b] PROVE FALSE
    <3>1. s[a] \in ToSet(s) /\ t[b] \in ToSet(t)
      BY <1>6
    <3> QED BY <1>9, <2>2, <3>1
  <2>3. CASE i \in 1 .. m /\ \E b \in 1 .. n : j = m + b
    BY <1>3, <1>4, <2>2, <2>3
  <2>4. CASE j \in 1 .. m /\ \E b \in 1 .. n : i = m + b
    BY <1>3, <1>4, <2>2, <2>4
  <2>5. CASE (\E a \in 1 .. n : i = m + a) /\ (\E b \in 1 .. n : j = m + b)
    <3>1. PICK a \in 1 .. n : i = m + a
      BY <2>5
    <3>2. PICK b \in 1 .. n : j = m + b
      BY <2>5
    <3>3. a = b
      BY <1>4, <1>6, <1>9, <3>1, <3>2
    <3> QED BY <3>1, <3>2, <3>3
  <2> QED BY <1>5, <2>1, <2>3, <2>4, <2>5
<1> QED BY <1>2, <1>7, <1>8, <1>9 DEF all

LEMMA OneElement ==
  ASSUME NEW S, NEW x \in S
  PROVE  <<x>> \in Seq(S) /\ ToSet(<<x>>) = {x} /\ IsInjective(<<x>>)
<1> DEFINE one == <<x>>
<1>1. one \in Seq(S) /\ Len(one) = 1 /\ one[1] = x
  OBVIOUS
<1> HIDE DEF one
<1>2. /\ ToSet(one) = {one[i] : i \in 1 .. 1}
      /\ IsInjective(one) <=> \A i, j \in 1 .. 1 : one[i] = one[j] => i = j
  BY <1>1, ElementsAre
<1>3. ToSet(one) = {x} /\ IsInjective(one)
  BY <1>1, <1>2
<1> QED BY <1>1, <1>3 DEF one

LEMMA AppendElement ==
  ASSUME NEW S, NEW s \in Seq(S), NEW x \in S
  PROVE  /\ Append(s, x) \in Seq(S) /\ ToSet(Append(s, x)) = ToSet(s) \cup {x}
         /\ IsInjective(Append(s, x)) <=> IsInjective(s) /\ x \notin ToSet(s)
<1> DEFINE one == <<x>>
<1>1. one \in Seq(S) /\ ToSet(one) = {x} /\ IsInjective(one)
  BY OneElement
<1>2. Append(s, x) = s \o one
  OBVIOUS
<1> HIDE DEF one
<1>3. /\ s \o one \in Seq(S) /\ ToSet(s \o one) = ToSet(s) \cup ToSet(one)
      /\ IsInjective(s \o one) <=>
           IsInjective(s) /\ IsInjective(one) /\ ToSet(s) \cap ToSet(one) = {}
  BY <1>1, ConcatElements
<1> QED BY <1>1, <1>2, <1>3

LEMMA AppendIsSome ==
  ASSUME NEW S, NEW s \in Seq(S), NEW x \in S
  PROVE  Append(s, x) # <<>>
<1>1. Len(Append(s, x)) = Len(s) + 1 /\ Len(s) \in Nat
  BY AppendProperties
<1> DEFINE more == Append(s, x)
           none == <<>>
<1>2. Len(more) = Len(s) + 1 /\ Len(none) = 0
  BY <1>1
<1> HIDE DEF more, none
<1>3. more # none
  BY <1>1, <1>2
<1> QED BY <1>3 DEF more, none

LEMMA NoElement ==
  ASSUME NEW S
  PROVE  <<>> \in Seq(S) /\ ToSet(<<>>) = {} /\ IsInjective(<<>>)
<1> DEFINE none == <<>>
<1>1. none \in Seq(S) /\ Len(none) = 0
  OBVIOUS
<1> HIDE DEF none
<1>2. /\ ToSet(none) = {none[i] : i \in 1 .. Len(none)}
      /\ IsInjective(none) <=> \A i, j \in 1 .. Len(none) : none[i] = none[j] => i = j
  BY <1>1, ElementsAre
<1>3. ToSet(none) = {} /\ IsInjective(none)
  BY <1>1, <1>2
<1> QED BY <1>1, <1>3 DEF none

\* One element is taken out.
LEMMA RemoveSplits ==
  ASSUME NEW S, NEW s \in Seq(S), NEW i \in 1 .. Len(s)
  PROVE  \E front, back \in Seq(S) :
           /\ RemoveAt(s, i) = front \o back /\ s = (front \o <<s[i]>>) \o back
           /\ Len(front) + Len(back) = Len(s) - 1
<1> DEFINE front == SubSeq(s, 1, i - 1)
           back == SubSeq(s, i + 1, Len(s))
           one == <<s[i]>>
<1>1. Len(s) \in Nat /\ s[i] \in S /\ i \in Int /\ 1 <= i /\ i <= Len(s)
  OBVIOUS
<1>2. front \in Seq(S) /\ Len(front) = i - 1 /\ \A k \in 1 .. i - 1 : front[k] = s[k]
  <2>1. \A k \in 1 .. i - 1 : s[k] \in S
    BY <1>1
  <2>2. i - 1 \in Int
    BY <1>1
  <2>3. /\ front \in Seq(S)
        /\ Len(front) = IF 1 <= i - 1 THEN (i - 1) - 1 + 1 ELSE 0
        /\ \A k \in 1 .. (i - 1) - 1 + 1 : front[k] = s[1 + k - 1]
    BY <2>1, <2>2, SubSeqProperties
  <2>4. \A k \in 1 .. i - 1 : 1 + k - 1 = k /\ k \in 1 .. (i - 1) - 1 + 1
    BY <1>1
  <2> HIDE DEF front
  <2> QED BY <1>1, <2>3, <2>4
<1>3. /\ back \in Seq(S) /\ Len(back) = Len(s) - i
      /\ \A k \in 1 .. Len(s) - i : back[k] = s[i + k]
  <2>1. \A k \in i + 1 .. Len(s) : s[k] \in S
    BY <1>1
  <2>2. i + 1 \in Int
    BY <1>1
  <2>3. /\ back \in Seq(S)
        /\ Len(back) = IF i + 1 <= Len(s) THEN Len(s) - (i + 1) + 1 ELSE 0
        /\ \A k \in 1 .. Len(s) - (i + 1) + 1 : back[k] = s[(i + 1) + k - 1]
    BY <1>1, <2>1, <2>2, SubSeqProperties
  <2>4. \A k \in 1 .. Len(s) - i : (i + 1) + k - 1 = i + k /\ k \in 1 .. Len(s) - (i + 1) + 1
    BY <1>1
  <2> HIDE DEF back
  <2> QED BY <1>1, <2>3, <2>4
<1>4. one \in Seq(S) /\ Len(one) = 1 /\ one[1] = s[i]
  BY <1>1
<1>5. RemoveAt(s, i) = front \o back
  BY DEF RemoveAt
<1> HIDE DEF front, back, one
<1>6. s = (front \o one) \o back
  <2> DEFINE fo == front \o one
             all == fo \o back
  <2>1. /\ fo \in Seq(S) /\ Len(fo) = Len(front) + Len(one)
        /\ \A k \in 1 .. Len(front) + Len(one) :
             fo[k] = IF k <= Len(front) THEN front[k] ELSE one[k - Len(front)]
    BY <1>2, <1>4, ConcatProperties
  <2> HIDE DEF fo
  <2>2. Len(fo) = i
    BY <1>1, <1>2, <1>4, <2>1
  <2>3. /\ all \in Seq(S) /\ Len(all) = Len(fo) + Len(back)
        /\ \A k \in 1 .. Len(fo) + Len(back) :
             all[k] = IF k <= Len(fo) THEN fo[k] ELSE back[k - Len(fo)]
    <3>1. fo \in Seq(S) /\ back \in Seq(S)
      BY <1>3, <2>1
    <3> QED BY ONLY <3>1, ConcatProperties
  <2> HIDE DEF all
  <2>4. Len(all) = Len(s)
    BY <1>1, <1>3, <2>2, <2>3
  <2>5. ASSUME NEW k \in 1 .. Len(s) PROVE s[k] = all[k]
    <3>1. k \in 1 .. Len(fo) + Len(back)
      BY <2>3, <2>4
    <3>2. CASE k < i
      <4>1. /\ k <= Len(fo) /\ k \in 1 .. Len(front) + Len(one)
            /\ k <= Len(front) /\ k \in 1 .. i - 1
        BY <1>1, <1>2, <1>4, <2>2, <3>2
      <4> QED BY <1>2, <2>1, <2>3, <3>1, <4>1
    <3>3. CASE k = i
      <4>1. /\ k <= Len(fo) /\ k \in 1 .. Len(front) + Len(one) /\ ~(k <= Len(front))
            /\ k - Len(front) = 1
        BY <1>1, <1>2, <1>4, <2>2, <3>3
      <4> QED BY <1>4, <2>1, <2>3, <3>1, <3>3, <4>1
    <3>4. CASE k > i
      <4>1. ~(k <= Len(fo)) /\ k - Len(fo) \in 1 .. Len(s) - i /\ i + (k - Len(fo)) = k
        BY <1>1, <2>2, <3>4
      <4>2. back[k - Len(fo)] = s[i + (k - Len(fo))]
        BY <1>3, <4>1
      <4> QED BY <2>3, <3>1, <4>1, <4>2
    <3> QED BY <1>1, <3>2, <3>3, <3>4
  <2>6. s = all
    BY <2>3, <2>4, <2>5, SeqEqual
  <2> QED BY <2>6 DEF all, fo
<1>7. Len(front) + Len(back) = Len(s) - 1
  BY <1>1, <1>2, <1>3
<1> QED BY <1>2, <1>3, <1>5, <1>6, <1>7 DEF one

LEMMA RemoveIsSeq ==
  ASSUME NEW S, NEW s \in Seq(S), NEW i \in 1 .. Len(s)
  PROVE  RemoveAt(s, i) \in Seq(S) /\ Len(RemoveAt(s, i)) = Len(s) - 1
<1> DEFINE fewer == RemoveAt(s, i)
<1>1. PICK front, back \in Seq(S) :
        fewer = front \o back /\ Len(front) + Len(back) = Len(s) - 1
  <2> DEFINE one == <<s[i]>>
  <2>1. \E front, back \in Seq(S) :
           /\ fewer = front \o back /\ s = (front \o one) \o back
           /\ Len(front) + Len(back) = Len(s) - 1
    BY RemoveSplits
  <2> HIDE DEF fewer, one
  <2> QED BY ONLY <2>1
<1>2. front \o back \in Seq(S) /\ Len(front \o back) = Len(front) + Len(back)
  BY ConcatProperties
<1> HIDE DEF fewer
<1>3. fewer \in Seq(S) /\ Len(fewer) = Len(s) - 1
  BY <1>1, <1>2
<1> QED BY <1>3 DEF fewer

LEMMA RemoveElement ==
  ASSUME NEW S, NEW s \in Seq(S), IsInjective(s), NEW i \in 1 .. Len(s)
  PROVE  IsInjective(RemoveAt(s, i)) /\ ToSet(RemoveAt(s, i)) = ToSet(s) \ {s[i]}
<1> DEFINE one == <<s[i]>>
<1>1. PICK front, back \in Seq(S) :
        RemoveAt(s, i) = front \o back /\ s = (front \o <<s[i]>>) \o back
  <2> HIDE DEF one
  <2>1. \E front, back \in Seq(S) :
           /\ RemoveAt(s, i) = front \o back /\ s = (front \o <<s[i]>>) \o back
           /\ Len(front) + Len(back) = Len(s) - 1
    BY RemoveSplits
  <2> QED BY ONLY <2>1
<1>2. one \in Seq(S) /\ ToSet(one) = {s[i]}
  <2>1. s[i] \in S
    OBVIOUS
  <2> QED BY <2>1, OneElement
<1>3. s = (front \o one) \o back
  BY <1>1
<1> HIDE DEF one
<1> DEFINE fo == front \o one
<1>4. fo \in Seq(S) /\ ToSet(fo) = ToSet(front) \cup {s[i]}
  BY <1>2, ConcatElements
<1>5. s = fo \o back
  BY <1>3
<1>6. IsInjective(fo) => ToSet(front) \cap {s[i]} = {} /\ IsInjective(front)
  BY <1>2, ConcatElements
<1> HIDE DEF fo
<1>7. IsInjective(fo \o back)
  BY <1>5
<1>8. /\ ToSet(fo \o back) = ToSet(fo) \cup ToSet(back)
      /\ IsInjective(fo) /\ IsInjective(back) /\ ToSet(fo) \cap ToSet(back) = {}
  BY <1>4, <1>7, ConcatElements
<1>9. ToSet(s) = ToSet(fo) \cup ToSet(back)
  BY <1>5, <1>8
<1>10. /\ ToSet(front \o back) = ToSet(front) \cup ToSet(back)
       /\ IsInjective(front \o back)
  <2>1. IsInjective(front) /\ IsInjective(back) /\ ToSet(front) \cap ToSet(back) = {}
    BY <1>4, <1>6, <1>8
  <2> QED BY <2>1, ConcatElements
<1>11. ToSet(front \o back) = ToSet(s) \ {s[i]}
  BY <1>4, <1>6, <1>8, <1>9, <1>10
<1> QED BY <1>1, <1>10, <1>11

-----------------------------------------------------------------------------
(* The loader between two of its actions.                                  *)

LoaderFields ==
  {"at", "draws", "epoch", "seed", "step", "globalStep", "exhausted", "packed", "cursor",
   "buffer", "stats", "rows", "row"}
StatsFields == {"seen", "skipped", "packed", "batches", "padding"}
Shaped(l) == DOMAIN l = LoaderFields /\ l = [f \in LoaderFields |-> l[f]]
StatsShaped(s) == DOMAIN s = StatsFields /\ s = [f \in StatsFields |-> s[f]]

RoomIn(l)   == RowCapacity - RowSize(l.row)
FilledIn(l) == Len(l.buffer) = PackingBuffer \/ Exhausted(l)
WantsRow(l) == Len(l.rows) < SftBatchSize /\ RoomIn(l) > 0

PulledOne(l) ==
  [l EXCEPT !.cursor = @ + 1, !.stats.seen = @ + 1,
       !.buffer = IF Supervised(NextItem(l)) THEN Append(@, NextItem(l)) ELSE @,
       !.stats.skipped = IF Supervised(NextItem(l)) THEN @ ELSE @ + 1]
PackedOne(l, i) ==
  [l EXCEPT !.row = Append(@, l.buffer[i]), !.buffer = RemoveAt(@, i),
            !.packed = @ + 1, !.stats.packed = @ + 1]
ClosedRow(l) ==
  [l EXCEPT !.rows = Append(@, l.row), !.row = <<>>, !.stats.padding = @ + RoomIn(l)]
IsReady(l) ==
  /\ l.row = <<>> /\ l.rows # <<>>
  /\ Len(l.rows) = SftBatchSize \/ (FilledIn(l) /\ l.buffer = <<>>)
BatchMade(l) == [epoch |-> l.epoch, rows |-> l.rows]
Emitted(l) ==
  [l EXCEPT !.at = "idle", !.rows = <<>>, !.globalStep = @ + 1,
     !.step = @ + 1, !.exhausted = Exhausted(l) /\ l.buffer = <<>>,
     !.stats.batches = @ + 1,
     !.stats.padding = @ + (SftBatchSize - Len(l.rows)) * RowCapacity]
DrainedEpoch(l) == [l EXCEPT !.exhausted = TRUE]

Fitting(l) == LargestFitting(l.buffer, RoomIn(l))
Largest(l) == CHOOSE i : i \in Fitting(l)

\* What the loader does next, while it makes batches, is determined.
Advance(l) ==
  IF WantsRow(l) /\ ~FilledIn(l) THEN PulledOne(l)
  ELSE IF WantsRow(l) /\ Fitting(l) # {} THEN PackedOne(l, Largest(l))
  ELSE IF l.row # <<>> THEN ClosedRow(l)
  ELSE IF l.rows # <<>> THEN BeginBatch(Emitted(l))
  ELSE BeginBatch(DrainedEpoch(l))

\* What the steps change.
LEMMA EpochStartedIs ==
  ASSUME NEW l, Shaped(l)
  PROVE  LET e == EpochStarted(l)
         IN  /\ Shaped(e) /\ e.at = l.at /\ e.draws = l.draws + 1 /\ e.epoch = l.epoch + 1
             /\ e.seed = l.draws + 1 /\ e.step = 0 /\ e.globalStep = l.globalStep
             /\ e.exhausted = FALSE /\ e.packed = 0 /\ e.cursor = 0 /\ e.buffer = <<>>
             /\ e.stats = l.stats /\ e.rows = l.rows /\ e.row = l.row
  BY DEF Shaped, LoaderFields, EpochStarted

LEMMA BeginBatchIs ==
  ASSUME NEW l, Shaped(l)
  PROVE  LET o == IF l.exhausted THEN EpochStarted(l) ELSE l
             b == BeginBatch(l)
         IN  /\ Shaped(b) /\ b.at = "rows" /\ b.draws = o.draws /\ b.epoch = o.epoch
             /\ b.seed = o.seed /\ b.step = o.step /\ b.globalStep = o.globalStep
             /\ b.exhausted = o.exhausted /\ b.packed = o.packed /\ b.cursor = o.cursor
             /\ b.buffer = o.buffer /\ b.stats = o.stats /\ b.rows = o.rows /\ b.row = o.row
<1> DEFINE o == IF l.exhausted THEN EpochStarted(l) ELSE l
<1>1. Shaped(o)
  BY EpochStartedIs
<1>2. BeginBatch(l) = [o EXCEPT !.at = "rows"]
  BY DEF BeginBatch
<1> HIDE DEF o
<1>3. /\ Shaped(BeginBatch(l)) /\ BeginBatch(l).at = "rows" /\ BeginBatch(l).draws = o.draws
      /\ BeginBatch(l).epoch = o.epoch /\ BeginBatch(l).seed = o.seed
      /\ BeginBatch(l).step = o.step /\ BeginBatch(l).globalStep = o.globalStep
      /\ BeginBatch(l).exhausted = o.exhausted /\ BeginBatch(l).packed = o.packed
      /\ BeginBatch(l).cursor = o.cursor /\ BeginBatch(l).buffer = o.buffer
      /\ BeginBatch(l).stats = o.stats /\ BeginBatch(l).rows = o.rows
      /\ BeginBatch(l).row = o.row
  BY <1>1, <1>2 DEF Shaped, LoaderFields
<1> QED BY <1>3 DEF o

LEMMA PulledOneIs ==
  ASSUME NEW l, Shaped(l), StatsShaped(l.stats)
  PROVE  LET p == PulledOne(l)
         IN  /\ Shaped(p) /\ p.at = l.at /\ p.draws = l.draws /\ p.epoch = l.epoch
             /\ p.seed = l.seed /\ p.step = l.step /\ p.globalStep = l.globalStep
             /\ p.exhausted = l.exhausted /\ p.packed = l.packed /\ p.cursor = l.cursor + 1
             /\ p.buffer = IF Supervised(NextItem(l)) THEN Append(l.buffer, NextItem(l))
                           ELSE l.buffer
             /\ StatsShaped(p.stats) /\ p.stats.seen = l.stats.seen + 1
             /\ p.stats.skipped =
                  IF Supervised(NextItem(l)) THEN l.stats.skipped ELSE l.stats.skipped + 1
             /\ p.stats.packed = l.stats.packed
             /\ p.rows = l.rows /\ p.row = l.row
<1> DEFINE wanted == Supervised(NextItem(l))
           b == IF wanted THEN Append(l.buffer, NextItem(l)) ELSE l.buffer
           k == IF wanted THEN l.stats.skipped ELSE l.stats.skipped + 1
           t == [l.stats EXCEPT !.seen = @ + 1, !.skipped = IF wanted THEN @ ELSE @ + 1]
           p == [l EXCEPT !.cursor = @ + 1, !.stats = t, !.buffer = b]
<1>1. PulledOne(l) = p
  BY DEF PulledOne, Shaped, LoaderFields
<1>2. t.skipped = k
  BY DEF StatsShaped, StatsFields
<1>3. StatsShaped(t) /\ t.seen = l.stats.seen + 1 /\ t.packed = l.stats.packed
  BY DEF StatsShaped, StatsFields
<1> HIDE DEF b, t, k
<1>4. /\ Shaped(p) /\ p.at = l.at /\ p.draws = l.draws /\ p.epoch = l.epoch
      /\ p.seed = l.seed /\ p.step = l.step /\ p.globalStep = l.globalStep
      /\ p.exhausted = l.exhausted /\ p.packed = l.packed /\ p.cursor = l.cursor + 1
      /\ p.buffer = b /\ p.stats = t /\ p.rows = l.rows /\ p.row = l.row
  BY DEF Shaped, LoaderFields
<1> QED BY <1>1, <1>2, <1>3, <1>4 DEF b, k

LEMMA PackedOneIs ==
  ASSUME NEW l, NEW i, Shaped(l), StatsShaped(l.stats)
  PROVE  LET p == PackedOne(l, i)
         IN  /\ Shaped(p) /\ p.at = l.at /\ p.draws = l.draws /\ p.epoch = l.epoch
             /\ p.seed = l.seed /\ p.step = l.step /\ p.globalStep = l.globalStep
             /\ p.exhausted = l.exhausted /\ p.packed = l.packed + 1 /\ p.cursor = l.cursor
             /\ p.buffer = RemoveAt(l.buffer, i)
             /\ StatsShaped(p.stats) /\ p.stats.seen = l.stats.seen
             /\ p.stats.skipped = l.stats.skipped /\ p.stats.packed = l.stats.packed + 1
             /\ p.rows = l.rows /\ p.row = Append(l.row, l.buffer[i])
  BY DEF Shaped, StatsShaped, LoaderFields, StatsFields, PackedOne

LEMMA ClosedRowIs ==
  ASSUME NEW l, Shaped(l), StatsShaped(l.stats)
  PROVE  LET c == ClosedRow(l)
         IN  /\ Shaped(c) /\ c.at = l.at /\ c.draws = l.draws /\ c.epoch = l.epoch
             /\ c.seed = l.seed /\ c.step = l.step /\ c.globalStep = l.globalStep
             /\ c.exhausted = l.exhausted /\ c.packed = l.packed /\ c.cursor = l.cursor
             /\ c.buffer = l.buffer
             /\ StatsShaped(c.stats) /\ c.stats.seen = l.stats.seen
             /\ c.stats.skipped = l.stats.skipped /\ c.stats.packed = l.stats.packed
             /\ c.rows = Append(l.rows, l.row) /\ c.row = <<>>
  BY DEF Shaped, StatsShaped, LoaderFields, StatsFields, ClosedRow

LEMMA EmittedIs ==
  ASSUME NEW l, Shaped(l), StatsShaped(l.stats)
  PROVE  LET e == Emitted(l)
         IN  /\ Shaped(e) /\ e.at = "idle" /\ e.draws = l.draws /\ e.epoch = l.epoch
             /\ e.seed = l.seed /\ e.step = l.step + 1 /\ e.globalStep = l.globalStep + 1
             /\ e.exhausted = (Exhausted(l) /\ l.buffer = <<>>) /\ e.packed = l.packed
             /\ e.cursor = l.cursor /\ e.buffer = l.buffer
             /\ StatsShaped(e.stats) /\ e.stats.seen = l.stats.seen
             /\ e.stats.skipped = l.stats.skipped /\ e.stats.packed = l.stats.packed
             /\ e.rows = <<>> /\ e.row = l.row
<1> DEFINE x == Exhausted(l) /\ l.buffer = <<>>
           pad == (SftBatchSize - Len(l.rows)) * RowCapacity
           t == [l.stats EXCEPT !.batches = @ + 1, !.padding = @ + pad]
           e == [l EXCEPT !.at = "idle", !.rows = <<>>, !.globalStep = @ + 1,
                          !.step = @ + 1, !.exhausted = x, !.stats = t]
<1>1. Emitted(l) = e
  BY DEF Emitted, Shaped, LoaderFields
<1> HIDE DEF pad
<1>2. /\ StatsShaped(t) /\ t.seen = l.stats.seen /\ t.skipped = l.stats.skipped
      /\ t.packed = l.stats.packed
  BY DEF StatsShaped, StatsFields
<1> HIDE DEF x, t
<1>3. /\ Shaped(e) /\ e.at = "idle" /\ e.draws = l.draws /\ e.epoch = l.epoch
      /\ e.seed = l.seed /\ e.step = l.step + 1 /\ e.globalStep = l.globalStep + 1
      /\ e.exhausted = x /\ e.packed = l.packed /\ e.cursor = l.cursor
      /\ e.buffer = l.buffer /\ e.stats = t /\ e.rows = <<>> /\ e.row = l.row
  BY DEF Shaped, LoaderFields
<1> QED BY <1>1, <1>2, <1>3 DEF x

-----------------------------------------------------------------------------
(* The states the loader goes through, one after the other.                *)

IsOrbit(f) == f[0] = BeginBatch(OpenedFeed) /\ \A n \in Nat : f[n + 1] = Advance(f[n])

LEMMA OrbitExists == \E f : IsOrbit(f)
<1> DEFINE first == BeginBatch(OpenedFeed)
           Upto(f, n) == f[0] = first /\ \A k \in 1 .. n : f[k] = Advance(f[k - 1])
           T == {n \in Nat : \E f : Upto(f, n)}
<1> HIDE DEF first
<1>1. 0 \in T
  <2> DEFINE g == [k \in 0 .. 0 |-> first]
  <2>1. Upto(g, 0)
    OBVIOUS
  <2> QED BY <2>1
<1>2. ASSUME NEW n \in Nat, n \in T PROVE n + 1 \in T
  <2>1. PICK f : Upto(f, n)
    BY <1>2
  <2> DEFINE g == [k \in 0 .. n + 1 |-> IF k = n + 1 THEN Advance(f[n]) ELSE f[k]]
  <2>2. g[0] = first
    BY <2>1
  <2>3. ASSUME NEW k \in 1 .. n + 1 PROVE g[k] = Advance(g[k - 1])
    <3>1. CASE k \in 1 .. n
      <4>1. g[k - 1] = f[k - 1] /\ g[k] = f[k]
        BY <3>1
      <4> HIDE DEF g
      <4> QED BY <2>1, <3>1, <4>1
    <3>2. CASE k = n + 1
      <4>1. k - 1 = n /\ g[n] = f[n] /\ g[k] = Advance(f[n])
        BY <3>2
      <4> HIDE DEF g
      <4> QED BY <3>2, <4>1
    <3> QED BY <3>1, <3>2
  <2> HIDE DEF g
  <2>4. Upto(g, n + 1)
    BY <2>2, <2>3
  <2> HIDE DEF Upto
  <2> QED BY <2>4
<1>3. \A n \in Nat : \E f : Upto(f, n)
  <2> HIDE DEF T
  <2>1. Nat \subseteq T
    BY <1>1, <1>2, NaturalsAreInductive
  <2> HIDE DEF Upto
  <2> QED BY <2>1 DEF T
<1>4. ASSUME NEW m \in Nat, NEW f, Upto(f, m), NEW n \in Nat, NEW h, Upto(h, n)
      PROVE  \A k \in Nat : k <= m /\ k <= n => f[k] = h[k]
  <2> DEFINE A == {k \in Nat : k <= m /\ k <= n => f[k] = h[k]}
  <2>1. 0 \in A
    BY <1>4
  <2>2. ASSUME NEW k \in Nat, k \in A PROVE k + 1 \in A
    <3> SUFFICES ASSUME k + 1 <= m, k + 1 <= n PROVE f[k + 1] = h[k + 1]
      OBVIOUS
    <3>1. k + 1 \in 1 .. m /\ k + 1 \in 1 .. n /\ (k + 1) - 1 = k /\ k <= m /\ k <= n
      OBVIOUS
    <3> QED BY <1>4, <2>2, <3>1
  <2> HIDE DEF A
  <2>3. Nat \subseteq A
    BY <2>1, <2>2, NaturalsAreInductive
  <2> QED BY <2>3 DEF A
<1> DEFINE pick(n) == CHOOSE f : Upto(f, n)
           orbit == [n \in Nat |-> pick(n)[n]]
<1>5. \A n \in Nat : Upto(pick(n), n)
  <2> HIDE DEF Upto
  <2> QED BY <1>3
<1> HIDE DEF pick
<1>6. orbit[0] = first
  BY <1>5
<1>7. ASSUME NEW n \in Nat PROVE orbit[n + 1] = Advance(orbit[n])
  <2>1. n + 1 \in Nat /\ n + 1 \in 1 .. n + 1 /\ (n + 1) - 1 = n
    OBVIOUS
  <2>2. pick(n + 1)[n + 1] = Advance(pick(n + 1)[n])
    BY <1>5, <2>1
  <2>3. pick(n + 1)[n] = pick(n)[n]
    <3>1. Upto(pick(n + 1), n + 1) /\ Upto(pick(n), n)
      BY <1>5, <2>1
    <3> HIDE DEF Upto
    <3> QED BY <1>4, <2>1, <3>1
  <2>4. orbit[n + 1] = pick(n + 1)[n + 1] /\ orbit[n] = pick(n)[n]
    BY <2>1
  <2> HIDE DEF orbit
  <2> QED BY <2>2, <2>3, <2>4
<1> HIDE DEF orbit
<1>8. IsOrbit(orbit)
  BY <1>6, <1>7 DEF IsOrbit, first
<1> QED BY <1>8

\* A batch that is ready is emitted, which nothing else delays.
LEMMA ReadyAdvances ==
  ASSUME NEW l, IsReady(l)
  PROVE  Advance(l) = BeginBatch(Emitted(l))
<1>1. l.row = <<>> /\ l.rows # <<>>
  BY DEF IsReady
<1>2. ~(WantsRow(l) /\ ~FilledIn(l))
  BY DEF IsReady, WantsRow
<1>3. ~(WantsRow(l) /\ Fitting(l) # {})
  <2>1. CASE Len(l.rows) = SftBatchSize
    BY <2>1, ConversationAssumption DEF WantsRow
  <2>2. CASE l.buffer = <<>>
    BY <2>2 DEF Fitting, LargestFitting
  <2> QED BY <2>1, <2>2 DEF IsReady
<1> QED BY <1>1, <1>2, <1>3 DEF Advance

Rolling(l) == Shaped(l) /\ StatsShaped(l.stats) /\ l.globalStep \in Nat /\ l.epoch \in Int
Later(l, m) ==
  /\ Rolling(m) /\ m.globalStep >= l.globalStep /\ m.epoch >= l.epoch
  /\ IsReady(l) => m.globalStep = l.globalStep + 1

LEMMA BeginBatchRolls ==
  ASSUME NEW l, Rolling(l)
  PROVE  /\ Rolling(BeginBatch(l)) /\ BeginBatch(l).globalStep = l.globalStep
         /\ BeginBatch(l).epoch >= l.epoch
         /\ l.exhausted => BeginBatch(l).epoch = l.epoch + 1
<1> DEFINE b == BeginBatch(l)
           o == IF l.exhausted THEN EpochStarted(l) ELSE l
<1>1. Shaped(l) /\ StatsShaped(l.stats) /\ l.globalStep \in Nat /\ l.epoch \in Int
  BY DEF Rolling
<1>2. Shaped(b) /\ b.epoch = o.epoch /\ b.globalStep = o.globalStep /\ b.stats = o.stats
  BY <1>1, BeginBatchIs
<1>3. /\ o.globalStep = l.globalStep /\ o.stats = l.stats
      /\ o.epoch = IF l.exhausted THEN l.epoch + 1 ELSE l.epoch
  BY <1>1, EpochStartedIs
<1> HIDE DEF b, o
<1>4. /\ Rolling(b) /\ b.globalStep = l.globalStep /\ b.epoch >= l.epoch
      /\ l.exhausted => b.epoch = l.epoch + 1
  BY <1>1, <1>2, <1>3 DEF Rolling
<1> QED BY <1>4 DEF b

LEMMA AdvanceRolls ==
  ASSUME NEW l, Rolling(l)
  PROVE  Later(l, Advance(l))
<1>1. Shaped(l) /\ StatsShaped(l.stats) /\ l.globalStep \in Nat /\ l.epoch \in Int
  BY DEF Rolling
<1>2. CASE Advance(l) = PulledOne(l) /\ ~IsReady(l)
  <2>1. /\ Shaped(PulledOne(l)) /\ StatsShaped(PulledOne(l).stats)
        /\ PulledOne(l).globalStep = l.globalStep /\ PulledOne(l).epoch = l.epoch
    BY <1>1, PulledOneIs
  <2> QED BY <1>1, <1>2, <2>1 DEF Later, Rolling
<1>3. CASE ~IsReady(l) /\ \E i : Advance(l) = PackedOne(l, i)
  <2>1. PICK i : Advance(l) = PackedOne(l, i)
    BY <1>3
  <2>2. /\ Shaped(PackedOne(l, i)) /\ StatsShaped(PackedOne(l, i).stats)
        /\ PackedOne(l, i).globalStep = l.globalStep /\ PackedOne(l, i).epoch = l.epoch
    BY <1>1, PackedOneIs
  <2> QED BY <1>1, <1>3, <2>1, <2>2 DEF Later, Rolling
<1>4. CASE ~IsReady(l) /\ Advance(l) = ClosedRow(l)
  <2>1. /\ Shaped(ClosedRow(l)) /\ StatsShaped(ClosedRow(l).stats)
        /\ ClosedRow(l).globalStep = l.globalStep /\ ClosedRow(l).epoch = l.epoch
    BY <1>1, ClosedRowIs
  <2> QED BY <1>1, <1>4, <2>1 DEF Later, Rolling
<1>5. CASE Advance(l) = BeginBatch(Emitted(l))
  <2> DEFINE e == Emitted(l)
  <2>1. /\ Shaped(e) /\ StatsShaped(e.stats) /\ e.epoch = l.epoch
        /\ e.globalStep = l.globalStep + 1
    BY <1>1, EmittedIs
  <2> HIDE DEF e
  <2>2. Rolling(e)
    BY <1>1, <2>1 DEF Rolling
  <2>3. /\ Rolling(BeginBatch(e)) /\ BeginBatch(e).globalStep = e.globalStep
        /\ BeginBatch(e).epoch >= e.epoch
    BY <2>2, BeginBatchRolls
  <2>4. Advance(l) = BeginBatch(e)
    BY <1>5 DEF e
  <2> QED BY <1>1, <2>1, <2>3, <2>4 DEF Later
<1>6. CASE Advance(l) = BeginBatch(DrainedEpoch(l)) /\ ~IsReady(l)
  <2> DEFINE e == DrainedEpoch(l)
  <2>1. /\ Shaped(e) /\ e.stats = l.stats /\ e.epoch = l.epoch
        /\ e.globalStep = l.globalStep
    BY <1>1 DEF Shaped, LoaderFields, DrainedEpoch
  <2> HIDE DEF e
  <2>2. Rolling(e)
    BY <1>1, <2>1 DEF Rolling
  <2>3. /\ Rolling(BeginBatch(e)) /\ BeginBatch(e).globalStep = e.globalStep
        /\ BeginBatch(e).epoch >= e.epoch
    BY <2>2, BeginBatchRolls
  <2>4. Advance(l) = BeginBatch(e)
    BY <1>6 DEF e
  <2> QED BY <1>1, <1>6, <2>1, <2>3, <2>4 DEF Later
<1>7. CASE IsReady(l)
  BY <1>5, <1>7, ReadyAdvances
<1>8. CASE ~IsReady(l)
  <2>1. \/ Advance(l) = PulledOne(l)
        \/ \E i : Advance(l) = PackedOne(l, i)
        \/ Advance(l) = ClosedRow(l) \/ Advance(l) = BeginBatch(Emitted(l))
        \/ Advance(l) = BeginBatch(DrainedEpoch(l))
    BY DEF Advance
  <2> QED BY <1>2, <1>3, <1>4, <1>5, <1>6, <1>8, <2>1
<1> QED BY <1>7, <1>8

LEMMA OpenedFeedIs ==
  LET o == OpenedFeed
  IN  /\ Shaped(o) /\ StatsShaped(o.stats) /\ o.at = "idle" /\ o.draws = 1 /\ o.epoch = 0
      /\ o.seed = 1 /\ o.step = 0 /\ o.globalStep = 0 /\ o.exhausted = FALSE
      /\ o.packed = 0 /\ o.cursor = 0 /\ o.buffer = <<>> /\ o.stats = NoStats
      /\ o.stats.seen = 0 /\ o.stats.skipped = 0 /\ o.stats.packed = 0
      /\ o.rows = <<>> /\ o.row = <<>>
<1> DEFINE l == [at |-> "idle", draws |-> 0, epoch |-> -1, seed |-> 0, step |-> 0,
                 globalStep |-> 0, exhausted |-> FALSE, packed |-> 0, cursor |-> 0,
                 buffer |-> <<>>, stats |-> NoStats, rows |-> <<>>, row |-> <<>>]
<1>1. Shaped(l)
  BY DEF Shaped, LoaderFields
<1>2. /\ StatsShaped(NoStats) /\ NoStats.seen = 0 /\ NoStats.skipped = 0
      /\ NoStats.packed = 0
  BY DEF StatsShaped, StatsFields, NoStats
<1>3. /\ l.at = "idle" /\ l.draws = 0 /\ l.epoch = -1 /\ l.globalStep = 0 /\ l.stats = NoStats
      /\ l.rows = <<>> /\ l.row = <<>>
  OBVIOUS
<1>4. OpenedFeed = EpochStarted(l)
  BY DEF OpenedFeed
<1> HIDE DEF l
<1> DEFINE e == EpochStarted(l)
<1>5. /\ Shaped(e) /\ e.at = l.at /\ e.draws = l.draws + 1 /\ e.epoch = l.epoch + 1
      /\ e.seed = l.draws + 1 /\ e.step = 0 /\ e.globalStep = l.globalStep
      /\ e.exhausted = FALSE /\ e.packed = 0 /\ e.cursor = 0 /\ e.buffer = <<>>
      /\ e.stats = l.stats /\ e.rows = l.rows /\ e.row = l.row
  BY <1>1, EpochStartedIs
<1> HIDE DEF e
<1>6. /\ e.at = "idle" /\ e.draws = 1 /\ e.epoch = 0 /\ e.seed = 1 /\ e.globalStep = 0
      /\ e.stats = NoStats /\ e.rows = <<>> /\ e.row = <<>>
  BY <1>3, <1>5
<1>7. OpenedFeed = e
  BY <1>4 DEF e
<1> QED BY <1>2, <1>5, <1>6, <1>7

\* Of the states of the orbit, one at most is ready for each global step, and
\* the epochs go up.
LEMMA OrbitRolls ==
  ASSUME NEW f, IsOrbit(f)
  PROVE  /\ \A n \in Nat : Rolling(f[n]) /\ Later(f[n], f[n + 1])
         /\ \A m, n \in Nat : m <= n => /\ f[m].globalStep <= f[n].globalStep
                                        /\ f[m].epoch <= f[n].epoch
         /\ \A m, n \in Nat : m < n /\ IsReady(f[m]) => f[m].globalStep < f[n].globalStep
<1> DEFINE T == {n \in Nat : Rolling(f[n])}
<1>1. f[0] = BeginBatch(OpenedFeed) /\ \A n \in Nat : f[n + 1] = Advance(f[n])
  BY DEF IsOrbit
<1>2. Rolling(OpenedFeed)
  BY OpenedFeedIs DEF Rolling
<1>3. 0 \in T
  BY <1>1, <1>2, BeginBatchRolls
<1>4. ASSUME NEW n \in Nat, n \in T PROVE n + 1 \in T
  BY <1>1, <1>4, AdvanceRolls DEF Later
<1> HIDE DEF T
<1>5. Nat \subseteq T
  BY <1>3, <1>4, NaturalsAreInductive
<1>6. \A n \in Nat : Rolling(f[n]) /\ Later(f[n], f[n + 1])
  BY <1>1, <1>5, AdvanceRolls DEF T
<1>7. ASSUME NEW m \in Nat
      PROVE  \A n \in Nat : m <= n => /\ f[m].globalStep <= f[n].globalStep
                                      /\ f[m].epoch <= f[n].epoch
  <2> DEFINE U == {n \in Nat : m <= n => f[m].globalStep <= f[n].globalStep
                                          /\ f[m].epoch <= f[n].epoch}
  <2>1. \A n \in Nat : /\ f[n].globalStep \in Nat /\ f[n].epoch \in Int
                       /\ f[n].globalStep <= f[n + 1].globalStep /\ f[n].epoch <= f[n + 1].epoch
    BY <1>6 DEF Rolling, Later
  <2>2. 0 \in U
    BY <2>1
  <2>3. ASSUME NEW n \in Nat, n \in U PROVE n + 1 \in U
    <3>1. f[m].globalStep \in Nat /\ f[m].epoch \in Int /\ f[n].globalStep \in Nat
          /\ f[n].epoch \in Int /\ f[n + 1].globalStep \in Nat /\ f[n + 1].epoch \in Int
          /\ f[n].globalStep <= f[n + 1].globalStep /\ f[n].epoch <= f[n + 1].epoch
      BY <2>1
    <3>2. CASE m <= n
      BY <2>3, <3>1, <3>2
    <3>3. CASE m = n + 1
      BY <3>1, <3>3
    <3>4. CASE m > n + 1
      BY <3>4
    <3> QED BY <3>2, <3>3, <3>4
  <2> HIDE DEF U
  <2>4. Nat \subseteq U
    BY <2>2, <2>3, NaturalsAreInductive
  <2> QED BY <2>4 DEF U
<1>8. ASSUME NEW m \in Nat, NEW n \in Nat, m < n, IsReady(f[m])
      PROVE  f[m].globalStep < f[n].globalStep
  <2>1. f[m + 1].globalStep = f[m].globalStep + 1 /\ f[m].globalStep \in Nat
    BY <1>6, <1>8 DEF Later, Rolling
  <2>2. m + 1 <= n /\ m + 1 \in Nat
    BY <1>8
  <2>3. f[m + 1].globalStep <= f[n].globalStep /\ f[n].globalStep \in Nat
    BY <1>6, <1>7, <2>2 DEF Rolling
  <2> QED BY <2>1, <2>3
<1> QED BY <1>6, <1>7, <1>8

-----------------------------------------------------------------------------
(* Items, and which of them have been pulled.                              *)

MixtureItem == SourceIds \X Nat
InputsOK ==
  /\ sources \in SftCorpora /\ turning \in BOOLEAN
  /\ schedules \in [1 .. MaxSftEpochs -> MixtureOrders]

LEMMA SizesAre ==
  ASSUME InputsOK, NEW item \in MixtureItem
  PROVE  SizeOf(item) \in Nat \ {0}
<1> DEFINE s == item[1]
           position == (item[2] % SourceLength) + 1
           row == RowAt(item[2])
<1>1. s \in DOMAIN Repeats /\ item[2] \in Nat
  BY DEF MixtureItem, SourceIds
<1>2. SourceLength \in Nat \ {0} /\ RowCapacity \in Nat \ {0}
  BY ConversationAssumption
<1>3. position \in 1 .. SourceLength
  BY <1>1, <1>2
<1>4. row = position \/ row = SourceLength + 1 - position
  BY DEF RowAt
<1> HIDE DEF position, row
<1>5. row \in 1 .. SourceLength
  BY <1>2, <1>3, <1>4
<1>6. sources[s][row].size \in Nat \ {0}
  BY <1>1, <1>5, ConversationAssumption DEF InputsOK
<1>7. SizeOf(item) = Limited(sources[s][row].size, RowCapacity)
  BY DEF SizeOf, ConversationOf, row
<1> QED BY <1>2, <1>6, <1>7 DEF Limited

\* What is packed next is determined.
LEMMA LargestIsOne ==
  ASSUME InputsOK, NEW buffer \in Seq(MixtureItem), NEW room,
         NEW i \in LargestFitting(buffer, room)
  PROVE  i \in 1 .. Len(buffer) /\ i = CHOOSE j : j \in LargestFitting(buffer, room)
<1>1. ASSUME NEW m \in LargestFitting(buffer, room), NEW n \in LargestFitting(buffer, room)
      PROVE  m = n
  <2>1. m \in 1 .. Len(buffer) /\ n \in 1 .. Len(buffer)
    BY DEF LargestFitting
  <2>2. SizeOf(buffer[m]) \in Nat /\ SizeOf(buffer[n]) \in Nat
    BY <2>1, SizesAre
  <2>3. \/ SizeOf(buffer[n]) < SizeOf(buffer[m])
        \/ SizeOf(buffer[n]) = SizeOf(buffer[m]) /\ m <= n
    BY DEF LargestFitting
  <2>4. \/ SizeOf(buffer[m]) < SizeOf(buffer[n])
        \/ SizeOf(buffer[m]) = SizeOf(buffer[n]) /\ n <= m
    BY DEF LargestFitting
  <2> QED BY <2>1, <2>2, <2>3, <2>4
<1>2. i \in 1 .. Len(buffer)
  BY DEF LargestFitting
<1> DEFINE largest == LargestFitting(buffer, room)
<1>3. \A m, n \in largest : m = n
  BY <1>1
<1>4. i \in largest
  OBVIOUS
<1> HIDE DEF largest
<1>5. i = CHOOSE j : j \in largest
  BY <1>3, <1>4
<1> QED BY <1>2, <1>5 DEF largest

\* How often s is among the first c of an order.
CountIn(order, c, s) == Cardinality({i \in 1 .. c : order[i] = s})

LEMMA CountsAre ==
  ASSUME NEW order, NEW c \in Nat, NEW s
  PROVE  /\ CountIn(order, c, s) \in Nat /\ CountIn(order, c, s) <= c
         /\ CountIn(order, c + 1, s) =
              IF order[c + 1] = s THEN CountIn(order, c, s) + 1 ELSE CountIn(order, c, s)
<1> DEFINE these == {i \in 1 .. c : order[i] = s}
           more  == {i \in 1 .. c + 1 : order[i] = s}
<1>1. IsFiniteSet(1 .. c) /\ Cardinality(1 .. c) = c
  BY FS_Interval
<1>2. these \subseteq 1 .. c
  OBVIOUS
<1>3. IsFiniteSet(these) /\ Cardinality(these) <= c
  BY <1>1, <1>2, FS_Subset
<1>4. Cardinality(these) \in Nat
  BY <1>3, FS_CardinalityType
<1>5. order[c + 1] = s => more = these \cup {c + 1} /\ c + 1 \notin these
  OBVIOUS
<1>6. order[c + 1] # s => more = these
  OBVIOUS
<1>7. CountIn(order, c, s) = Cardinality(these) /\ CountIn(order, c + 1, s) = Cardinality(more)
  BY DEF CountIn
<1> HIDE DEF these, more
<1>8. Cardinality(more) = IF order[c + 1] = s THEN Cardinality(these) + 1 ELSE Cardinality(these)
  BY <1>3, <1>5, <1>6, FS_AddElement
<1> QED BY <1>3, <1>4, <1>7, <1>8

LEMMA CountsStart ==
  ASSUME NEW order, NEW s
  PROVE  CountIn(order, 0, s) = 0
<1>1. {i \in 1 .. 0 : order[i] = s} = {}
  OBVIOUS
<1> QED BY <1>1, FS_EmptySet DEF CountIn

Wanted(l) == {item \in PulledItems(l) : Supervised(item)}
InEpoch(l) == l.seed \in 1 .. MaxSftEpochs /\ l.cursor \in 0 .. Len(Schedule(l))

LEMMA SchedulesAre ==
  ASSUME InputsOK, NEW l, InEpoch(l)
  PROVE  Schedule(l) \in Seq(SourceIds) /\ Len(Schedule(l)) \in Nat
<1>1. Schedule(l) \in MixtureOrders
  BY DEF InputsOK, InEpoch, Schedule
<1>2. Schedule(l) \in Seq(DOMAIN Repeats)
  BY <1>1, ConversationAssumption
<1> QED BY <1>2 DEF SourceIds

LEMMA WantedIs ==
  ASSUME InputsOK, NEW l, InEpoch(l)
  PROVE  /\ Wanted(l) \subseteq MixtureItem
         /\ \A item \in MixtureItem : item \in Wanted(l) <=>
              Supervised(item) /\ item[2] < CountIn(Schedule(l), l.cursor, item[1])
<1>1. Len(Schedule(l)) \in Nat /\ l.cursor \in Nat /\ l.cursor <= Len(Schedule(l))
  BY SchedulesAre DEF InEpoch
<1>2. \A s : SourceCursor(l, s) = CountIn(Schedule(l), l.cursor, s)
  BY DEF SourceCursor, CountIn
<1>3. \A s : /\ CountIn(Schedule(l), l.cursor, s) \in Nat
             /\ CountIn(Schedule(l), l.cursor, s) <= l.cursor
  BY <1>1, CountsAre
<1>4. Wanted(l) = {item \in SourceIds \X (0 .. Len(Schedule(l))) :
                     item[2] < SourceCursor(l, item[1]) /\ Supervised(item)}
  BY DEF Wanted, PulledItems
<1>5. Wanted(l) \subseteq MixtureItem
  BY <1>4 DEF MixtureItem
<1>6. ASSUME NEW item \in MixtureItem, Supervised(item),
             item[2] < CountIn(Schedule(l), l.cursor, item[1])
      PROVE  item \in Wanted(l)
  <2>1. item = <<item[1], item[2]>> /\ item[1] \in SourceIds /\ item[2] \in Nat
    BY DEF MixtureItem
  <2>2. item[2] \in 0 .. Len(Schedule(l))
    BY <1>1, <1>3, <1>6, <2>1
  <2>3. item \in SourceIds \X (0 .. Len(Schedule(l)))
    BY <2>1, <2>2
  <2> QED BY <1>2, <1>4, <1>6, <2>3
<1>7. ASSUME NEW item \in MixtureItem, item \in Wanted(l)
      PROVE  Supervised(item) /\ item[2] < CountIn(Schedule(l), l.cursor, item[1])
  BY <1>2, <1>4, <1>7
<1> QED BY <1>5, <1>6, <1>7

LEMMA WantedStarts ==
  ASSUME InputsOK, NEW l, InEpoch(l), l.cursor = 0
  PROVE  Wanted(l) = {} /\ IsFiniteSet(Wanted(l)) /\ Cardinality(Wanted(l)) = 0
<1>1. ASSUME NEW item \in Wanted(l) PROVE FALSE
  <2>1. item \in MixtureItem /\ item[2] < CountIn(Schedule(l), 0, item[1])
    BY WantedIs
  <2>2. CountIn(Schedule(l), 0, item[1]) = 0
    BY CountsStart
  <2> QED BY <2>1, <2>2 DEF MixtureItem
<1>2. Wanted(l) = {}
  BY <1>1
<1> QED BY <1>2, FS_EmptySet

LEMMA WantedGrows ==
  ASSUME InputsOK, NEW l, InEpoch(l), ~Exhausted(l),
         NEW p, p.seed = l.seed, p.cursor = l.cursor + 1
  PROVE  /\ InEpoch(p) /\ NextItem(l) \in MixtureItem /\ NextItem(l) \notin Wanted(l)
         /\ Wanted(p) = IF Supervised(NextItem(l)) THEN Wanted(l) \cup {NextItem(l)}
                        ELSE Wanted(l)
<1> DEFINE order == Schedule(l)
           c     == l.cursor
           s     == order[c + 1]
           next  == NextItem(l)
<1>1. order \in Seq(SourceIds) /\ Len(order) \in Nat /\ c \in Nat /\ c <= Len(order)
  BY SchedulesAre DEF InEpoch
<1>2. c # Len(order)
  BY DEF Exhausted
<1>3. Schedule(p) = order
  BY DEF Schedule
<1>4. InEpoch(p)
  <2>1. p.cursor \in 0 .. Len(order)
    BY <1>1, <1>2
  <2> QED BY <1>3, <2>1 DEF InEpoch
<1>5. next = <<s, CountIn(order, c, s)>>
  BY DEF NextItem, SourceCursor, CountIn
<1>6. s \in SourceIds /\ CountIn(order, c, s) \in Nat
  BY <1>1, <1>2, CountsAre
<1>7. next \in MixtureItem /\ next[1] = s /\ next[2] = CountIn(order, c, s)
  BY <1>5, <1>6 DEF MixtureItem
<1>8. /\ \A item \in MixtureItem : item \in Wanted(l) <=>
           Supervised(item) /\ item[2] < CountIn(order, c, item[1])
      /\ \A item \in MixtureItem : item \in Wanted(p) <=>
           Supervised(item) /\ item[2] < CountIn(order, c + 1, item[1])
      /\ Wanted(l) \subseteq MixtureItem /\ Wanted(p) \subseteq MixtureItem
  BY <1>3, <1>4, WantedIs
<1> HIDE DEF order, c, s, next
<1>9. next \notin Wanted(l)
  BY <1>6, <1>7, <1>8
<1>10. ASSUME NEW item \in MixtureItem
       PROVE  item \in Wanted(p) <=> item \in Wanted(l) \/ (item = next /\ Supervised(next))
  <2>1. item = <<item[1], item[2]>> /\ item[2] \in Nat
    BY DEF MixtureItem
  <2>2. /\ CountIn(order, c + 1, item[1]) =
             IF s = item[1] THEN CountIn(order, c, item[1]) + 1 ELSE CountIn(order, c, item[1])
        /\ CountIn(order, c, item[1]) \in Nat
    <3>1. s = order[c + 1]
      BY DEF s
    <3>2. /\ CountIn(order, c + 1, item[1]) =
               IF order[c + 1] = item[1] THEN CountIn(order, c, item[1]) + 1
               ELSE CountIn(order, c, item[1])
          /\ CountIn(order, c, item[1]) \in Nat
      BY <1>1, CountsAre
    <3> QED BY <3>1, <3>2
  <2>3. item = next <=> s = item[1] /\ item[2] = CountIn(order, c, item[1])
    BY <1>5, <2>1
  <2>4. item[2] < CountIn(order, c + 1, item[1]) <=>
          item[2] < CountIn(order, c, item[1]) \/ item = next
    BY <2>1, <2>2, <2>3
  <2> QED BY <1>8, <2>4
<1>11. Supervised(next) => Wanted(p) = Wanted(l) \cup {next}
  BY <1>7, <1>8, <1>10
<1>12. ~Supervised(next) => Wanted(p) = Wanted(l)
  BY <1>7, <1>8, <1>10
<1> QED BY <1>4, <1>7, <1>9, <1>11, <1>12 DEF next

-----------------------------------------------------------------------------
(* What holds of the loader and of the latest saved state.                 *)

FeedStages == {"idle", "rows", "saved"}
FeedFits(l) ==
  /\ Shaped(l) /\ StatsShaped(l.stats) /\ l.at \in FeedStages
  /\ l.epoch \in 0 .. MaxSftEpochs - 1 /\ l.draws = l.epoch + 1 /\ l.seed = l.epoch + 1
  /\ l.globalStep \in Nat /\ l.exhausted \in BOOLEAN /\ InEpoch(l)
  /\ l.buffer \in Seq(MixtureItem) /\ l.row \in Seq(MixtureItem)
  /\ l.rows \in Seq(Seq(MixtureItem))
FeedCounts(l) ==
  /\ l.packed \in Nat /\ l.stats.seen \in Nat /\ l.stats.skipped \in Nat
  /\ l.stats.packed \in Nat
  /\ l.stats.seen - l.stats.skipped = l.stats.packed + Len(l.buffer)
  /\ IsFiniteSet(Wanted(l)) /\ Cardinality(Wanted(l)) = l.packed + Len(l.buffer)
FeedRests(l) ==
  /\ l.exhausted => Exhausted(l) /\ l.buffer = <<>>
  /\ l.at = "rows" => ~l.exhausted
  /\ l.at # "rows" => l.rows = <<>> /\ l.row = <<>>
FeedOK(l) == FeedFits(l) /\ FeedCounts(l) /\ FeedRests(l)

\* The fields that they depend on, apart from the stage and whether the epoch is
\* exhausted.
SameFeed(l, m) ==
  /\ Shaped(m) /\ StatsShaped(m.stats) /\ m.draws = l.draws /\ m.epoch = l.epoch
  /\ m.seed = l.seed /\ m.globalStep = l.globalStep
  /\ m.packed = l.packed /\ m.cursor = l.cursor /\ m.buffer = l.buffer /\ m.stats = l.stats
  /\ m.rows = l.rows /\ m.row = l.row

LEMMA SameFeedIs ==
  ASSUME NEW l, NEW m, SameFeed(l, m)
  PROVE  /\ InEpoch(m) = InEpoch(l) /\ Exhausted(m) = Exhausted(l) /\ Wanted(m) = Wanted(l)
         /\ FeedFits(l) /\ m.at \in FeedStages /\ m.exhausted \in BOOLEAN => FeedFits(m)
         /\ FeedCounts(l) => FeedCounts(m)
<1>1. Schedule(m) = Schedule(l)
  BY DEF SameFeed, Schedule
<1>2. InEpoch(m) = InEpoch(l) /\ Exhausted(m) = Exhausted(l)
  BY <1>1 DEF SameFeed, InEpoch, Exhausted
<1>3. Wanted(m) = Wanted(l)
  BY <1>1 DEF SameFeed, Wanted, PulledItems, SourceCursor
<1>4. FeedFits(l) /\ m.at \in FeedStages /\ m.exhausted \in BOOLEAN => FeedFits(m)
  BY <1>2 DEF SameFeed, FeedFits
<1>5. FeedCounts(l) => FeedCounts(m)
  BY <1>3 DEF SameFeed, FeedCounts
<1> QED BY <1>2, <1>3, <1>4, <1>5

LEMMA ItemSequences ==
  /\ <<>> \in Seq(MixtureItem) /\ <<>> \in Seq(Seq(MixtureItem)) /\ Len(<<>>) = 0
  OBVIOUS

LEMMA NextEpochIsOK ==
  ASSUME InputsOK, NEW l, FeedFits(l), FeedCounts(l), l.epoch + 1 < MaxSftEpochs,
         l.buffer = <<>>, l.rows = <<>>, l.row = <<>>
  PROVE  /\ FeedFits(EpochStarted(l)) /\ FeedCounts(EpochStarted(l))
         /\ EpochStarted(l).at = l.at /\ ~EpochStarted(l).exhausted
         /\ EpochStarted(l).packed = 0
         /\ EpochStarted(l).epoch = l.epoch + 1
         /\ EpochStarted(l).rows = <<>> /\ EpochStarted(l).row = <<>>
         /\ EpochStarted(l).buffer = <<>> /\ EpochStarted(l).globalStep = l.globalStep
         /\ Wanted(EpochStarted(l)) = {}
<1> DEFINE e == EpochStarted(l)
<1>1. Shaped(l) /\ StatsShaped(l.stats)
  BY DEF FeedFits
<1>2. /\ Shaped(e) /\ e.at = l.at /\ e.draws = l.draws + 1 /\ e.epoch = l.epoch + 1
      /\ e.seed = l.draws + 1 /\ e.globalStep = l.globalStep
      /\ e.exhausted = FALSE /\ e.packed = 0 /\ e.cursor = 0 /\ e.buffer = <<>>
      /\ e.stats = l.stats /\ e.rows = l.rows /\ e.row = l.row
  BY <1>1, EpochStartedIs
<1> HIDE DEF e
<1>3. MaxSftEpochs \in Nat
  BY ConversationAssumption
<1>4. e.seed \in 1 .. MaxSftEpochs /\ e.epoch \in 0 .. MaxSftEpochs - 1
      /\ e.seed = e.epoch + 1 /\ e.draws = e.epoch + 1
  BY <1>2, <1>3 DEF FeedFits
<1>5. schedules[e.seed] \in MixtureOrders
  BY <1>4 DEF InputsOK
<1>6. Len(Schedule(e)) \in Nat
  <2>1. schedules[e.seed] \in Seq(DOMAIN Repeats)
    BY <1>5, ConversationAssumption
  <2> QED BY <2>1 DEF Schedule
<1>7. InEpoch(e)
  BY <1>2, <1>4, <1>6 DEF InEpoch
<1>8. FeedFits(e)
  BY <1>1, <1>2, <1>4, <1>7, ItemSequences DEF FeedFits
<1>9. Wanted(e) = {} /\ IsFiniteSet(Wanted(e)) /\ Cardinality(Wanted(e)) = 0
  BY <1>2, <1>7, WantedStarts
<1>10. FeedCounts(e)
  BY <1>2, <1>9, ItemSequences DEF FeedCounts
<1> QED BY <1>2, <1>8, <1>9, <1>10 DEF e

LEMMA CountsAdd ==
  ASSUME NEW seen \in Nat, NEW skipped \in Nat, NEW packed \in Nat, NEW inEpoch \in Nat,
         NEW len \in Nat, NEW card, seen - skipped = packed + len, card = inEpoch + len,
         NEW s \in 0 .. 1, NEW k \in 0 .. 1, NEW q \in 0 .. 1
  PROVE  /\ seen + s \in Nat /\ skipped + k \in Nat /\ packed + q \in Nat /\ inEpoch + q \in Nat
         /\ (seen + s) - (skipped + k) = (packed + q) + (len + (s - k) - q)
         /\ card + (s - k) = (inEpoch + q) + (len + (s - k) - q)
  OBVIOUS
\* s items are pulled of which k are skipped, and q are packed.
LEMMA CountsMove ==
  ASSUME NEW l, FeedCounts(l), Len(l.buffer) \in Nat,
         NEW s \in 0 .. 1, NEW k \in 0 .. 1, NEW q \in 0 .. 1,
         NEW p, p.stats.seen = l.stats.seen + s, p.stats.skipped = l.stats.skipped + k,
         p.stats.packed = l.stats.packed + q, p.packed = l.packed + q,
         Len(p.buffer) = Len(l.buffer) + (s - k) - q, IsFiniteSet(Wanted(p)),
         Cardinality(Wanted(p)) = Cardinality(Wanted(l)) + (s - k)
  PROVE  FeedCounts(p)
<1> DEFINE seen == l.stats.seen
           skipped == l.stats.skipped
           packed == l.stats.packed
           inEpoch == l.packed
           len == Len(l.buffer)
           card == Cardinality(Wanted(l))
<1>1. /\ seen \in Nat /\ skipped \in Nat /\ packed \in Nat /\ inEpoch \in Nat /\ len \in Nat
      /\ seen - skipped = packed + len /\ card = inEpoch + len
  BY DEF FeedCounts
<1>2. /\ p.stats.seen = seen + s /\ p.stats.skipped = skipped + k
      /\ p.stats.packed = packed + q /\ p.packed = inEpoch + q
      /\ Len(p.buffer) = len + (s - k) - q /\ Cardinality(Wanted(p)) = card + (s - k)
  OBVIOUS
<1> HIDE DEF seen, skipped, packed, inEpoch, len, card
<1>3. /\ seen + s \in Nat /\ skipped + k \in Nat /\ packed + q \in Nat /\ inEpoch + q \in Nat
      /\ (seen + s) - (skipped + k) = (packed + q) + (len + (s - k) - q)
      /\ card + (s - k) = (inEpoch + q) + (len + (s - k) - q)
  BY ONLY <1>1, CountsAdd, s \in 0 .. 1, k \in 0 .. 1, q \in 0 .. 1
<1>4. /\ p.packed \in Nat /\ p.stats.seen \in Nat /\ p.stats.skipped \in Nat
      /\ p.stats.packed \in Nat
      /\ p.stats.seen - p.stats.skipped = p.stats.packed + Len(p.buffer)
      /\ Cardinality(Wanted(p)) = p.packed + Len(p.buffer)
  BY ONLY <1>2, <1>3
<1> QED BY <1>4 DEF FeedCounts

\* An item is pulled.
LEMMA PulledIsOK ==
  ASSUME InputsOK, NEW l, FeedOK(l), l.at = "rows", ~Exhausted(l)
  PROVE  FeedOK(PulledOne(l))
<1> DEFINE p == PulledOne(l)
           next == NextItem(l)
<1>1. FeedFits(l) /\ FeedCounts(l) /\ FeedRests(l)
  BY DEF FeedOK
<1>2. /\ Shaped(p) /\ p.at = l.at /\ p.draws = l.draws /\ p.epoch = l.epoch
      /\ p.seed = l.seed /\ p.globalStep = l.globalStep
      /\ p.exhausted = l.exhausted /\ p.packed = l.packed /\ p.cursor = l.cursor + 1
      /\ p.buffer = (IF Supervised(next) THEN Append(l.buffer, next) ELSE l.buffer)
      /\ StatsShaped(p.stats) /\ p.stats.seen = l.stats.seen + 1
      /\ p.stats.skipped = (IF Supervised(next) THEN l.stats.skipped ELSE l.stats.skipped + 1)
      /\ p.stats.packed = l.stats.packed
      /\ p.rows = l.rows /\ p.row = l.row
  BY <1>1, PulledOneIs DEF FeedFits
<1> HIDE DEF p
<1>3. InEpoch(l)
  BY <1>1 DEF FeedFits
<1>4. /\ InEpoch(p) /\ next \in MixtureItem /\ next \notin Wanted(l)
      /\ Wanted(p) = IF Supervised(next) THEN Wanted(l) \cup {next} ELSE Wanted(l)
  BY <1>2, <1>3, WantedGrows
<1> HIDE DEF next
<1>5. /\ l.buffer \in Seq(MixtureItem) /\ Len(l.buffer) \in Nat
      /\ Append(l.buffer, next) \in Seq(MixtureItem)
      /\ Len(Append(l.buffer, next)) = Len(l.buffer) + 1
  <2>1. l.buffer \in Seq(MixtureItem)
    BY <1>1 DEF FeedFits
  <2> QED BY <1>4, <2>1, AppendProperties
<1>6. FeedFits(p)
  BY <1>1, <1>2, <1>4, <1>5 DEF FeedFits
<1>7. FeedCounts(p)
  <2>1. /\ l.packed \in Nat /\ l.stats.seen \in Nat /\ l.stats.skipped \in Nat
        /\ l.stats.packed \in Nat
        /\ l.stats.seen - l.stats.skipped = l.stats.packed + Len(l.buffer)
        /\ IsFiniteSet(Wanted(l)) /\ Cardinality(Wanted(l)) = l.packed + Len(l.buffer)
    BY <1>1 DEF FeedCounts
  <2>2. CASE Supervised(next)
    <3>1. IsFiniteSet(Wanted(p)) /\ Cardinality(Wanted(p)) = Cardinality(Wanted(l)) + 1
      BY <1>4, <2>1, <2>2, FS_AddElement
    <3>2. p.packed = l.packed + 0 /\ p.stats.packed = l.stats.packed + 0
      <4>1. p.packed = l.packed /\ p.stats.packed = l.stats.packed
        BY <1>2
      <4> QED BY ONLY <2>1, <4>1
    <3>3. p.stats.seen = l.stats.seen + 1 /\ p.stats.skipped = l.stats.skipped + 0
      <4>1. p.stats.seen = l.stats.seen + 1 /\ p.stats.skipped = l.stats.skipped
        BY <1>2, <2>2
      <4> QED BY ONLY <2>1, <4>1
    <3>4. Len(p.buffer) = Len(l.buffer) + (1 - 0) - 0
      <4>1. Len(p.buffer) = Len(l.buffer) + 1 /\ Len(l.buffer) \in Nat
        BY <1>2, <1>5, <2>2
      <4> QED BY ONLY <4>1
    <3>5. Cardinality(Wanted(p)) = Cardinality(Wanted(l)) + (1 - 0)
      BY ONLY <3>1
    <3>6. Len(l.buffer) \in Nat /\ 0 \in 0 .. 1 /\ 1 \in 0 .. 1
      BY <1>5
    <3> QED BY ONLY <1>1, <3>1, <3>6, <3>2, <3>3, <3>4, <3>5, CountsMove
  <2>3. CASE ~Supervised(next)
    <3>1. /\ Len(p.buffer) = Len(l.buffer) + (1 - 1) - 0 /\ p.packed = l.packed + 0
          /\ p.stats.seen = l.stats.seen + 1 /\ p.stats.skipped = l.stats.skipped + 1
          /\ p.stats.packed = l.stats.packed + 0
          /\ IsFiniteSet(Wanted(p))
          /\ Cardinality(Wanted(p)) = Cardinality(Wanted(l)) + (1 - 1)
      BY <1>2, <1>4, <1>5, <2>1, <2>3
    <3>2. Len(l.buffer) \in Nat /\ 0 \in 0 .. 1 /\ 1 \in 0 .. 1
      BY <1>5
    <3> QED BY ONLY <1>1, <3>1, <3>2, CountsMove
  <2> QED BY <2>2, <2>3
<1>8. FeedRests(p)
  BY <1>1, <1>2 DEF FeedRests
<1> QED BY <1>6, <1>7, <1>8 DEF FeedOK, p

\* An item is packed.
LEMMA PackedIsOK ==
  ASSUME NEW l, FeedOK(l), l.at = "rows", NEW i \in 1 .. Len(l.buffer)
  PROVE  FeedOK(PackedOne(l, i))
<1> DEFINE p == PackedOne(l, i)
<1>1. FeedFits(l) /\ FeedCounts(l) /\ FeedRests(l)
  BY DEF FeedOK
<1>2. /\ Shaped(p) /\ p.at = l.at /\ p.draws = l.draws /\ p.epoch = l.epoch
      /\ p.seed = l.seed /\ p.globalStep = l.globalStep
      /\ p.exhausted = l.exhausted /\ p.packed = l.packed + 1 /\ p.cursor = l.cursor
      /\ p.buffer = RemoveAt(l.buffer, i)
      /\ StatsShaped(p.stats) /\ p.stats.seen = l.stats.seen
      /\ p.stats.skipped = l.stats.skipped /\ p.stats.packed = l.stats.packed + 1
      /\ p.rows = l.rows /\ p.row = Append(l.row, l.buffer[i])
  BY <1>1, PackedOneIs DEF FeedFits
<1> HIDE DEF p
<1>3. /\ l.buffer \in Seq(MixtureItem) /\ l.row \in Seq(MixtureItem) /\ InEpoch(l)
      /\ Len(l.buffer) \in Nat /\ l.buffer[i] \in MixtureItem
  BY <1>1 DEF FeedFits
<1>4. p.buffer \in Seq(MixtureItem) /\ Len(p.buffer) = Len(l.buffer) - 1
  BY <1>2, <1>3, RemoveIsSeq
<1>5. p.row \in Seq(MixtureItem)
  BY <1>2, <1>3, AppendProperties
<1>6. Schedule(p) = Schedule(l) /\ InEpoch(p) /\ Wanted(p) = Wanted(l)
  <2>1. Schedule(p) = Schedule(l)
    BY <1>2 DEF Schedule
  <2> QED BY <1>2, <1>3, <2>1 DEF InEpoch, Wanted, PulledItems, SourceCursor
<1>7. FeedFits(p)
  BY <1>1, <1>2, <1>4, <1>5, <1>6 DEF FeedFits
<1>8. FeedCounts(p)
  <2>1. /\ l.packed \in Nat /\ l.stats.seen \in Nat /\ l.stats.skipped \in Nat
        /\ l.stats.packed \in Nat
        /\ l.stats.seen - l.stats.skipped = l.stats.packed + Len(l.buffer)
        /\ IsFiniteSet(Wanted(l)) /\ Cardinality(Wanted(l)) = l.packed + Len(l.buffer)
    BY <1>1 DEF FeedCounts
  <2>2. p.packed = l.packed + 1 /\ p.stats.packed = l.stats.packed + 1
    BY <1>2
  <2>3. p.stats.seen = l.stats.seen + 0 /\ p.stats.skipped = l.stats.skipped + 0
    <3>1. p.stats.seen = l.stats.seen /\ p.stats.skipped = l.stats.skipped
      BY <1>2
    <3> QED BY ONLY <2>1, <3>1
  <2>4. Len(p.buffer) = Len(l.buffer) + (0 - 0) - 1
    <3>1. Len(p.buffer) = Len(l.buffer) - 1 /\ Len(l.buffer) \in Nat
      BY <1>3, <1>4
    <3> QED BY ONLY <3>1
  <2>5. IsFiniteSet(Wanted(p)) /\ Cardinality(Wanted(p)) = Cardinality(Wanted(l)) + (0 - 0)
    <3>1. Wanted(p) = Wanted(l) /\ l.packed \in Nat /\ Len(l.buffer) \in Nat
          /\ IsFiniteSet(Wanted(l)) /\ Cardinality(Wanted(l)) = l.packed + Len(l.buffer)
      BY <1>3, <1>6, <2>1
    <3>2. Cardinality(Wanted(l)) \in Int
      BY ONLY <3>1
    <3> QED BY ONLY <3>1, <3>2
  <2>6. Len(l.buffer) \in Nat /\ 0 \in 0 .. 1 /\ 1 \in 0 .. 1
    BY <1>3
  <2> QED BY ONLY <1>1, <2>6, <2>2, <2>3, <2>4, <2>5, CountsMove
<1>9. FeedRests(p)
  BY <1>1, <1>2 DEF FeedRests
<1> QED BY <1>7, <1>8, <1>9 DEF FeedOK, p

\* A row is closed.
LEMMA ClosedIsOK ==
  ASSUME NEW l, FeedOK(l), l.at = "rows"
  PROVE  FeedOK(ClosedRow(l))
<1> DEFINE p == ClosedRow(l)
<1>1. FeedFits(l) /\ FeedCounts(l) /\ FeedRests(l)
  BY DEF FeedOK
<1>2. /\ Shaped(p) /\ p.at = l.at /\ p.draws = l.draws /\ p.epoch = l.epoch
      /\ p.seed = l.seed /\ p.globalStep = l.globalStep
      /\ p.exhausted = l.exhausted /\ p.packed = l.packed /\ p.cursor = l.cursor
      /\ p.buffer = l.buffer
      /\ StatsShaped(p.stats) /\ p.stats.seen = l.stats.seen
      /\ p.stats.skipped = l.stats.skipped /\ p.stats.packed = l.stats.packed
      /\ p.rows = Append(l.rows, l.row) /\ p.row = <<>>
  BY <1>1, ClosedRowIs DEF FeedFits
<1> HIDE DEF p
<1>3. l.rows \in Seq(Seq(MixtureItem)) /\ l.row \in Seq(MixtureItem) /\ InEpoch(l)
  BY <1>1 DEF FeedFits
<1>4. p.rows \in Seq(Seq(MixtureItem))
  BY <1>2, <1>3, AppendProperties
<1>5. Schedule(p) = Schedule(l) /\ InEpoch(p) /\ Wanted(p) = Wanted(l)
  <2>1. Schedule(p) = Schedule(l)
    BY <1>2 DEF Schedule
  <2> QED BY <1>2, <1>3, <2>1 DEF InEpoch, Wanted, PulledItems, SourceCursor
<1>6. FeedFits(p)
  BY <1>1, <1>2, <1>4, <1>5, ItemSequences DEF FeedFits
<1>7. FeedCounts(p)
  BY <1>1, <1>2, <1>5 DEF FeedCounts
<1>8. FeedRests(p)
  BY <1>1, <1>2 DEF FeedRests
<1> QED BY <1>6, <1>7, <1>8 DEF FeedOK, p

\* A batch is emitted.
LEMMA EmittedIsOK ==
  ASSUME NEW l, FeedOK(l), l.row = <<>>
  PROVE  FeedOK(Emitted(l))
<1> DEFINE p == Emitted(l)
<1>1. FeedFits(l) /\ FeedCounts(l) /\ FeedRests(l)
  BY DEF FeedOK
<1>2. /\ Shaped(p) /\ p.at = "idle" /\ p.draws = l.draws /\ p.epoch = l.epoch
      /\ p.seed = l.seed /\ p.globalStep = l.globalStep + 1
      /\ p.exhausted = (Exhausted(l) /\ l.buffer = <<>>) /\ p.packed = l.packed
      /\ p.cursor = l.cursor /\ p.buffer = l.buffer
      /\ StatsShaped(p.stats) /\ p.stats.seen = l.stats.seen
      /\ p.stats.skipped = l.stats.skipped /\ p.stats.packed = l.stats.packed
      /\ p.rows = <<>> /\ p.row = l.row
  BY <1>1, EmittedIs DEF FeedFits
<1> HIDE DEF p
<1>3. InEpoch(l)
  BY <1>1 DEF FeedFits
<1>4. /\ Schedule(p) = Schedule(l) /\ InEpoch(p) /\ Wanted(p) = Wanted(l)
      /\ Exhausted(p) = Exhausted(l)
  <2>1. Schedule(p) = Schedule(l)
    BY <1>2 DEF Schedule
  <2> QED BY <1>2, <1>3, <2>1 DEF InEpoch, Wanted, PulledItems, SourceCursor, Exhausted
<1>5. FeedFits(p)
  <2>1. p.exhausted \in BOOLEAN
    BY <1>2
  <2> QED BY <1>1, <1>2, <1>4, <2>1, ItemSequences DEF FeedFits, FeedStages
<1>6. FeedCounts(p)
  BY <1>1, <1>2, <1>4 DEF FeedCounts
<1>7. FeedRests(p)
  <2>1. p.row = <<>>
    BY <1>2
  <2> QED BY <1>2, <1>4, <2>1 DEF FeedRests
<1> QED BY <1>5, <1>6, <1>7 DEF FeedOK, p

-----------------------------------------------------------------------------
(* What the epoch has delivered: d is the batches of the steps.            *)

ItemBatch == [epoch : Int, rows : Seq(Seq(MixtureItem))]
BatchAt(d, g) == CHOOSE batch : batch \in d[g]
GivenAt(d, g) == ToSet(ItemsOf(BatchAt(d, g)))
StepsOf(l, d) == {g \in 1 .. l.globalStep : BatchAt(d, g).epoch = l.epoch}
UnderwayIn(l) == ToSet(Underway(l))

Accounted(l, d) ==
  /\ l.globalStep <= Len(d)
  /\ \A g \in 1 .. l.globalStep : BatchAt(d, g).epoch \in Int /\ BatchAt(d, g).epoch <= l.epoch
  /\ IsInjective(Underway(l))
  /\ \A g \in StepsOf(l, d) :
       IsInjective(ItemsOf(BatchAt(d, g))) /\ GivenAt(d, g) \cap UnderwayIn(l) = {}
  /\ \A g, h \in StepsOf(l, d) : g # h => GivenAt(d, g) \cap GivenAt(d, h) = {}
  /\ \A x : x \in Wanted(l) <=> x \in UnderwayIn(l) \/ \E g \in StepsOf(l, d) : x \in GivenAt(d, g)

\* What is under way, and when it is without repetition.
UnderwaySplits(l, flat, row, buffer) ==
  /\ UnderwayIn(l) = ToSet(flat) \cup ToSet(row) \cup ToSet(buffer)
  /\ IsInjective(Underway(l)) <=>
       /\ IsInjective(flat) /\ IsInjective(row) /\ IsInjective(buffer)
       /\ ToSet(flat) \cap ToSet(row) = {}
       /\ ToSet(flat) \cap ToSet(buffer) = {}
       /\ ToSet(row) \cap ToSet(buffer) = {}

LEMMA UnderwayIs ==
  ASSUME NEW rows \in Seq(Seq(MixtureItem)), NEW row \in Seq(MixtureItem),
         NEW buffer \in Seq(MixtureItem), NEW l,
         l.rows = rows, l.row = row, l.buffer = buffer
  PROVE  UnderwaySplits(l, FlattenSeq(rows), row, buffer)
<1> DEFINE flat == FlattenSeq(rows)
           front == flat \o row
<1>1. flat \in Seq(MixtureItem)
  BY FlattenHas
<1>2. Underway(l) = front \o buffer
  BY DEF Underway
<1> HIDE DEF flat
<1>3. /\ front \in Seq(MixtureItem) /\ ToSet(front) = ToSet(flat) \cup ToSet(row)
      /\ IsInjective(front) <=>
           IsInjective(flat) /\ IsInjective(row) /\ ToSet(flat) \cap ToSet(row) = {}
  BY <1>1, ConcatElements
<1> HIDE DEF front
<1>4. /\ front \o buffer \in Seq(MixtureItem)
      /\ ToSet(front \o buffer) = ToSet(front) \cup ToSet(buffer)
      /\ IsInjective(front \o buffer) <=>
           IsInjective(front) /\ IsInjective(buffer) /\ ToSet(front) \cap ToSet(buffer) = {}
  BY <1>3, ConcatElements
<1>5. UnderwayIn(l) = ToSet(front) \cup ToSet(buffer)
  BY <1>2, <1>4 DEF UnderwayIn
<1>6. ToSet(front) \cap ToSet(buffer) = {} <=>
        ToSet(flat) \cap ToSet(buffer) = {} /\ ToSet(row) \cap ToSet(buffer) = {}
  BY <1>3
<1>7. UnderwaySplits(l, flat, row, buffer)
  BY <1>2, <1>3, <1>4, <1>5, <1>6 DEF UnderwaySplits
<1> QED BY <1>7 DEF flat

\* Items more under way are items more wanted.
LEMMA AccountedMore ==
  ASSUME NEW l, NEW d, Accounted(l, d), NEW p, NEW more,
         p.globalStep = l.globalStep, p.epoch = l.epoch, IsInjective(Underway(p)),
         more \cap Wanted(l) = {}, Wanted(p) = Wanted(l) \cup more,
         UnderwayIn(p) = UnderwayIn(l) \cup more
  PROVE  Accounted(p, d)
<1>1. StepsOf(p, d) = StepsOf(l, d)
  BY DEF StepsOf
<1>2. \A g \in StepsOf(l, d) : \A x \in GivenAt(d, g) : x \in Wanted(l)
  BY DEF Accounted
<1>3. \A g \in StepsOf(l, d) : GivenAt(d, g) \cap UnderwayIn(p) = {}
  BY <1>2 DEF Accounted
<1>4. \A x : x \in Wanted(p) <=>
               x \in UnderwayIn(p) \/ \E g \in StepsOf(p, d) : x \in GivenAt(d, g)
  BY <1>1 DEF Accounted
<1> QED BY <1>1, <1>3, <1>4 DEF Accounted

LEMMA AccountedSame ==
  ASSUME NEW l, NEW d, Accounted(l, d), NEW m, SameFeed(l, m)
  PROVE  Accounted(m, d)
<1>1. Wanted(m) = Wanted(l)
  BY SameFeedIs
<1>2. Underway(m) = Underway(l) /\ UnderwayIn(m) = UnderwayIn(l)
  BY DEF SameFeed, Underway, UnderwayIn
<1>3. m.globalStep = l.globalStep /\ m.epoch = l.epoch
  BY DEF SameFeed
<1>4. StepsOf(m, d) = StepsOf(l, d)
  BY <1>3 DEF StepsOf
<1> QED BY <1>1, <1>2, <1>3, <1>4 DEF Accounted

\* Later batches change nothing.
LEMMA AccountedLater ==
  ASSUME NEW l, NEW d, l.globalStep \in Nat, Accounted(l, d),
         NEW e, Len(d) \in Nat, Len(e) \in Nat, Len(d) <= Len(e),
         \A g \in 1 .. Len(d) : e[g] = d[g]
  PROVE  Accounted(l, e)
<1>1. l.globalStep <= Len(d)
  BY DEF Accounted
<1>2. l.globalStep <= Len(e) /\ \A g \in 1 .. l.globalStep : e[g] = d[g]
  BY <1>1
<1>3. \A g \in 1 .. l.globalStep : BatchAt(e, g) = BatchAt(d, g) /\ GivenAt(e, g) = GivenAt(d, g)
  BY <1>2 DEF BatchAt, GivenAt
<1>4. StepsOf(l, e) = StepsOf(l, d)
  BY <1>3 DEF StepsOf
<1>5. \A g \in StepsOf(l, d) : BatchAt(e, g) = BatchAt(d, g) /\ GivenAt(e, g) = GivenAt(d, g)
  BY <1>3 DEF StepsOf
<1> QED BY <1>2, <1>3, <1>4, <1>5 DEF Accounted

LEMMA PulledIsAccounted ==
  ASSUME InputsOK, NEW l, NEW d, FeedOK(l), l.at = "rows", ~Exhausted(l), Accounted(l, d)
  PROVE  Accounted(PulledOne(l), d)
<1> DEFINE p == PulledOne(l)
           next == NextItem(l)
           more == IF Supervised(next) THEN {next} ELSE {}
<1>1. FeedFits(l)
  BY DEF FeedOK
<1>2. /\ p.epoch = l.epoch /\ p.seed = l.seed /\ p.globalStep = l.globalStep
      /\ p.cursor = l.cursor + 1
      /\ p.buffer = (IF Supervised(next) THEN Append(l.buffer, next) ELSE l.buffer)
      /\ p.rows = l.rows /\ p.row = l.row
  BY <1>1, PulledOneIs DEF FeedFits
<1> HIDE DEF p
<1>3. /\ next \in MixtureItem /\ next \notin Wanted(l)
      /\ Wanted(p) = IF Supervised(next) THEN Wanted(l) \cup {next} ELSE Wanted(l)
  <2>1. InEpoch(l)
    BY <1>1 DEF FeedFits
  <2> QED BY <1>2, <2>1, WantedGrows
<1> HIDE DEF next
<1>4. /\ l.rows \in Seq(Seq(MixtureItem)) /\ l.row \in Seq(MixtureItem)
      /\ l.buffer \in Seq(MixtureItem)
  BY <1>1 DEF FeedFits
<1>5. IsInjective(Underway(l)) /\ \A x \in UnderwayIn(l) : x \in Wanted(l)
  BY DEF Accounted
<1>6. CASE Supervised(next)
  <2> DEFINE b == Append(l.buffer, next)
             flat == FlattenSeq(l.rows)
  <2>1. /\ b \in Seq(MixtureItem) /\ ToSet(b) = ToSet(l.buffer) \cup {next}
        /\ IsInjective(b) <=> IsInjective(l.buffer) /\ next \notin ToSet(l.buffer)
    BY <1>3, <1>4, AppendElement
  <2>2. p.buffer = b
    BY <1>2, <1>6
  <2> HIDE DEF b, flat
  <2>3. UnderwaySplits(l, flat, l.row, l.buffer)
    BY <1>4, UnderwayIs DEF flat
  <2>4. UnderwaySplits(p, flat, l.row, b)
    BY <1>2, <1>4, <2>1, <2>2, UnderwayIs DEF flat
  <2>5. next \notin UnderwayIn(l)
    BY <1>3, <1>5
  <2>6. UnderwayIn(p) = UnderwayIn(l) \cup {next}
    BY <2>1, <2>3, <2>4 DEF UnderwaySplits
  <2>7. IsInjective(Underway(p))
    BY <1>5, <2>1, <2>3, <2>4, <2>5 DEF UnderwaySplits
  <2>8. {next} \cap Wanted(l) = {} /\ Wanted(p) = Wanted(l) \cup {next}
    BY <1>3, <1>6
  <2>9. Accounted(p, d)
    BY ONLY Accounted(l, d), <1>2, <2>6, <2>7, <2>8, AccountedMore
  <2> QED BY <2>9 DEF p
<1>7. CASE ~Supervised(next)
  <2>1. p.buffer = l.buffer
    BY <1>2, <1>7
  <2>2. Underway(p) = Underway(l)
    BY <1>2, <2>1 DEF Underway
  <2>3. UnderwayIn(p) = UnderwayIn(l) \cup {} /\ IsInjective(Underway(p))
    BY <1>5, <2>2 DEF UnderwayIn
  <2>4. {} \cap Wanted(l) = {} /\ Wanted(p) = Wanted(l) \cup {}
    BY <1>3, <1>7
  <2>5. Accounted(p, d)
    BY ONLY Accounted(l, d), <1>2, <2>3, <2>4, AccountedMore
  <2> QED BY <2>5 DEF p
<1> QED BY <1>6, <1>7

LEMMA PackedIsAccounted ==
  ASSUME NEW l, NEW d, FeedOK(l), l.at = "rows", NEW i \in 1 .. Len(l.buffer), Accounted(l, d)
  PROVE  Accounted(PackedOne(l, i), d)
<1> DEFINE p == PackedOne(l, i)
           item == l.buffer[i]
           flat == FlattenSeq(l.rows)
           b == RemoveAt(l.buffer, i)
           r == Append(l.row, item)
<1>1. FeedFits(l)
  BY DEF FeedOK
<1>2. /\ p.epoch = l.epoch /\ p.seed = l.seed /\ p.globalStep = l.globalStep
      /\ p.cursor = l.cursor /\ p.buffer = b /\ p.rows = l.rows /\ p.row = r
  BY <1>1, PackedOneIs DEF FeedFits
<1> HIDE DEF p
<1>3. /\ l.rows \in Seq(Seq(MixtureItem)) /\ l.row \in Seq(MixtureItem)
      /\ l.buffer \in Seq(MixtureItem) /\ item \in MixtureItem
  BY <1>1 DEF FeedFits
<1>4. Wanted(p) = Wanted(l) \cup {} /\ {} \cap Wanted(l) = {}
  <2>1. Schedule(p) = Schedule(l)
    BY <1>2 DEF Schedule
  <2> QED BY <1>2, <2>1 DEF Wanted, PulledItems, SourceCursor
<1>5. IsInjective(Underway(l))
  BY DEF Accounted
<1>6. UnderwaySplits(l, flat, l.row, l.buffer)
  BY <1>3, UnderwayIs
<1>7. IsInjective(l.buffer)
  BY <1>5, <1>6 DEF UnderwaySplits
<1>8. item \in ToSet(l.buffer)
  <2>1. ToSet(l.buffer) = {l.buffer[j] : j \in 1 .. Len(l.buffer)}
    BY <1>3, ElementsAre
  <2> QED BY <2>1
<1>9. b \in Seq(MixtureItem) /\ IsInjective(b) /\ ToSet(b) = ToSet(l.buffer) \ {item}
  BY <1>3, <1>7, RemoveIsSeq, RemoveElement
<1>10. /\ r \in Seq(MixtureItem) /\ ToSet(r) = ToSet(l.row) \cup {item}
       /\ IsInjective(r) <=> IsInjective(l.row) /\ item \notin ToSet(l.row)
  <2> HIDE DEF item
  <2> QED BY <1>3, AppendElement
<1> HIDE DEF flat, b, r, item
<1>11. UnderwaySplits(p, flat, r, b)
  BY <1>2, <1>3, <1>9, <1>10, UnderwayIs DEF flat
<1>12. UnderwayIn(p) = UnderwayIn(l) \cup {}
  BY <1>6, <1>8, <1>9, <1>10, <1>11 DEF UnderwaySplits
<1>13. IsInjective(Underway(p))
  BY <1>5, <1>6, <1>8, <1>9, <1>10, <1>11 DEF UnderwaySplits
<1>14. Accounted(p, d)
  BY ONLY Accounted(l, d), <1>2, <1>4, <1>12, <1>13, AccountedMore
<1> QED BY <1>14 DEF p

LEMMA ClosedIsAccounted ==
  ASSUME NEW l, NEW d, FeedOK(l), l.at = "rows", Accounted(l, d)
  PROVE  Accounted(ClosedRow(l), d)
<1> DEFINE p == ClosedRow(l)
           flat == FlattenSeq(l.rows)
           more == FlattenSeq(Append(l.rows, l.row))
           none == <<>>
<1>1. FeedFits(l)
  BY DEF FeedOK
<1>2. /\ p.epoch = l.epoch /\ p.seed = l.seed /\ p.globalStep = l.globalStep
      /\ p.cursor = l.cursor /\ p.buffer = l.buffer /\ p.rows = Append(l.rows, l.row)
      /\ p.row = none
  BY <1>1, ClosedRowIs DEF FeedFits
<1> HIDE DEF p
<1>3. /\ l.rows \in Seq(Seq(MixtureItem)) /\ l.row \in Seq(MixtureItem)
      /\ l.buffer \in Seq(MixtureItem) /\ Append(l.rows, l.row) \in Seq(Seq(MixtureItem))
  <2>1. l.rows \in Seq(Seq(MixtureItem)) /\ l.row \in Seq(MixtureItem)
    BY <1>1 DEF FeedFits
  <2> QED BY <1>1, <2>1, AppendProperties DEF FeedFits
<1>4. Wanted(p) = Wanted(l) \cup {} /\ {} \cap Wanted(l) = {}
  <2>1. Schedule(p) = Schedule(l)
    BY <1>2 DEF Schedule
  <2> QED BY <1>2, <2>1 DEF Wanted, PulledItems, SourceCursor
<1>5. IsInjective(Underway(l))
  BY DEF Accounted
<1>6. more = flat \o l.row
  BY <1>3, FlattenAppend
<1>7. flat \in Seq(MixtureItem)
  BY <1>3, FlattenHas
<1> HIDE DEF flat
<1>8. /\ more \in Seq(MixtureItem) /\ ToSet(more) = ToSet(flat) \cup ToSet(l.row)
      /\ IsInjective(more) <=>
           IsInjective(flat) /\ IsInjective(l.row) /\ ToSet(flat) \cap ToSet(l.row) = {}
  BY <1>3, <1>6, <1>7, ConcatElements
<1>9. none \in Seq(MixtureItem) /\ ToSet(none) = {} /\ IsInjective(none)
  BY NoElement
<1> HIDE DEF more, none
<1>10. UnderwaySplits(l, flat, l.row, l.buffer)
  BY <1>3, UnderwayIs DEF flat
<1>11. UnderwaySplits(p, more, none, l.buffer)
  BY <1>2, <1>3, <1>9, UnderwayIs DEF more
<1>12. UnderwayIn(p) = UnderwayIn(l) \cup {}
  BY <1>8, <1>9, <1>10, <1>11 DEF UnderwaySplits
<1>13. IsInjective(Underway(p))
  BY <1>5, <1>8, <1>9, <1>10, <1>11 DEF UnderwaySplits
<1>14. Accounted(p, d)
  BY ONLY Accounted(l, d), <1>2, <1>4, <1>12, <1>13, AccountedMore
<1> QED BY <1>14 DEF p

\* The batch of the next step takes with it what was under way in rows.
LEMMA EmittedIsAccounted ==
  ASSUME NEW l, NEW d, FeedOK(l), l.row = <<>>, Accounted(l, d), Len(d) \in Nat,
         NEW e, Len(e) \in Nat, Len(d) <= Len(e), l.globalStep + 1 <= Len(e),
         \A g \in 1 .. Len(d) : e[g] = d[g], e[l.globalStep + 1] = {BatchMade(l)}
  PROVE  Accounted(Emitted(l), e)
<1> DEFINE p == Emitted(l)
           flat == FlattenSeq(l.rows)
           none == <<>>
           nothing == FlattenSeq(<<>>)
           last == l.globalStep + 1
<1>1. FeedFits(l)
  BY DEF FeedOK
<1>2. /\ p.epoch = l.epoch /\ p.seed = l.seed /\ p.globalStep = last
      /\ p.cursor = l.cursor /\ p.buffer = l.buffer /\ p.rows = none /\ p.row = none
  BY <1>1, EmittedIs DEF FeedFits
<1> HIDE DEF p
<1>3. /\ l.rows \in Seq(Seq(MixtureItem)) /\ l.row \in Seq(MixtureItem) /\ l.row = none
      /\ l.buffer \in Seq(MixtureItem) /\ l.globalStep \in Nat /\ l.epoch \in Int
  BY <1>1 DEF FeedFits
<1>4. Wanted(p) = Wanted(l)
  <2>1. Schedule(p) = Schedule(l)
    BY <1>2 DEF Schedule
  <2> QED BY <1>2, <2>1 DEF Wanted, PulledItems, SourceCursor
<1>5. Accounted(l, e)
  BY <1>3, AccountedLater
<1>6. BatchAt(e, last) = BatchMade(l)
  BY DEF BatchAt
<1>7. /\ BatchAt(e, last).epoch = l.epoch /\ ItemsOf(BatchAt(e, last)) = flat
      /\ GivenAt(e, last) = ToSet(flat)
  BY <1>6 DEF BatchMade, ItemsOf, GivenAt
<1>8. /\ none \in Seq(MixtureItem) /\ none \in Seq(Seq(MixtureItem))
      /\ ToSet(none) = {} /\ IsInjective(none) /\ nothing = none
  <2>1. none \in Seq(MixtureItem) /\ ToSet(none) = {} /\ IsInjective(none)
    BY NoElement
  <2>2. nothing = none
    BY DEF FlattenSeq
  <2> QED BY <2>1, <2>2
<1>9. nothing = FlattenSeq(none)
  OBVIOUS
<1> HIDE DEF flat, none, nothing
<1>10. UnderwaySplits(l, flat, none, l.buffer)
  BY <1>3, UnderwayIs DEF flat
<1>11. UnderwaySplits(p, none, none, l.buffer)
  <2>1. UnderwaySplits(p, FlattenSeq(none), none, l.buffer)
    BY <1>2, <1>3, <1>8, UnderwayIs
  <2> QED BY <1>8, <1>9, <2>1
<1>12. IsInjective(Underway(l))
  BY DEF Accounted
<1>13. /\ IsInjective(flat) /\ IsInjective(Underway(p)) /\ UnderwayIn(p) = ToSet(l.buffer)
       /\ UnderwayIn(l) = UnderwayIn(p) \cup GivenAt(e, last)
       /\ GivenAt(e, last) \cap UnderwayIn(p) = {}
  BY <1>7, <1>8, <1>10, <1>11, <1>12 DEF UnderwaySplits
<1>14. StepsOf(p, e) = StepsOf(l, e) \cup {last} /\ last \notin StepsOf(l, e)
  BY <1>2, <1>3, <1>7 DEF StepsOf
<1>15. \A g \in 1 .. last : BatchAt(e, g).epoch \in Int /\ BatchAt(e, g).epoch <= l.epoch
  <2>1. \A g \in 1 .. last : g = last \/ g \in 1 .. l.globalStep
    BY <1>3
  <2> HIDE DEF last
  <2> QED BY <1>3, <1>5, <1>7, <2>1 DEF Accounted
<1> HIDE DEF last
<1>16. \A g \in StepsOf(l, e) : /\ IsInjective(ItemsOf(BatchAt(e, g)))
                                /\ GivenAt(e, g) \cap UnderwayIn(p) = {}
                                /\ GivenAt(e, g) \cap GivenAt(e, last) = {}
  BY <1>5, <1>13 DEF Accounted
<1>17. \A g, h \in StepsOf(p, e) : g # h => GivenAt(e, g) \cap GivenAt(e, h) = {}
  BY <1>5, <1>14, <1>16 DEF Accounted
<1>18. \A g \in StepsOf(p, e) :
          IsInjective(ItemsOf(BatchAt(e, g))) /\ GivenAt(e, g) \cap UnderwayIn(p) = {}
  BY <1>7, <1>13, <1>14, <1>16
<1>19. \A x : x \in Wanted(p) <=>
                x \in UnderwayIn(p) \/ \E g \in StepsOf(p, e) : x \in GivenAt(e, g)
  BY <1>4, <1>5, <1>13, <1>14 DEF Accounted
<1>20. p.globalStep <= Len(e)
  BY <1>2 DEF last
<1>21. Accounted(p, e)
  BY <1>2, <1>13, <1>15, <1>17, <1>18, <1>19, <1>20 DEF Accounted
<1> QED BY <1>21 DEF p

\* A new epoch has delivered nothing.
LEMMA NextEpochIsAccounted ==
  ASSUME NEW l, NEW d, FeedFits(l), Accounted(l, d), NEW p, p.globalStep = l.globalStep,
         p.epoch = l.epoch + 1, p.rows = <<>>, p.row = <<>>, p.buffer = <<>>, Wanted(p) = {}
  PROVE  Accounted(p, d)
<1>1. l.globalStep \in Nat /\ l.epoch \in Int
  BY DEF FeedFits
<1>2. StepsOf(p, d) = {}
  BY <1>1 DEF Accounted, StepsOf
<1> DEFINE none == <<>>
<1>3. /\ none \in Seq(MixtureItem) /\ none \in Seq(Seq(MixtureItem))
      /\ ToSet(none) = {} /\ IsInjective(none) /\ FlattenSeq(none) = none
  <2>1. none \in Seq(MixtureItem) /\ ToSet(none) = {} /\ IsInjective(none)
    BY NoElement
  <2>2. FlattenSeq(none) = none
    BY DEF FlattenSeq
  <2> QED BY <2>1, <2>2
<1>4. p.rows = none /\ p.row = none /\ p.buffer = none
  OBVIOUS
<1> HIDE DEF none
<1>5. UnderwayIn(p) = {} /\ IsInjective(Underway(p))
  BY <1>3, <1>4, UnderwayIs DEF UnderwaySplits
<1>6. \A g \in 1 .. p.globalStep : BatchAt(d, g).epoch \in Int /\ BatchAt(d, g).epoch <= p.epoch
  BY <1>1 DEF Accounted
<1>7. p.globalStep <= Len(d)
  BY DEF Accounted
<1> QED BY <1>2, <1>5, <1>6, <1>7 DEF Accounted

-----------------------------------------------------------------------------
(* Whether an epoch that is not exhausted still has something to deliver.   *)

PassOK(l) ==
  PackingBuffer > 1 =>
    /\ l.buffer # <<>> \/ l.row # <<>> \/ l.rows # <<>> \/ l.packed = 0 \/ l.exhausted
    /\ l.rows # <<>> \/ l.row # <<>> => l.buffer # <<>> \/ Exhausted(l)

LEMMA PulledHasMore ==
  ASSUME InputsOK, NEW l, FeedOK(l), PassOK(l), l.at = "rows", ~Exhausted(l)
  PROVE  PassOK(PulledOne(l))
<1> DEFINE p == PulledOne(l)
           next == NextItem(l)
<1>1. Shaped(l) /\ StatsShaped(l.stats) /\ l.buffer \in Seq(MixtureItem)
  BY DEF FeedOK, FeedFits
<1>2. /\ p.exhausted = l.exhausted /\ p.packed = l.packed /\ p.rows = l.rows /\ p.row = l.row
      /\ p.buffer = (IF Supervised(next) THEN Append(l.buffer, next) ELSE l.buffer)
  BY <1>1, PulledOneIs
<1>3. l.buffer # <<>> => p.buffer # <<>>
  <2>1. Append(l.buffer, next) # <<>>
    <3>1. InEpoch(l) /\ PulledOne(l).seed = l.seed /\ PulledOne(l).cursor = l.cursor + 1
      BY <1>1, PulledOneIs DEF FeedOK, FeedFits
    <3>2. next \in MixtureItem
      BY <3>1, WantedGrows
    <3> HIDE DEF next
    <3> QED BY <1>1, <3>2, AppendIsSome
  <2> HIDE DEF p, next
  <2> QED BY <1>2, <2>1
<1> HIDE DEF p
<1>4. PassOK(p)
  BY <1>2, <1>3 DEF PassOK
<1> QED BY <1>4 DEF p

LEMMA PackedHasMore ==
  ASSUME NEW l, FeedOK(l), FilledIn(l), NEW i \in 1 .. Len(l.buffer)
  PROVE  PassOK(PackedOne(l, i))
<1> DEFINE p == PackedOne(l, i)
<1>1. /\ Shaped(l) /\ StatsShaped(l.stats) /\ l.buffer \in Seq(MixtureItem)
      /\ l.row \in Seq(MixtureItem)
  BY DEF FeedOK, FeedFits
<1>2. /\ p.seed = l.seed /\ p.cursor = l.cursor /\ p.buffer = RemoveAt(l.buffer, i)
      /\ p.row = Append(l.row, l.buffer[i])
  BY <1>1, PackedOneIs
<1> HIDE DEF p
<1>3. Len(p.buffer) = Len(l.buffer) - 1
  BY <1>1, <1>2, RemoveIsSeq
<1>4. p.row # <<>>
  <2>1. Append(l.row, l.buffer[i]) # <<>>
    BY <1>1
  <2> QED BY <1>2, <2>1
<1>5. Exhausted(l) => Exhausted(p)
  BY <1>2 DEF Exhausted, Schedule
<1>6. PackingBuffer > 1 /\ Len(l.buffer) = PackingBuffer => p.buffer # <<>>
  <2>1. PackingBuffer \in Nat /\ Len(<<>>) = 0
    BY ConversationAssumption
  <2> QED BY <1>3, <2>1
<1>7. PassOK(p)
  BY <1>4, <1>5, <1>6 DEF PassOK, FilledIn
<1> QED BY <1>7 DEF p

LEMMA ClosedHasMore ==
  ASSUME NEW l, FeedOK(l), PassOK(l), l.row # <<>>
  PROVE  PassOK(ClosedRow(l))
<1> DEFINE p == ClosedRow(l)
<1>1. /\ Shaped(l) /\ StatsShaped(l.stats) /\ l.rows \in Seq(Seq(MixtureItem))
      /\ l.row \in Seq(MixtureItem)
  BY DEF FeedOK, FeedFits
<1>2. /\ p.seed = l.seed /\ p.cursor = l.cursor /\ p.buffer = l.buffer
      /\ p.rows = Append(l.rows, l.row)
  BY <1>1, ClosedRowIs
<1> HIDE DEF p
<1>3. p.rows # <<>>
  <2>1. Append(l.rows, l.row) # <<>>
    BY <1>1
  <2> QED BY <1>2, <2>1
<1>4. Exhausted(l) => Exhausted(p)
  BY <1>2 DEF Exhausted, Schedule
<1>5. PassOK(p)
  BY <1>2, <1>3, <1>4 DEF PassOK
<1> QED BY <1>5 DEF p

LEMMA EmittedHasMore ==
  ASSUME NEW l, FeedOK(l), PassOK(l), IsReady(l)
  PROVE  PassOK(Emitted(l))
<1> DEFINE p == Emitted(l)
<1>1. Shaped(l) /\ StatsShaped(l.stats)
  BY DEF FeedOK, FeedFits
<1>2. /\ p.exhausted = (Exhausted(l) /\ l.buffer = <<>>) /\ p.buffer = l.buffer
      /\ p.rows = <<>> /\ p.row = l.row
  BY <1>1, EmittedIs
<1> HIDE DEF p
<1>3. l.row = <<>> /\ l.rows # <<>>
  BY DEF IsReady
<1>4. PassOK(p)
  BY <1>2, <1>3 DEF PassOK
<1> QED BY <1>4 DEF p

-----------------------------------------------------------------------------
(* Changes of the stage only.                                              *)

SameButStage(l, m) ==
  /\ Shaped(m) /\ m.draws = l.draws /\ m.epoch = l.epoch /\ m.seed = l.seed
  /\ m.step = l.step /\ m.globalStep = l.globalStep /\ m.exhausted = l.exhausted
  /\ m.packed = l.packed /\ m.cursor = l.cursor /\ m.buffer = l.buffer /\ m.stats = l.stats
  /\ m.rows = l.rows /\ m.row = l.row

LEMMA ShapedAreEqual ==
  ASSUME NEW l, NEW m, Shaped(l), SameButStage(l, m), m.at = l.at
  PROVE  m = l
  BY DEF Shaped, LoaderFields, SameButStage

LEMMA StageOnly ==
  ASSUME NEW l, Shaped(l), NEW at
  PROVE  SameButStage(l, [l EXCEPT !.at = at]) /\ [l EXCEPT !.at = at].at = at
  BY DEF Shaped, LoaderFields, SameButStage

LEMMA SameButStageIs ==
  ASSUME NEW l, NEW m, FeedFits(l), SameButStage(l, m)
  PROVE  /\ SameFeed(l, m) /\ m.exhausted = l.exhausted
         /\ FeedFits(l) /\ m.at \in FeedStages => FeedFits(m)
         /\ FeedCounts(l) => FeedCounts(m)
         /\ PassOK(l) => PassOK(m)
         /\ m.at # "rows" /\ l.at # "rows" /\ FeedOK(l) /\ m.at \in FeedStages => FeedOK(m)
<1>1. SameFeed(l, m) /\ m.exhausted = l.exhausted /\ l.exhausted \in BOOLEAN
  BY DEF SameButStage, SameFeed, FeedFits
<1>2. Exhausted(m) = Exhausted(l) /\ (m.at \in FeedStages => FeedFits(m))
      /\ (FeedCounts(l) => FeedCounts(m))
  BY <1>1, SameFeedIs
<1>3. PassOK(l) => PassOK(m)
  BY <1>1, <1>2 DEF PassOK, SameFeed
<1>4. m.at # "rows" /\ l.at # "rows" /\ FeedOK(l) /\ m.at \in FeedStages => FeedOK(m)
  BY <1>1, <1>2 DEF FeedOK, FeedRests, SameFeed
<1> QED BY <1>1, <1>2, <1>3, <1>4

LEMMA BeginIgnoresStage ==
  ASSUME NEW l, NEW m, Shaped(l), SameButStage(l, m)
  PROVE  BeginBatch(m) = BeginBatch(l)
<1> DEFINE x == IF l.exhausted THEN EpochStarted(l) ELSE l
           y == IF m.exhausted THEN EpochStarted(m) ELSE m
           b == BeginBatch(l)
           c == BeginBatch(m)
<1>1. Shaped(m)
  BY DEF SameButStage
<1>2. SameButStage(x, y)
  <2>1. CASE l.exhausted
    <3>1. /\ EpochStarted(l).draws = l.draws + 1
          /\ EpochStarted(l).epoch = l.epoch + 1
          /\ EpochStarted(l).seed = l.draws + 1 /\ EpochStarted(l).step = 0
          /\ EpochStarted(l).globalStep = l.globalStep
          /\ EpochStarted(l).exhausted = FALSE /\ EpochStarted(l).packed = 0
          /\ EpochStarted(l).cursor = 0 /\ EpochStarted(l).buffer = <<>>
          /\ EpochStarted(l).stats = l.stats /\ EpochStarted(l).rows = l.rows
          /\ EpochStarted(l).row = l.row
      BY EpochStartedIs
    <3>2. /\ Shaped(EpochStarted(m)) /\ EpochStarted(m).draws = m.draws + 1
          /\ EpochStarted(m).epoch = m.epoch + 1
          /\ EpochStarted(m).seed = m.draws + 1 /\ EpochStarted(m).step = 0
          /\ EpochStarted(m).globalStep = m.globalStep
          /\ EpochStarted(m).exhausted = FALSE /\ EpochStarted(m).packed = 0
          /\ EpochStarted(m).cursor = 0 /\ EpochStarted(m).buffer = <<>>
          /\ EpochStarted(m).stats = m.stats /\ EpochStarted(m).rows = m.rows
          /\ EpochStarted(m).row = m.row
      BY <1>1, EpochStartedIs
    <3>3. SameButStage(EpochStarted(l), EpochStarted(m))
      BY <3>1, <3>2 DEF SameButStage
    <3>4. x = EpochStarted(l) /\ y = EpochStarted(m)
      BY <2>1 DEF SameButStage
    <3> QED BY <3>3, <3>4
  <2>2. CASE ~l.exhausted
    <3>1. x = l /\ y = m
      BY <2>2 DEF SameButStage
    <3> QED BY <3>1
  <2> QED BY <2>1, <2>2
<1>3. /\ Shaped(b) /\ b.at = "rows" /\ b.draws = x.draws /\ b.epoch = x.epoch
      /\ b.seed = x.seed /\ b.step = x.step /\ b.globalStep = x.globalStep
      /\ b.exhausted = x.exhausted /\ b.packed = x.packed /\ b.cursor = x.cursor
      /\ b.buffer = x.buffer /\ b.stats = x.stats /\ b.rows = x.rows /\ b.row = x.row
  BY BeginBatchIs
<1>4. /\ Shaped(c) /\ c.at = "rows" /\ c.draws = y.draws /\ c.epoch = y.epoch
      /\ c.seed = y.seed /\ c.step = y.step /\ c.globalStep = y.globalStep
      /\ c.exhausted = y.exhausted /\ c.packed = y.packed /\ c.cursor = y.cursor
      /\ c.buffer = y.buffer /\ c.stats = y.stats /\ c.rows = y.rows /\ c.row = y.row
  BY <1>1, BeginBatchIs
<1> HIDE DEF b, c, x, y
<1>5. SameButStage(b, c) /\ c.at = b.at
  BY <1>2, <1>3, <1>4 DEF SameButStage
<1>6. c = b
  BY <1>3, <1>5, ShapedAreEqual
<1> QED BY <1>6 DEF b, c

\* The next batch is begun.
LEMMA BegunIsOK ==
  ASSUME InputsOK, NEW l, NEW d, FeedFits(l), FeedCounts(l), PassOK(l), Accounted(l, d),
         l.rows = <<>>, l.row = <<>>,
         l.exhausted => l.buffer = <<>> /\ l.epoch + 1 < MaxSftEpochs
  PROVE  LET b == BeginBatch(l)
         IN  /\ FeedOK(b) /\ PassOK(b) /\ Accounted(b, d) /\ b.at = "rows"
             /\ ~l.exhausted => b.epoch = l.epoch
<1> DEFINE x == IF l.exhausted THEN EpochStarted(l) ELSE l
           b == BeginBatch(l)
<1>1. Shaped(l) /\ StatsShaped(l.stats) /\ l.exhausted \in BOOLEAN
  BY DEF FeedFits
<1>2. /\ FeedFits(x) /\ FeedCounts(x) /\ PassOK(x) /\ Accounted(x, d)
      /\ x.rows = <<>> /\ x.row = <<>> /\ ~x.exhausted
      /\ ~l.exhausted => x.epoch = l.epoch
  <2>1. CASE l.exhausted
    <3>1. x = EpochStarted(l)
      BY <2>1
    <3>2. /\ FeedFits(x) /\ FeedCounts(x) /\ ~x.exhausted /\ x.packed = 0
          /\ x.epoch = l.epoch + 1 /\ x.rows = <<>> /\ x.row = <<>> /\ x.buffer = <<>>
          /\ x.globalStep = l.globalStep /\ Wanted(x) = {}
      <4>1. l.buffer = <<>> /\ l.epoch + 1 < MaxSftEpochs
        BY <2>1
      <4> HIDE DEF x
      <4> QED BY <3>1, <4>1, NextEpochIsOK
    <3> HIDE DEF x
    <3>3. Accounted(x, d)
      BY <3>2, NextEpochIsAccounted
    <3>4. PassOK(x)
      BY <3>2 DEF PassOK
    <3> QED BY <2>1, <3>2, <3>3, <3>4
  <2>2. CASE ~l.exhausted
    <3>1. x = l
      BY <2>2
    <3> QED BY <2>2, <3>1
  <2> QED BY <1>1, <2>1, <2>2
<1>3. b = [x EXCEPT !.at = "rows"]
  BY DEF BeginBatch
<1> HIDE DEF x, b
<1>4. SameButStage(x, b) /\ b.at = "rows"
  BY <1>2, <1>3, StageOnly DEF FeedFits
<1>5. SameFeed(x, b) /\ FeedFits(b) /\ FeedCounts(b) /\ PassOK(b) /\ ~b.exhausted
  BY <1>2, <1>4, SameButStageIs DEF FeedStages
<1>6. Accounted(b, d)
  BY <1>2, <1>5, AccountedSame
<1>7. FeedOK(b)
  BY <1>4, <1>5 DEF FeedOK, FeedRests
<1>8. ~l.exhausted => b.epoch = l.epoch
  BY <1>2, <1>4 DEF SameButStage
<1> QED BY <1>4, <1>5, <1>6, <1>7, <1>8 DEF b

\* The loader is opened.
LEMMA OpenedIsOK ==
  ASSUME InputsOK, NEW d, Len(d) \in Nat
  PROVE  FeedOK(OpenedFeed) /\ PassOK(OpenedFeed) /\ Accounted(OpenedFeed, d)
<1> DEFINE o == OpenedFeed
           none == <<>>
<1>1. /\ Shaped(o) /\ StatsShaped(o.stats) /\ o.at = "idle" /\ o.draws = 1 /\ o.epoch = 0
      /\ o.seed = 1 /\ o.globalStep = 0 /\ o.exhausted = FALSE
      /\ o.packed = 0 /\ o.cursor = 0 /\ o.buffer = none
      /\ o.stats.seen = 0 /\ o.stats.skipped = 0 /\ o.stats.packed = 0
      /\ o.rows = none /\ o.row = none
  BY OpenedFeedIs
<1> HIDE DEF o
<1>2. MaxSftEpochs \in Nat \ {0}
  BY ConversationAssumption
<1>3. o.seed \in 1 .. MaxSftEpochs /\ o.epoch \in 0 .. MaxSftEpochs - 1
  BY <1>1, <1>2
<1>4. Len(Schedule(o)) \in Nat
  <2>1. schedules[o.seed] \in MixtureOrders
    BY <1>3 DEF InputsOK
  <2>2. schedules[o.seed] \in Seq(DOMAIN Repeats)
    BY <2>1, ConversationAssumption
  <2> QED BY <2>2 DEF Schedule
<1>5. InEpoch(o)
  BY <1>1, <1>3, <1>4 DEF InEpoch
<1>6. Wanted(o) = {} /\ IsFiniteSet(Wanted(o)) /\ Cardinality(Wanted(o)) = 0
  BY <1>1, <1>5, WantedStarts
<1>7. /\ none \in Seq(MixtureItem) /\ none \in Seq(Seq(MixtureItem)) /\ Len(none) = 0
      /\ ToSet(none) = {} /\ IsInjective(none) /\ FlattenSeq(none) = none
  <2>1. none \in Seq(MixtureItem) /\ ToSet(none) = {} /\ IsInjective(none)
    BY NoElement
  <2>2. FlattenSeq(none) = none
    BY DEF FlattenSeq
  <2> QED BY <2>1, <2>2
<1> HIDE DEF none
<1>8. FeedFits(o)
  <2>1. o.draws = o.epoch + 1 /\ o.seed = o.epoch + 1 /\ o.globalStep \in Nat
    BY <1>1
  <2>2. o.exhausted \in BOOLEAN /\ o.at \in FeedStages
    BY <1>1 DEF FeedStages
  <2>3. /\ o.buffer \in Seq(MixtureItem) /\ o.row \in Seq(MixtureItem)
        /\ o.rows \in Seq(Seq(MixtureItem))
    BY <1>1, <1>7
  <2> QED BY <1>1, <1>3, <1>5, <2>1, <2>2, <2>3 DEF FeedFits
<1>9. FeedCounts(o)
  BY <1>1, <1>6, <1>7 DEF FeedCounts
<1>10. FeedRests(o) /\ PassOK(o)
  BY <1>1 DEF FeedRests, PassOK, none
<1>11. UnderwayIn(o) = {} /\ IsInjective(Underway(o))
  <2>1. UnderwaySplits(o, FlattenSeq(none), none, none)
    BY <1>1, <1>7, UnderwayIs
  <2> QED BY <1>7, <2>1 DEF UnderwaySplits
<1>12. StepsOf(o, d) = {}
  BY <1>1 DEF StepsOf
<1>13. Accounted(o, d)
  BY <1>1, <1>6, <1>11, <1>12 DEF Accounted
<1> QED BY <1>8, <1>9, <1>10, <1>13 DEF FeedOK, o

-----------------------------------------------------------------------------
(* The inductive invariant.                                                *)

Passes == [active : BOOLEAN, epoch : Int, yielded : SUBSET Int]
PassHolds(pass, l) ==
  PackingBuffer > 1 =>
    /\ pass.yielded \subseteq {pass.epoch}
    /\ pass.active => l.epoch = pass.epoch /\ ~l.exhausted

\* Where a loader stands in the orbit, and what was delivered there.
Follows(f, l) == \E n \in Nat : f[n] = IF l.at = "rows" THEN l ELSE BeginBatch(l)
Delivers(f, d) ==
  \A g \in 1 .. Len(d) : \E n \in Nat :
    IsReady(f[n]) /\ f[n].globalStep + 1 = g /\ d[g] = {BatchMade(f[n])}
InOrbit(l, s, d) == \E f : IsOrbit(f) /\ Follows(f, l) /\ Follows(f, s) /\ Delivers(f, d)

RunningOK(l, d) == FeedOK(l) /\ PassOK(l) /\ Accounted(l, d) /\ l.at # "saved"
SavedOK(s, d)   == FeedOK(s) /\ PassOK(s) /\ Accounted(s, d) /\ s.at # "rows"

ConversationInv ==
  /\ InputsOK
  /\ RunningOK(feed, delivered)
  /\ SavedOK(savedFeed, delivered)
  /\ delivered \in Seq(SUBSET ItemBatch)
  /\ epochPass \in Passes /\ PassHolds(epochPass, feed)
  /\ InOrbit(feed, savedFeed, delivered)

\* Two batches of one step are the same batch.
LEMMA OneBatchPerStep ==
  ASSUME NEW f, IsOrbit(f), NEW m \in Nat, NEW n \in Nat, IsReady(f[m]), IsReady(f[n]),
         f[m].globalStep = f[n].globalStep
  PROVE  m = n
<1>1. f[m].globalStep \in Nat
  BY OrbitRolls DEF Rolling
<1>2. ~(m < n)
  BY <1>1, OrbitRolls
<1>3. ~(n < m)
  BY <1>1, OrbitRolls
<1> QED BY <1>2, <1>3

\* A loader that follows the orbit goes on in it.
LEMMA FollowsOn ==
  ASSUME NEW f, IsOrbit(f), NEW l, Follows(f, l), l.at = "rows", NEW m,
         Advance(l) = IF m.at = "rows" THEN m ELSE BeginBatch(m)
  PROVE  Follows(f, m)
<1>1. PICK n \in Nat : f[n] = l
  BY DEF Follows
<1>2. n + 1 \in Nat /\ f[n + 1] = Advance(l)
  BY <1>1 DEF IsOrbit
<1> QED BY <1>2 DEF Follows

\* What the invariant means.
LEMMA InvMeansFixed ==
  ASSUME ConversationInv
  PROVE  StreamIsFixed
<1>1. DOMAIN delivered = 1 .. Len(delivered)
  BY DEF ConversationInv
<1>2. PICK f : Delivers(f, delivered)
  BY DEF ConversationInv, InOrbit
<1>3. ASSUME NEW g \in 1 .. Len(delivered) PROVE Cardinality(delivered[g]) = 1
  <2>1. PICK n \in Nat : delivered[g] = {BatchMade(f[n])}
    BY <1>2 DEF Delivers
  <2> QED BY <2>1, FS_Singleton
<1> QED BY <1>1, <1>3 DEF StreamIsFixed

\* The batch of each step.
LEMMA BatchesAre ==
  ASSUME ConversationInv
  PROVE  /\ DOMAIN delivered = 1 .. Len(delivered) /\ Len(delivered) \in Nat
         /\ \A g \in 1 .. Len(delivered) : delivered[g] = {BatchAt(delivered, g)}
         /\ feed.exhausted => \A g \in 1 .. Len(delivered) :
              BatchAt(delivered, g).epoch = feed.epoch => g <= feed.globalStep
<1>1. DOMAIN delivered = 1 .. Len(delivered) /\ Len(delivered) \in Nat
  BY DEF ConversationInv
<1>2. PICK f : IsOrbit(f) /\ Follows(f, feed) /\ Delivers(f, delivered)
  BY DEF ConversationInv, InOrbit
<1>3. \A g \in 1 .. Len(delivered) : delivered[g] = {BatchAt(delivered, g)}
  <2> TAKE g \in 1 .. Len(delivered)
  <2>1. PICK n \in Nat : delivered[g] = {BatchMade(f[n])}
    BY <1>2 DEF Delivers
  <2> HIDE DEF BatchMade
  <2> QED BY <2>1 DEF BatchAt
<1>4. ASSUME feed.exhausted, NEW g \in 1 .. Len(delivered),
             BatchAt(delivered, g).epoch = feed.epoch, ~(g <= feed.globalStep)
      PROVE  FALSE
  <2>1. /\ Shaped(feed) /\ StatsShaped(feed.stats) /\ feed.globalStep \in Nat
        /\ feed.epoch \in Int /\ feed.at # "rows"
    <3>1. FeedFits(feed) /\ FeedRests(feed)
      BY DEF ConversationInv, RunningOK, FeedOK
    <3> QED BY <1>4, <3>1 DEF FeedFits, FeedRests
  <2>2. PICK m \in Nat : f[m] = BeginBatch(feed)
    BY <1>2, <2>1 DEF Follows
  <2>3. f[m].globalStep = feed.globalStep /\ f[m].epoch = feed.epoch + 1
    BY <1>4, <2>1, <2>2, BeginBatchRolls DEF Rolling
  <2>4. PICK n \in Nat : /\ IsReady(f[n]) /\ f[n].globalStep + 1 = g
                         /\ delivered[g] = {BatchMade(f[n])}
    BY <1>2 DEF Delivers
  <2>5. f[n].epoch = feed.epoch
    <3>1. BatchAt(delivered, g) = BatchMade(f[n])
      <4> HIDE DEF BatchMade
      <4> QED BY <2>4 DEF BatchAt
    <3> QED BY <1>4, <3>1 DEF BatchMade
  <2>6. f[n].globalStep \in Nat /\ f[n].globalStep >= f[m].globalStep
    <3>1. f[n].globalStep \in Nat
      BY <1>2, OrbitRolls DEF Rolling
    <3>2. f[n].globalStep + 1 = g /\ ~(g <= feed.globalStep) /\ f[m].globalStep = feed.globalStep
      BY <1>4, <2>3, <2>4
    <3> QED BY ONLY <2>1, <3>1, <3>2
  <2>7. ~(n < m)
    <3> SUFFICES ASSUME n < m PROVE FALSE
      OBVIOUS
    <3>1. f[n].globalStep < f[m].globalStep
      BY <1>2, <2>4, OrbitRolls
    <3> QED BY <2>1, <2>3, <2>6, <3>1
  <2>8. f[m].epoch <= f[n].epoch
    <3>1. m <= n
      BY <2>7
    <3> QED BY <1>2, <3>1, OrbitRolls
  <2> QED BY <2>1, <2>3, <2>5, <2>8
<1> QED BY <1>1, <1>3, <1>4

LEMMA InvMeansNothingLost ==
  ASSUME ConversationInv
  PROVE  NothingLostOrRepeated
<1> DEFINE wanted == {item \in PulledItems(feed) : Supervised(item)}
           steps == StepsOf(feed, delivered)
           d == delivered
<1>1. FeedFits(feed) /\ FeedCounts(feed) /\ FeedRests(feed) /\ Accounted(feed, delivered)
  BY DEF ConversationInv, RunningOK, FeedOK
<1>2. wanted = Wanted(feed)
  BY DEF Wanted
<1>3. feed.stats.seen - feed.stats.skipped = feed.stats.packed + Len(feed.buffer)
  BY <1>1 DEF FeedCounts
<1>4. IsInjective(Underway(feed)) /\ ToSet(Underway(feed)) \subseteq wanted
  BY <1>1, <1>2 DEF Accounted, UnderwayIn
<1>5. ASSUME feed.exhausted
      PROVE  /\ Cardinality(wanted) = feed.packed
             /\ PackedIn(feed.epoch) = wanted
             /\ \A g, h \in DOMAIN delivered :
                  \A one \in delivered[g] \cap EpochBatches(feed.epoch) :
                    /\ IsInjective(ItemsOf(one))
                    /\ \A other \in delivered[h] \cap EpochBatches(feed.epoch) :
                         g # h => ToSet(ItemsOf(one)) \cap ToSet(ItemsOf(other)) = {}
  <2>1. feed.buffer = <<>> /\ feed.at # "rows" /\ feed.rows = <<>> /\ feed.row = <<>>
    BY <1>1, <1>5 DEF FeedRests
  <2>2. Cardinality(wanted) = feed.packed
    <3>1. Cardinality(Wanted(feed)) = feed.packed + Len(feed.buffer) /\ feed.packed \in Nat
      BY <1>1 DEF FeedCounts
    <3>2. Len(feed.buffer) = 0
      BY <2>1
    <3> HIDE DEF wanted
    <3> QED BY <1>2, <3>1, <3>2
  <2>3. UnderwayIn(feed) = {}
    <3> DEFINE none == <<>>
    <3>1. /\ none \in Seq(MixtureItem) /\ none \in Seq(Seq(MixtureItem))
          /\ ToSet(none) = {} /\ FlattenSeq(none) = none
      <4>1. none \in Seq(MixtureItem) /\ ToSet(none) = {}
        BY NoElement
      <4>2. FlattenSeq(none) = none
        BY DEF FlattenSeq
      <4> QED BY <4>1, <4>2
    <3>2. feed.rows = none /\ feed.row = none /\ feed.buffer = none
      BY <2>1
    <3> HIDE DEF none
    <3>3. UnderwaySplits(feed, FlattenSeq(none), none, none)
      BY <3>1, <3>2, UnderwayIs
    <3> QED BY <3>1, <3>3 DEF UnderwaySplits
  <2>4. /\ DOMAIN d = 1 .. Len(d) /\ Len(d) \in Nat
        /\ \A g \in 1 .. Len(d) : d[g] = {BatchAt(d, g)}
        /\ \A g \in 1 .. Len(d) : BatchAt(d, g).epoch = feed.epoch => g <= feed.globalStep
    BY <1>5, BatchesAre
  <2>5. feed.globalStep \in Nat /\ feed.globalStep <= Len(d)
    BY <1>1 DEF FeedFits, Accounted
  <2>6. \A g : g \in steps <=> g \in 1 .. Len(d) /\ BatchAt(d, g).epoch = feed.epoch
    BY <2>4, <2>5 DEF StepsOf
  <2> HIDE DEF steps
  <2>7. \A one : one \in EpochBatches(feed.epoch) <=> \E g \in steps : one = BatchAt(d, g)
    <3>1. ASSUME NEW one \in EpochBatches(feed.epoch)
          PROVE  \E g \in steps : one = BatchAt(d, g)
      <4>1. one.epoch = feed.epoch /\ \E g \in DOMAIN d : one \in d[g]
        BY DEF EpochBatches
      <4>2. PICK g \in 1 .. Len(d) : one \in d[g]
        BY <2>4, <4>1
      <4>3. one = BatchAt(d, g)
        BY <2>4, <4>2
      <4> QED BY <2>6, <4>1, <4>2, <4>3
    <3>2. ASSUME NEW g \in steps
          PROVE  BatchAt(d, g) \in EpochBatches(feed.epoch)
      <4>1. g \in DOMAIN d /\ BatchAt(d, g) \in d[g] /\ BatchAt(d, g).epoch = feed.epoch
        BY <2>4, <2>6
      <4> HIDE DEF d
      <4> QED BY <4>1 DEF EpochBatches, d
    <3> QED BY <3>1, <3>2
  <2>8. PackedIn(feed.epoch) = wanted
    <3>1. \A x : x \in PackedIn(feed.epoch) <=> \E g \in steps : x \in GivenAt(d, g)
      <4>1. \A x : x \in PackedIn(feed.epoch) <=>
              \E one \in EpochBatches(feed.epoch) : x \in ToSet(ItemsOf(one))
        BY DEF PackedIn
      <4>2. \A x, g : x \in GivenAt(d, g) <=> x \in ToSet(ItemsOf(BatchAt(d, g)))
        BY DEF GivenAt
      <4> HIDE DEF d
      <4> QED BY <2>7, <4>1, <4>2
    <3>2. \A x : x \in Wanted(feed) <=> \E g \in steps : x \in GivenAt(d, g)
      BY <1>1, <2>3 DEF Accounted, steps
    <3>3. \A x : x \in PackedIn(feed.epoch) <=> x \in Wanted(feed)
      BY <3>1, <3>2
    <3> HIDE DEF wanted
    <3> QED BY <1>2, <3>3
  <2>9. ASSUME NEW g \in DOMAIN d, NEW h \in DOMAIN d,
               NEW one \in d[g] \cap EpochBatches(feed.epoch)
        PROVE  /\ IsInjective(ItemsOf(one))
               /\ \A other \in d[h] \cap EpochBatches(feed.epoch) :
                    g # h => ToSet(ItemsOf(one)) \cap ToSet(ItemsOf(other)) = {}
    <3>1. \A k \in DOMAIN d : \A x \in d[k] \cap EpochBatches(feed.epoch) :
            k \in steps /\ x = BatchAt(d, k)
      <4> TAKE k \in DOMAIN d
      <4> TAKE x \in d[k] \cap EpochBatches(feed.epoch)
      <4>1. k \in 1 .. Len(d) /\ x = BatchAt(d, k)
        BY <2>4
      <4>2. x.epoch = feed.epoch
        BY DEF EpochBatches
      <4> QED BY <2>6, <4>1, <4>2
    <3>2. /\ \A k \in steps : IsInjective(ItemsOf(BatchAt(d, k)))
          /\ \A j, k \in steps : j # k => GivenAt(d, j) \cap GivenAt(d, k) = {}
      BY <1>1 DEF Accounted, steps
    <3>3. g \in steps /\ one = BatchAt(d, g)
      BY <3>1
    <3>4. ASSUME NEW other \in d[h] \cap EpochBatches(feed.epoch), g # h
          PROVE  ToSet(ItemsOf(one)) \cap ToSet(ItemsOf(other)) = {}
      <4>1. h \in steps /\ other = BatchAt(d, h)
        BY <3>1
      <4> QED BY <3>2, <3>3, <3>4, <4>1 DEF GivenAt
    <3> QED BY <3>2, <3>3, <3>4
  <2> QED BY <2>2, <2>8, <2>9
<1> QED BY <1>3, <1>4, <1>5 DEF NothingLostOrRepeated

LEMMA InvMeansExact == ConversationInv => ConversationsAreExact
<1> SUFFICES ASSUME ConversationInv PROVE ConversationsAreExact
  OBVIOUS
<1>1. StreamIsFixed /\ NothingLostOrRepeated
  BY InvMeansFixed, InvMeansNothingLost
<1>2. PassIsOneEpoch
  BY DEF PassIsOneEpoch, ConversationInv, PassHolds
<1> QED BY <1>1, <1>2 DEF ConversationsAreExact

-----------------------------------------------------------------------------
(* Every action preserves it.                                              *)

SumOf(sizes) == FoldLeft(+, 0, sizes)

\* The inputs are fixed, and with them all that depends on nothing else.
LEMMA FixedInputs ==
  ASSUME UNCHANGED feedInputs
  PROVE  /\ InputsOK' = InputsOK
         /\ \A l : FeedOK(l)' = FeedOK(l) /\ PassOK(l)' = PassOK(l) /\ IsReady(l)' = IsReady(l)
         /\ \A l, d : Accounted(l, d)' = Accounted(l, d)
         /\ \A f : IsOrbit(f)' = IsOrbit(f)
<1>1. sources' = sources /\ schedules' = schedules /\ turning' = turning
  BY DEF feedInputs
<1>2. InputsOK' = InputsOK
  BY <1>1 DEF InputsOK
<1>3. \A item : SizeOf(item)' = SizeOf(item) /\ Supervised(item)' = Supervised(item)
  BY <1>1 DEF SizeOf, Supervised, ConversationOf, RowAt
<1>4. \A l : /\ Schedule(l)' = Schedule(l) /\ Exhausted(l)' = Exhausted(l)
             /\ InEpoch(l)' = InEpoch(l) /\ NextItem(l)' = NextItem(l)
  BY <1>1 DEF Schedule, Exhausted, InEpoch, NextItem, SourceCursor
<1>5. \A l : Wanted(l)' = Wanted(l)
  BY <1>1, <1>3 DEF Wanted, PulledItems, SourceCursor, Schedule
<1>6. \A l : FeedOK(l)' = FeedOK(l)
  BY <1>4, <1>5 DEF FeedOK, FeedFits, FeedCounts, FeedRests
<1>7. \A l : PassOK(l)' = PassOK(l)
  BY <1>4 DEF PassOK
<1>8. \A l : IsReady(l)' = IsReady(l) /\ FilledIn(l)' = FilledIn(l)
  BY <1>4 DEF IsReady, FilledIn
<1>9. \A l, d : Accounted(l, d)' = Accounted(l, d)
  BY <1>5 DEF Accounted
<1>10. \A row : RowSize(row)' = RowSize(row)
  <2> TAKE row
  <2> DEFINE sizes == [i \in DOMAIN row |-> SizeOf(row[i])]
  <2>1. sizes' = sizes
    BY <1>3
  <2>2. RowSize(row) = SumOf(sizes) /\ RowSize(row)' = SumOf(sizes)'
    BY DEF RowSize, SumOf
  <2> HIDE DEF sizes
  <2> QED BY <2>1, <2>2
<1>11. \A l : RoomIn(l)' = RoomIn(l) /\ WantsRow(l)' = WantsRow(l)
  BY <1>10 DEF RoomIn, WantsRow
<1>12. \A buffer, room : LargestFitting(buffer, room)' = LargestFitting(buffer, room)
  BY <1>3 DEF LargestFitting
<1>13. \A l : PulledOne(l)' = PulledOne(l) /\ ClosedRow(l)' = ClosedRow(l)
              /\ Emitted(l)' = Emitted(l)
  BY <1>3, <1>4, <1>11 DEF PulledOne, ClosedRow, Emitted
<1>14. \A l : Advance(l)' = Advance(l)
  <2>1. \A l : Fitting(l)' = Fitting(l)
    BY <1>11, <1>12 DEF Fitting
  <2>2. \A l : Largest(l)' = Largest(l)
    BY <2>1 DEF Largest
  <2> QED BY <1>8, <1>11, <1>13, <2>1, <2>2 DEF Advance
<1>15. \A f : IsOrbit(f)' = IsOrbit(f)
  BY <1>14 DEF IsOrbit
<1> QED BY <1>2, <1>6, <1>7, <1>8, <1>9, <1>15

LEMMA InvIsKept ==
  ASSUME ConversationInv, UNCHANGED feedInputs,
         RunningOK(feed', delivered'), SavedOK(savedFeed', delivered'),
         delivered' \in Seq(SUBSET ItemBatch),
         epochPass' \in Passes, PassHolds(epochPass', feed'),
         InOrbit(feed', savedFeed', delivered')
  PROVE  ConversationInv'
<1>1. /\ InputsOK' = InputsOK
      /\ \A l : FeedOK(l)' = FeedOK(l) /\ PassOK(l)' = PassOK(l) /\ IsReady(l)' = IsReady(l)
      /\ \A l, d : Accounted(l, d)' = Accounted(l, d)
      /\ \A f : IsOrbit(f)' = IsOrbit(f)
  BY FixedInputs
<1>2. InputsOK'
  BY <1>1 DEF ConversationInv
<1>3. RunningOK(feed, delivered)'
  BY <1>1 DEF RunningOK
<1>4. SavedOK(savedFeed, delivered)'
  BY <1>1 DEF SavedOK
<1>5. InOrbit(feed, savedFeed, delivered)'
  <2>1. PICK f : /\ IsOrbit(f) /\ Follows(f, feed') /\ Follows(f, savedFeed')
                 /\ Delivers(f, delivered')
    BY DEF InOrbit
  <2>2. IsOrbit(f)'
    BY <1>1, <2>1
  <2>3. Follows(f, feed)' /\ Follows(f, savedFeed)'
    BY <2>1 DEF Follows
  <2>4. Delivers(f, delivered)'
    BY <1>1, <2>1 DEF Delivers
  <2> QED BY <2>2, <2>3, <2>4 DEF InOrbit
<1>6. PassHolds(epochPass, feed)'
  BY DEF PassHolds
<1> QED BY <1>2, <1>3, <1>4, <1>5, <1>6 DEF ConversationInv

LEMMA StartKeepsInv ==
  ASSUME ConversationInv, StartBatch
  PROVE  ConversationInv'
<1>1. /\ InputsOK /\ FeedFits(feed) /\ FeedCounts(feed) /\ FeedRests(feed) /\ PassOK(feed)
      /\ Accounted(feed, delivered) /\ SavedOK(savedFeed, delivered)
      /\ delivered \in Seq(SUBSET ItemBatch) /\ epochPass \in Passes
      /\ PassHolds(epochPass, feed) /\ InOrbit(feed, savedFeed, delivered)
  BY DEF ConversationInv, RunningOK, FeedOK
<1>2. /\ feed.at = "idle" /\ (feed.exhausted => feed.epoch + 1 < MaxSftEpochs)
      /\ feed' = BeginBatch(feed) /\ UNCHANGED <<feedInputs, savedFeed, epochPass, delivered>>
  BY DEF StartBatch
<1>3. /\ feed.rows = <<>> /\ feed.row = <<>>
      /\ feed.exhausted => feed.buffer = <<>> /\ feed.epoch + 1 < MaxSftEpochs
  BY <1>1, <1>2 DEF FeedRests
<1> DEFINE b == BeginBatch(feed)
<1>4. /\ FeedOK(b) /\ PassOK(b) /\ Accounted(b, delivered) /\ b.at = "rows"
      /\ ~feed.exhausted => b.epoch = feed.epoch
  BY <1>1, <1>3, BegunIsOK
<1> HIDE DEF b
<1>5. RunningOK(b, delivered)
  BY <1>4 DEF RunningOK
<1>6. PassHolds(epochPass, b)
  BY <1>1, <1>4 DEF PassHolds, FeedOK, FeedRests
<1>7. InOrbit(b, savedFeed, delivered)
  <2>1. PICK f : /\ IsOrbit(f) /\ Follows(f, feed) /\ Follows(f, savedFeed)
                 /\ Delivers(f, delivered)
    BY <1>1 DEF InOrbit
  <2>2. Follows(f, b)
    <3>1. PICK n \in Nat : f[n] = b
      BY <1>2, <2>1 DEF Follows, b
    <3> QED BY <1>4, <3>1 DEF Follows
  <2> QED BY <2>1, <2>2 DEF InOrbit
<1>8. feed' = b
  BY <1>2 DEF b
<1> QED BY <1>1, <1>2, <1>5, <1>6, <1>7, <1>8, InvIsKept

\* While a batch is made, the loader goes on in the orbit.
LEMMA AdvanceKeepsInv ==
  ASSUME ConversationInv, feed.at = "rows", feed' = Advance(feed), feed'.at = "rows",
         UNCHANGED <<feedInputs, savedFeed, epochPass, delivered>>,
         FeedOK(feed'), PassOK(feed'), Accounted(feed', delivered),
         feed'.epoch = feed.epoch
  PROVE  ConversationInv'
<1> DEFINE l == feed'
<1>1. /\ SavedOK(savedFeed, delivered) /\ delivered \in Seq(SUBSET ItemBatch)
      /\ epochPass \in Passes /\ PassHolds(epochPass, feed)
      /\ InOrbit(feed, savedFeed, delivered)
  BY DEF ConversationInv
<1>2. RunningOK(l, delivered)
  BY DEF RunningOK
<1>3. PassHolds(epochPass, l)
  BY <1>1 DEF PassHolds, FeedOK, FeedRests
<1>4. InOrbit(l, savedFeed, delivered)
  <2>1. PICK f : /\ IsOrbit(f) /\ Follows(f, feed) /\ Follows(f, savedFeed)
                 /\ Delivers(f, delivered)
    BY <1>1 DEF InOrbit
  <2>2. Advance(feed) = IF l.at = "rows" THEN l ELSE BeginBatch(l)
    OBVIOUS
  <2> HIDE DEF l
  <2>3. Follows(f, l)
    BY <2>1, <2>2, FollowsOn
  <2> QED BY <2>1, <2>3 DEF InOrbit
<1> QED BY <1>1, <1>2, <1>3, <1>4, InvIsKept

LEMMA PullKeepsInv ==
  ASSUME ConversationInv, PullConversation
  PROVE  ConversationInv'
<1>1. InputsOK /\ FeedOK(feed) /\ PassOK(feed) /\ Accounted(feed, delivered)
  BY DEF ConversationInv, RunningOK
<1>2. feed.at = "rows" /\ WantsRow(feed) /\ ~FilledIn(feed)
  BY DEF PullConversation, RowWanted, Room, Filled, WantsRow, RoomIn, FilledIn
<1> DEFINE p == PulledOne(feed)
<1>3. feed' = p /\ UNCHANGED <<feedInputs, savedFeed, epochPass, delivered>>
  BY DEF PullConversation, PulledOne
<1>4. Advance(feed) = p
  BY <1>2 DEF Advance
<1>5. ~Exhausted(feed)
  BY <1>2 DEF FilledIn
<1>6. FeedOK(p) /\ PassOK(p) /\ Accounted(p, delivered)
  BY <1>1, <1>2, <1>5, PulledIsOK, PulledHasMore, PulledIsAccounted
<1>7. p.at = "rows" /\ p.epoch = feed.epoch
  BY <1>1, <1>2, PulledOneIs DEF FeedOK, FeedFits
<1> HIDE DEF p
<1> QED BY <1>2, <1>3, <1>4, <1>6, <1>7, AdvanceKeepsInv

LEMMA PackKeepsInv ==
  ASSUME ConversationInv, PackConversation
  PROVE  ConversationInv'
<1>1. InputsOK /\ FeedOK(feed) /\ PassOK(feed) /\ Accounted(feed, delivered)
  BY DEF ConversationInv, RunningOK
<1>2. feed.at = "rows" /\ WantsRow(feed) /\ FilledIn(feed)
  BY DEF PackConversation, RowWanted, Room, Filled, WantsRow, RoomIn, FilledIn
<1>3. PICK i \in Fitting(feed) : feed' = PackedOne(feed, i)
  BY DEF PackConversation, PackedOne, Fitting, Room, RoomIn
<1> DEFINE p == PackedOne(feed, i)
<1>4. UNCHANGED <<feedInputs, savedFeed, epochPass, delivered>>
  BY DEF PackConversation
<1>5. i \in 1 .. Len(feed.buffer) /\ i = Largest(feed)
  <2>1. feed.buffer \in Seq(MixtureItem)
    BY <1>1 DEF FeedOK, FeedFits
  <2>2. i \in LargestFitting(feed.buffer, RoomIn(feed))
    BY DEF Fitting
  <2> QED BY <1>1, <2>1, <2>2, LargestIsOne DEF Largest, Fitting
<1>6. Advance(feed) = p
  BY <1>2, <1>5 DEF Advance
<1>7. FeedOK(p) /\ PassOK(p) /\ Accounted(p, delivered)
  BY <1>1, <1>2, <1>5, PackedIsOK, PackedHasMore, PackedIsAccounted
<1>8. p.at = "rows" /\ p.epoch = feed.epoch
  BY <1>1, <1>2, PackedOneIs DEF FeedOK, FeedFits
<1>9. feed' = p
  BY <1>3
<1> HIDE DEF p
<1> QED BY <1>2, <1>4, <1>6, <1>7, <1>8, <1>9, AdvanceKeepsInv

LEMMA CloseKeepsInv ==
  ASSUME ConversationInv, CloseRow
  PROVE  ConversationInv'
<1>1. InputsOK /\ FeedOK(feed) /\ PassOK(feed) /\ Accounted(feed, delivered)
  BY DEF ConversationInv, RunningOK
<1>2. /\ feed.at = "rows" /\ feed.row # <<>>
      /\ RoomIn(feed) = 0 \/ (FilledIn(feed) /\ Fitting(feed) = {})
  BY DEF CloseRow, Room, Filled, RoomIn, FilledIn, Fitting
<1> DEFINE p == ClosedRow(feed)
<1>3. feed' = p /\ UNCHANGED <<feedInputs, savedFeed, epochPass, delivered>>
  BY DEF CloseRow, ClosedRow, Room, RoomIn
<1>4. Advance(feed) = p
  <2>1. CASE RoomIn(feed) = 0
    <3>1. ~WantsRow(feed)
      BY <2>1 DEF WantsRow
    <3> QED BY <1>2, <3>1 DEF Advance
  <2>2. CASE FilledIn(feed) /\ Fitting(feed) = {}
    BY <1>2, <2>2 DEF Advance
  <2> QED BY <1>2, <2>1, <2>2
<1>5. FeedOK(p) /\ PassOK(p) /\ Accounted(p, delivered)
  BY <1>1, <1>2, ClosedIsOK, ClosedHasMore, ClosedIsAccounted
<1>6. p.at = "rows" /\ p.epoch = feed.epoch
  BY <1>1, <1>2, ClosedRowIs DEF FeedOK, FeedFits
<1> HIDE DEF p
<1> QED BY <1>2, <1>3, <1>4, <1>5, <1>6, AdvanceKeepsInv

\* What emitting makes of the batches delivered so far: on a step that was
\* reached before, the batch is the one delivered then.
LEMMA EmitDelivers ==
  ASSUME ConversationInv, EmitBatch
  PROVE  LET step == feed.globalStep + 1
         IN  /\ delivered' \in Seq(SUBSET ItemBatch) /\ Len(delivered') \in Nat
             /\ Len(delivered) <= Len(delivered') /\ step <= Len(delivered')
             /\ \A g \in 1 .. Len(delivered) : delivered'[g] = delivered[g]
             /\ delivered'[step] = {BatchMade(feed)}
             /\ \A g \in 1 .. Len(delivered') : g \in 1 .. Len(delivered) \/ g = step
<1> DEFINE step == feed.globalStep + 1
           batch == BatchMade(feed)
           d == delivered
           e == delivered'
<1>1. /\ FeedFits(feed) /\ Accounted(feed, d) /\ d \in Seq(SUBSET ItemBatch)
      /\ feed.at = "rows" /\ IsReady(feed)
  BY DEF ConversationInv, RunningOK, FeedOK, EmitBatch, BatchIsReady, IsReady, Filled, FilledIn
<1>2. e = IF step > Len(d) THEN Append(d, {batch}) ELSE [d EXCEPT ![step] = @ \cup {batch}]
  BY DEF EmitBatch, BatchMade
<1>3. /\ step \in Nat \ {0} /\ Len(d) \in Nat /\ step <= Len(d) + 1
      /\ feed.globalStep \in Nat /\ feed.epoch \in Int /\ feed.rows \in Seq(Seq(MixtureItem))
  BY <1>1 DEF FeedFits, Accounted
<1>4. {batch} \in SUBSET ItemBatch
  <2>1. batch \in ItemBatch
    BY <1>3 DEF BatchMade, ItemBatch
  <2> QED BY <2>1
<1> HIDE DEF batch, step
<1>5. CASE step > Len(d)
  <2>1. e = Append(d, {batch}) /\ step = Len(d) + 1
    BY <1>2, <1>3, <1>5
  <2>2. /\ e \in Seq(SUBSET ItemBatch) /\ Len(e) = Len(d) + 1 /\ e[Len(d) + 1] = {batch}
        /\ \A g \in 1 .. Len(d) : e[g] = d[g]
    BY <1>1, <1>4, <2>1, AppendProperties
  <2>3. \A g \in 1 .. Len(e) : g \in 1 .. Len(d) \/ g = step
    BY <1>3, <2>1, <2>2
  <2> QED BY <1>3, <2>1, <2>2, <2>3 DEF batch, step
<1>6. CASE ~(step > Len(d))
  <2>1. PICK f : IsOrbit(f) /\ Follows(f, feed) /\ Delivers(f, d)
    BY DEF ConversationInv, InOrbit
  <2>2. PICK n \in Nat : f[n] = feed
    BY <1>1, <2>1 DEF Follows
  <2>3. step \in 1 .. Len(d)
    BY <1>3, <1>6
  <2>4. PICK m \in Nat : /\ IsReady(f[m]) /\ f[m].globalStep + 1 = step
                         /\ d[step] = {BatchMade(f[m])}
    BY <2>1, <2>3 DEF Delivers
  <2>5. f[m].globalStep = f[n].globalStep
    <3>1. f[m].globalStep \in Nat
      BY <2>1, OrbitRolls DEF Rolling
    <3>2. f[n].globalStep + 1 = step /\ f[n].globalStep \in Nat
      BY <1>3, <2>2 DEF step
    <3> QED BY <2>4, <3>1, <3>2
  <2>6. m = n
    BY <1>1, <2>1, <2>2, <2>4, <2>5, OneBatchPerStep
  <2>7. d[step] = {batch}
    BY <2>2, <2>4, <2>6 DEF batch
  <2>8. e = [d EXCEPT ![step] = @ \cup {batch}]
    BY <1>2, <1>6
  <2>9. e = d
    <3>1. d = [g \in 1 .. Len(d) |-> d[g]]
      BY <1>1
    <3>2. d[step] \cup {batch} = d[step]
      BY <2>7
    <3> QED BY <2>3, <2>8, <3>1, <3>2
  <2>10. step <= Len(d)
    BY <2>3
  <2> HIDE DEF d, e
  <2> QED BY <1>1, <1>3, <2>7, <2>9, <2>10 DEF d, e, step, batch
<1> QED BY <1>5, <1>6

LEMMA EmitKeepsInv ==
  ASSUME ConversationInv, EmitBatch
  PROVE  ConversationInv'
<1> DEFINE p == Emitted(feed)
           d == delivered
           e == delivered'
           step == feed.globalStep + 1
<1>1. /\ InputsOK /\ FeedOK(feed) /\ PassOK(feed) /\ Accounted(feed, d)
      /\ SavedOK(savedFeed, d) /\ d \in Seq(SUBSET ItemBatch) /\ Len(d) \in Nat
      /\ epochPass \in Passes /\ PassHolds(epochPass, feed)
      /\ InOrbit(feed, savedFeed, d)
  BY DEF ConversationInv, RunningOK
<1>2. feed.at = "rows" /\ IsReady(feed) /\ feed.row = <<>>
  BY DEF EmitBatch, BatchIsReady, IsReady, Filled, FilledIn
<1>3. feed' = p /\ UNCHANGED <<feedInputs, savedFeed>>
  BY DEF EmitBatch, Emitted
<1>4. /\ e \in Seq(SUBSET ItemBatch) /\ Len(e) \in Nat /\ Len(d) <= Len(e) /\ step <= Len(e)
      /\ \A g \in 1 .. Len(d) : e[g] = d[g]
      /\ e[step] = {BatchMade(feed)}
      /\ \A g \in 1 .. Len(e) : g \in 1 .. Len(d) \/ g = step
  BY EmitDelivers
<1>5. FeedFits(feed) /\ feed.globalStep \in Nat /\ feed.epoch \in Int
  BY <1>1 DEF FeedOK, FeedFits
<1> HIDE DEF d, e
<1>6. FeedOK(p) /\ PassOK(p) /\ Accounted(p, e)
  <2>1. FeedOK(p) /\ PassOK(p)
    BY <1>1, <1>2, EmittedIsOK, EmittedHasMore
  <2>2. Accounted(p, e)
    BY <1>1, <1>2, <1>4, EmittedIsAccounted
  <2> QED BY <2>1, <2>2
<1>7. /\ p.at = "idle" /\ p.epoch = feed.epoch
      /\ p.exhausted = (Exhausted(feed) /\ feed.buffer = <<>>)
  BY <1>5, EmittedIs DEF FeedFits
<1>8. Advance(feed) = BeginBatch(p)
  BY <1>2, ReadyAdvances
<1> HIDE DEF p
<1>9. RunningOK(p, e)
  BY <1>6, <1>7 DEF RunningOK
<1>10. SavedOK(savedFeed, e)
  <2>1. savedFeed.globalStep \in Nat /\ Accounted(savedFeed, d)
    BY <1>1 DEF SavedOK, FeedOK, FeedFits
  <2>2. Accounted(savedFeed, e)
    BY <1>1, <1>4, <2>1, AccountedLater
  <2> QED BY <1>1, <2>2 DEF SavedOK
<1>11. epochPass' \in Passes /\ PassHolds(epochPass', p)
  <2>1. epochPass' = IF ~epochPass.active THEN epochPass
                     ELSE [epochPass EXCEPT !.yielded = @ \cup {feed.epoch},
                             !.active = ~p.exhausted /\ feed.epoch = epochPass.epoch]
    BY <1>7 DEF EmitBatch
  <2>2. CASE ~epochPass.active
    BY <1>1, <2>1, <2>2 DEF PassHolds
  <2>3. CASE epochPass.active
    <3>1. /\ epochPass'.active = (~p.exhausted /\ feed.epoch = epochPass.epoch)
          /\ epochPass'.yielded = epochPass.yielded \cup {feed.epoch}
          /\ epochPass'.epoch = epochPass.epoch /\ epochPass' \in Passes
      BY <1>1, <1>5, <2>1, <2>3 DEF Passes
    <3> QED BY <1>1, <1>7, <2>3, <3>1 DEF PassHolds
  <2> QED BY <2>2, <2>3
<1>12. InOrbit(p, savedFeed, e)
  <2>1. PICK f : IsOrbit(f) /\ Follows(f, feed) /\ Follows(f, savedFeed) /\ Delivers(f, d)
    BY <1>1 DEF InOrbit
  <2>2. Follows(f, p)
    <3>1. Advance(feed) = IF p.at = "rows" THEN p ELSE BeginBatch(p)
      BY <1>7, <1>8
    <3> QED BY <1>2, <2>1, <3>1, FollowsOn
  <2>3. ASSUME NEW g \in 1 .. Len(e)
        PROVE  \E n \in Nat : /\ IsReady(f[n]) /\ f[n].globalStep + 1 = g
                              /\ e[g] = {BatchMade(f[n])}
    <3>1. CASE g \in 1 .. Len(d)
      BY <1>4, <2>1, <3>1 DEF Delivers
    <3>2. CASE g = step
      <4>1. PICK n \in Nat : f[n] = feed
        BY <1>2, <2>1 DEF Follows
      <4> QED BY <1>2, <1>4, <3>2, <4>1
    <3> QED BY <1>4, <3>1, <3>2
  <2>4. Delivers(f, e)
    BY <2>3 DEF Delivers
  <2> QED BY <2>1, <2>2, <2>4 DEF InOrbit
<1>13. ConversationInv'
  BY <1>3, <1>4, <1>9, <1>10, <1>11, <1>12, InvIsKept DEF e
<1> QED BY <1>13

LEMMA SkipKeepsInv ==
  ASSUME ConversationInv, SkipToNextEpoch
  PROVE  ConversationInv'
<1> DEFINE x == DrainedEpoch(feed)
           l == feed'
<1>1. /\ InputsOK /\ FeedOK(feed) /\ PassOK(feed) /\ Accounted(feed, delivered)
      /\ SavedOK(savedFeed, delivered) /\ delivered \in Seq(SUBSET ItemBatch)
      /\ epochPass \in Passes /\ PassHolds(epochPass, feed)
      /\ InOrbit(feed, savedFeed, delivered)
  BY DEF ConversationInv, RunningOK
<1>2. FeedFits(feed) /\ FeedCounts(feed) /\ FeedRests(feed) /\ Shaped(feed)
      /\ StatsShaped(feed.stats)
  BY <1>1 DEF FeedOK, FeedFits
<1>3. /\ feed.at = "rows" /\ WantsRow(feed) /\ FilledIn(feed)
      /\ feed.row = <<>> /\ feed.rows = <<>> /\ feed.buffer = <<>>
      /\ feed.epoch + 1 < MaxSftEpochs
  BY DEF SkipToNextEpoch, RowWanted, Room, Filled, WantsRow, RoomIn, FilledIn
<1>4. /\ l = IF feed.packed = 0 THEN [feed EXCEPT !.at = "idle", !.exhausted = TRUE]
             ELSE BeginBatch(x)
      /\ epochPass' = [epochPass EXCEPT !.active = @ /\ feed.packed # 0]
      /\ UNCHANGED <<feedInputs, savedFeed, delivered>>
  BY DEF SkipToNextEpoch, DrainedEpoch
<1>5. Exhausted(feed)
  <2>1. PackingBuffer \in Nat \ {0} /\ Len(<<>>) = 0
    BY ConversationAssumption
  <2> QED BY <1>3, <2>1 DEF FilledIn
<1>6. SameFeed(feed, x) /\ x.exhausted = TRUE /\ x.at = "rows" /\ x.step = feed.step
  BY <1>2, <1>3 DEF Shaped, LoaderFields, SameFeed, DrainedEpoch
<1>7. Advance(feed) = BeginBatch(x)
  <2>1. Fitting(feed) = {}
    BY <1>3 DEF Fitting, LargestFitting
  <2> QED BY <1>3, <2>1 DEF Advance
<1> HIDE DEF x
<1>8. /\ FeedFits(x) /\ FeedCounts(x) /\ Accounted(x, delivered) /\ PassOK(x)
      /\ Exhausted(x)
  <2>1. FeedFits(x) /\ FeedCounts(x) /\ Exhausted(x)
    BY <1>2, <1>5, <1>6, SameFeedIs DEF FeedStages
  <2>2. Accounted(x, delivered)
    BY <1>1, <1>6, AccountedSame
  <2>3. PassOK(x)
    BY <1>3, <1>6, <2>1 DEF PassOK, SameFeed
  <2> QED BY <2>1, <2>2, <2>3
<1>9. /\ epochPass' \in Passes
      /\ epochPass'.yielded = epochPass.yielded /\ epochPass'.epoch = epochPass.epoch
      /\ epochPass'.active = (epochPass.active /\ feed.packed # 0)
  BY <1>1, <1>4 DEF Passes
<1>10. CASE feed.packed = 0
  <2>1. l = [feed EXCEPT !.at = "idle", !.exhausted = TRUE]
    BY <1>4, <1>10
  <2> HIDE DEF l
  <2>2. SameButStage(x, l) /\ l.at = "idle"
    BY <1>2, <2>1 DEF Shaped, LoaderFields, SameButStage, DrainedEpoch, x
  <2>3. SameFeed(x, l) /\ FeedFits(l) /\ FeedCounts(l) /\ PassOK(l) /\ l.exhausted
    BY <1>6, <1>8, <2>2, SameButStageIs DEF FeedStages
  <2>4. Accounted(l, delivered) /\ Exhausted(l)
    BY <1>8, <2>3, AccountedSame, SameFeedIs
  <2>5. FeedRests(l)
    BY <1>3, <1>6, <2>2, <2>3, <2>4 DEF FeedRests, SameFeed
  <2>6. RunningOK(l, delivered)
    BY <2>2, <2>3, <2>4, <2>5 DEF RunningOK, FeedOK
  <2>7. PassHolds(epochPass', l)
    BY <1>1, <1>9, <1>10 DEF PassHolds
  <2>8. BeginBatch(l) = Advance(feed)
    BY <1>7, <1>8, <2>2, BeginIgnoresStage DEF FeedFits
  <2>9. InOrbit(l, savedFeed, delivered)
    <3>1. PICK f : /\ IsOrbit(f) /\ Follows(f, feed) /\ Follows(f, savedFeed)
                   /\ Delivers(f, delivered)
      BY <1>1 DEF InOrbit
    <3>2. Advance(feed) = IF l.at = "rows" THEN l ELSE BeginBatch(l)
      BY <2>2, <2>8
    <3>3. Follows(f, l)
      BY <1>3, <3>1, <3>2, FollowsOn
    <3> QED BY <3>1, <3>3 DEF InOrbit
  <2>10. ConversationInv'
    BY <1>1, <1>4, <1>9, <2>6, <2>7, <2>9, InvIsKept DEF l
  <2> QED BY <2>10
<1>11. CASE feed.packed # 0
  <2> DEFINE b == BeginBatch(x)
  <2>1. l = b
    BY <1>4, <1>11
  <2> HIDE DEF l
  <2>2. x.rows = <<>> /\ x.row = <<>> /\ x.buffer = <<>> /\ x.epoch + 1 < MaxSftEpochs
    BY <1>3, <1>6 DEF SameFeed
  <2>3. FeedOK(b) /\ PassOK(b) /\ Accounted(b, delivered) /\ b.at = "rows"
    BY <1>1, <1>8, <2>2, BegunIsOK
  <2> HIDE DEF b
  <2>4. RunningOK(b, delivered)
    BY <2>3 DEF RunningOK
  <2>5. PassHolds(epochPass', b)
    <3>1. ~(PackingBuffer > 1)
      BY <1>1, <1>2, <1>3, <1>11 DEF PassOK, FeedRests
    <3> QED BY <3>1 DEF PassHolds
  <2>6. InOrbit(b, savedFeed, delivered)
    <3>1. PICK f : /\ IsOrbit(f) /\ Follows(f, feed) /\ Follows(f, savedFeed)
                   /\ Delivers(f, delivered)
      BY <1>1 DEF InOrbit
    <3>2. Advance(feed) = IF b.at = "rows" THEN b ELSE BeginBatch(b)
      BY <1>7, <2>3 DEF b
    <3>3. Follows(f, b)
      BY <1>3, <3>1, <3>2, FollowsOn
    <3> QED BY <3>1, <3>3 DEF InOrbit
  <2>7. feed' = b
    BY <2>1 DEF l
  <2>8. ConversationInv'
    BY <1>1, <1>4, <1>9, <2>4, <2>5, <2>6, <2>7, InvIsKept
  <2> QED BY <2>8
<1> QED BY <1>10, <1>11

LEMMA PassKeepsInv ==
  ASSUME ConversationInv, BeginEpochPass
  PROVE  ConversationInv'
<1> DEFINE x == EpochStarted(feed)
           l == feed'
<1>1. /\ InputsOK /\ FeedFits(feed) /\ FeedCounts(feed) /\ FeedRests(feed) /\ PassOK(feed)
      /\ Accounted(feed, delivered) /\ RunningOK(feed, delivered)
      /\ SavedOK(savedFeed, delivered) /\ delivered \in Seq(SUBSET ItemBatch)
      /\ InOrbit(feed, savedFeed, delivered)
  BY DEF ConversationInv, RunningOK, FeedOK
<1>2. /\ feed.at = "idle" /\ (feed.exhausted => feed.epoch + 1 < MaxSftEpochs)
      /\ l = (IF feed.exhausted THEN x ELSE feed)
      /\ epochPass' = [active |-> TRUE, epoch |-> l.epoch, yielded |-> {}]
      /\ UNCHANGED <<feedInputs, savedFeed, delivered>>
  BY DEF BeginEpochPass
<1>3. /\ RunningOK(l, delivered) /\ l.at = "idle" /\ ~l.exhausted /\ l.epoch \in Int
      /\ BeginBatch(l) = BeginBatch(feed)
  <2>1. CASE feed.exhausted
    <3>1. feed.rows = <<>> /\ feed.row = <<>> /\ feed.buffer = <<>>
      BY <1>1, <1>2, <2>1 DEF FeedRests
    <3>2. /\ FeedFits(x) /\ FeedCounts(x) /\ x.at = "idle" /\ ~x.exhausted /\ x.packed = 0
          /\ x.epoch = feed.epoch + 1 /\ x.rows = <<>> /\ x.row = <<>> /\ x.buffer = <<>>
          /\ x.globalStep = feed.globalStep /\ Wanted(x) = {}
      BY <1>1, <1>2, <2>1, <3>1, NextEpochIsOK
    <3>3. BeginBatch(x) = BeginBatch(feed)
      BY <2>1, <3>2 DEF BeginBatch
    <3> HIDE DEF x
    <3>4. Accounted(x, delivered)
      BY <1>1, <3>2, NextEpochIsAccounted
    <3>5. PassOK(x) /\ FeedRests(x)
      BY <3>2 DEF PassOK, FeedRests
    <3>6. RunningOK(x, delivered) /\ x.epoch \in Int
      BY <3>2, <3>4, <3>5 DEF RunningOK, FeedOK, FeedFits
    <3> QED BY <1>2, <2>1, <3>2, <3>3, <3>6
  <2>2. CASE ~feed.exhausted
    <3>1. l = feed
      BY <1>2, <2>2
    <3> QED BY <1>1, <1>2, <2>2, <3>1 DEF FeedFits
  <2> QED BY <2>1, <2>2
<1> HIDE DEF l
<1>4. epochPass' \in Passes /\ PassHolds(epochPass', l)
  BY <1>2, <1>3 DEF Passes, PassHolds
<1>5. InOrbit(l, savedFeed, delivered)
  <2>1. PICK f : /\ IsOrbit(f) /\ Follows(f, feed) /\ Follows(f, savedFeed)
                 /\ Delivers(f, delivered)
    BY <1>1 DEF InOrbit
  <2>2. Follows(f, l)
    BY <1>2, <1>3, <2>1 DEF Follows
  <2> QED BY <2>1, <2>2 DEF InOrbit
<1>6. ConversationInv'
  BY <1>1, <1>2, <1>3, <1>4, <1>5, InvIsKept DEF l
<1> QED BY <1>6

LEMMA SaveKeepsInv ==
  ASSUME ConversationInv, SaveFeed
  PROVE  ConversationInv'
<1> DEFINE s == [feed EXCEPT !.at = "saved"]
<1>1. /\ FeedOK(feed) /\ FeedFits(feed) /\ PassOK(feed) /\ Accounted(feed, delivered)
      /\ RunningOK(feed, delivered) /\ delivered \in Seq(SUBSET ItemBatch)
      /\ epochPass \in Passes /\ PassHolds(epochPass, feed)
      /\ InOrbit(feed, savedFeed, delivered)
  BY DEF ConversationInv, RunningOK, FeedOK
<1>2. feed.at = "idle" /\ savedFeed' = s /\ UNCHANGED <<feedInputs, feed, epochPass, delivered>>
  BY DEF SaveFeed, StateOfFeed
<1>3. SameButStage(feed, s) /\ s.at = "saved"
  BY <1>1, StageOnly DEF FeedFits
<1> HIDE DEF s
<1>4. SameFeed(feed, s) /\ PassOK(s) /\ FeedOK(s)
  BY <1>1, <1>2, <1>3, SameButStageIs DEF FeedStages
<1>5. SavedOK(s, delivered)
  BY <1>1, <1>3, <1>4, AccountedSame DEF SavedOK
<1>6. InOrbit(feed, s, delivered)
  <2>1. PICK f : IsOrbit(f) /\ Follows(f, feed) /\ Delivers(f, delivered)
    BY <1>1 DEF InOrbit
  <2>2. BeginBatch(s) = BeginBatch(feed)
    BY <1>1, <1>3, BeginIgnoresStage DEF FeedFits
  <2>3. Follows(f, s)
    BY <1>2, <1>3, <2>1, <2>2 DEF Follows
  <2> QED BY <2>1, <2>3 DEF InOrbit
<1> QED BY <1>1, <1>2, <1>5, <1>6, InvIsKept

LEMMA NoPassHolds == NoPass \in Passes /\ \A l : PassHolds(NoPass, l)
  BY DEF NoPass, Passes, PassHolds

LEMMA ReopenKeepsInv ==
  ASSUME ConversationInv, ReopenFeed
  PROVE  ConversationInv'
<1> DEFINE o == OpenedFeed
<1>1. /\ InputsOK /\ SavedOK(savedFeed, delivered) /\ delivered \in Seq(SUBSET ItemBatch)
      /\ Len(delivered) \in Nat /\ InOrbit(feed, savedFeed, delivered)
  BY DEF ConversationInv
<1>2. feed' = o /\ epochPass' = NoPass /\ UNCHANGED <<feedInputs, savedFeed, delivered>>
  BY DEF ReopenFeed
<1>3. FeedOK(o) /\ PassOK(o) /\ Accounted(o, delivered) /\ o.at = "idle"
  BY <1>1, OpenedIsOK, OpenedFeedIs
<1>4. InOrbit(o, savedFeed, delivered)
  <2>1. PICK f : IsOrbit(f) /\ Follows(f, savedFeed) /\ Delivers(f, delivered)
    BY <1>1 DEF InOrbit
  <2>2. f[0] = BeginBatch(o)
    BY <2>1 DEF IsOrbit
  <2> HIDE DEF o
  <2>3. Follows(f, o)
    BY <1>3, <2>2 DEF Follows
  <2> QED BY <2>1, <2>3 DEF InOrbit
<1> HIDE DEF o
<1>5. RunningOK(o, delivered)
  BY <1>3 DEF RunningOK
<1>6. epochPass' \in Passes /\ PassHolds(epochPass', o)
  BY <1>2, NoPassHolds
<1> QED BY <1>1, <1>2, <1>4, <1>5, <1>6, InvIsKept

LEMMA RestoreKeepsInv ==
  ASSUME ConversationInv, RestoreFeed
  PROVE  ConversationInv'
<1> DEFINE l == [savedFeed EXCEPT !.at = "idle"]
<1>1. /\ FeedOK(savedFeed) /\ FeedFits(savedFeed) /\ PassOK(savedFeed)
      /\ Accounted(savedFeed, delivered) /\ savedFeed.at # "rows"
      /\ SavedOK(savedFeed, delivered) /\ delivered \in Seq(SUBSET ItemBatch)
      /\ InOrbit(feed, savedFeed, delivered)
  BY DEF ConversationInv, SavedOK, FeedOK
<1>2. feed' = l /\ epochPass' = NoPass /\ UNCHANGED <<feedInputs, savedFeed, delivered>>
  BY DEF RestoreFeed
<1>3. SameButStage(savedFeed, l) /\ l.at = "idle"
  BY <1>1, StageOnly DEF FeedFits
<1> HIDE DEF l
<1>4. SameFeed(savedFeed, l) /\ PassOK(l) /\ FeedOK(l)
  BY <1>1, <1>3, SameButStageIs DEF FeedStages
<1>5. RunningOK(l, delivered)
  BY <1>1, <1>3, <1>4, AccountedSame DEF RunningOK
<1>6. InOrbit(l, savedFeed, delivered)
  <2>1. PICK f : IsOrbit(f) /\ Follows(f, savedFeed) /\ Delivers(f, delivered)
    BY <1>1 DEF InOrbit
  <2>2. BeginBatch(l) = BeginBatch(savedFeed)
    BY <1>1, <1>3, BeginIgnoresStage DEF FeedFits
  <2>3. Follows(f, l)
    BY <1>1, <1>3, <2>1, <2>2 DEF Follows
  <2> QED BY <2>1, <2>3 DEF InOrbit
<1>7. epochPass' \in Passes /\ PassHolds(epochPass', l)
  BY <1>2, NoPassHolds
<1> QED BY <1>1, <1>2, <1>5, <1>6, <1>7, InvIsKept

LEMMA FeedInitHasInv == FeedInit => ConversationInv
<1> SUFFICES ASSUME FeedInit PROVE ConversationInv
  OBVIOUS
<1> DEFINE o == OpenedFeed
           none == <<>>
<1>1. /\ InputsOK /\ feed = o /\ savedFeed = o /\ epochPass = NoPass /\ delivered = none
  BY DEF FeedInit, InputsOK
<1>2. none \in Seq(SUBSET ItemBatch) /\ Len(none) = 0
  OBVIOUS
<1> HIDE DEF none
<1>3. FeedOK(o) /\ PassOK(o) /\ Accounted(o, none) /\ o.at = "idle"
  BY <1>1, <1>2, OpenedIsOK, OpenedFeedIs
<1>4. InOrbit(o, o, none)
  <2>1. PICK f : IsOrbit(f)
    BY OrbitExists
  <2>2. f[0] = BeginBatch(o)
    BY <2>1 DEF IsOrbit
  <2> HIDE DEF o
  <2>3. Follows(f, o)
    BY <1>3, <2>2 DEF Follows
  <2>4. Delivers(f, none)
    BY <1>2 DEF Delivers
  <2> QED BY <2>1, <2>3, <2>4 DEF InOrbit
<1> HIDE DEF o
<1>5. RunningOK(o, none) /\ SavedOK(o, none)
  BY <1>3 DEF RunningOK, SavedOK
<1>6. NoPass \in Passes /\ PassHolds(NoPass, o)
  BY NoPassHolds
<1> QED BY <1>1, <1>2, <1>4, <1>5, <1>6 DEF ConversationInv

LEMMA FeedNextKeepsInv == ConversationInv /\ [FeedNext]_feedVars => ConversationInv'
<1> SUFFICES ASSUME ConversationInv, [FeedNext]_feedVars PROVE ConversationInv'
  OBVIOUS
<1>1. CASE StartBatch
  BY <1>1, StartKeepsInv
<1>2. CASE PullConversation
  BY <1>2, PullKeepsInv
<1>3. CASE PackConversation
  BY <1>3, PackKeepsInv
<1>4. CASE CloseRow
  BY <1>4, CloseKeepsInv
<1>5. CASE SkipToNextEpoch
  BY <1>5, SkipKeepsInv
<1>6. CASE EmitBatch
  BY <1>6, EmitKeepsInv
<1>7. CASE BeginEpochPass
  BY <1>7, PassKeepsInv
<1>8. CASE SaveFeed
  BY <1>8, SaveKeepsInv
<1>9. CASE ReopenFeed
  BY <1>9, ReopenKeepsInv
<1>10. CASE RestoreFeed
  BY <1>10, RestoreKeepsInv
<1>11. CASE UNCHANGED feedVars
  <2>1. UNCHANGED <<feedInputs, feed, savedFeed, epochPass, delivered>>
    BY <1>11 DEF feedVars, feedInputs
  <2>2. /\ RunningOK(feed, delivered) /\ SavedOK(savedFeed, delivered)
        /\ delivered \in Seq(SUBSET ItemBatch)
        /\ epochPass \in Passes /\ PassHolds(epochPass, feed)
        /\ InOrbit(feed, savedFeed, delivered)
    BY DEF ConversationInv
  <2> QED BY <2>1, <2>2, InvIsKept
<1> QED BY <1>1, <1>2, <1>3, <1>4, <1>5, <1>6, <1>7, <1>8, <1>9, <1>10, <1>11 DEF FeedNext

\* However often the finetuning loader is saved, opened anew and restored, a
\* step has one batch, and an epoch delivers each supervised conversation of
\* its mixture once.
THEOREM ConversationsAreExactHolds == FeedSpec => []ConversationsAreExact
<1>1. FeedInit => ConversationInv
  BY FeedInitHasInv
<1>2. ConversationInv /\ [FeedNext]_feedVars => ConversationInv'
  BY FeedNextKeepsInv
<1>3. ConversationInv => ConversationsAreExact
  BY InvMeansExact
<1> QED BY <1>1, <1>2, <1>3, PTL DEF FeedSpec

=============================================================================
