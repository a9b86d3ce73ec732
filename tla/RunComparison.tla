--------------------------- MODULE RunComparison ----------------------------
(***************************************************************************)
(* The comparison of training runs (scratch_llm.comparison): their         *)
(* directories are read file by file, while the commands that own them may *)
(* still write; they are checked against each other, and ranked when all   *)
(* of them are complete and were evaluated under one protocol;             *)
(* comparison.md and then comparison.json replace the earlier ones.        *)
(*                                                                         *)
(* The writers are those of TrainingRun, in the order in which they touch  *)
(* the four files.  Runs are numbered in the order of their names.  The    *)
(* directories of an earlier release are there from the start: its reports *)
(* have the version that a comparison reads, those written now do not.     *)
(* Everything else that _load_base_evaluation checks, _base_evaluation_    *)
(* payload writes as it is checked.                                        *)
(***************************************************************************)
EXTENDS Integers, Sequences, FiniteSets, FiniteSetsExt

CONSTANTS Contestants,    \* the runs compared
          ContestTarget,  \* train.max_steps
          ContestReports, \* evaluations: the value of full_documents_v1, the
                          \*   protocol and inputs it was computed under, and
                          \*   whether bpb was among the modes
          MaxComparisons  \* bound on the comparisons explored

ASSUME ComparisonAssumption ==
  /\ Contestants \subseteq Nat /\ IsFiniteSet(Contestants) /\ Cardinality(Contestants) >= 2
  /\ ContestTarget \in Nat \ {0}
  /\ ContestReports \subseteq [score : Nat, key : STRING, bpb : BOOLEAN]

VARIABLES contest,     \* the run directories
          judge,       \* the running comparison
          verdict,     \* comparison.md and comparison.json
          comparisons  \* number of comparisons so far

comparisonVars == <<contest, judge, verdict, comparisons>>

\* BASE_EVALUATION_REPORT_FORMAT_VERSION, and the _BASE_EVALUATION_VERSION
\* of the comparison.
ReportVersion == 3
ReadVersion   == 2
Versioned(result, version) ==
  [score |-> result.score, key |-> result.key, bpb |-> result.bpb, version |-> version]
Unevaluated == Versioned([score |-> 0, key |-> "none", bpb |-> FALSE], 0)
Reports == {Unevaluated}
           \cup {Versioned(x, n) : x \in ContestReports, n \in {ReadVersion, ReportVersion}}

NewRun   == [at |-> "train", status |-> "running", latest |-> 0, logged |-> 0,
             torn |-> FALSE, report |-> Unevaluated]
NoVerdict == [ranking |-> <<>>, blocked |-> Contestants, quiet |-> FALSE]
OffDuty   == [at |-> "idle", run |-> 0, read |-> [r \in Contestants |-> NewRun],
              quiet |-> TRUE, reply |-> "none"]

\* Runs that an earlier release trained, to their last step or not, and
\* evaluated.
EarlierRun(status, n, x) ==
  [NewRun EXCEPT !.at = "over", !.status = status, !.logged = n, !.latest = n,
                 !.report = Versioned(x, ReadVersion)]
EarlierRuns ==
  {EarlierRun(status, n, x) :
     status \in {"completed", "failed"}, n \in 0 .. ContestTarget, x \in ContestReports}

(***************************************************************************)
(* The owners of the directories.  `quiet` is history: none of them has    *)
(* written since the comparison started.                                   *)
(***************************************************************************)
Writes(r, d) ==
  /\ contest' = [contest EXCEPT ![r] = d]
  /\ judge' = [judge EXCEPT !.quiet = judge.at = "idle"]
  /\ verdict' = [verdict EXCEPT !.markdown.quiet = FALSE, !.json.quiet = FALSE]
  /\ UNCHANGED comparisons

AppendStep(r) ==
  /\ contest[r].at = "train" /\ contest[r].logged < ContestTarget
  /\ Writes(r, [contest[r] EXCEPT !.logged = @ + 1, !.at = "summary"])
WriteSummary(r) ==
  /\ contest[r].at = "summary"
  /\ Writes(r, [contest[r] EXCEPT !.latest = contest[r].logged, !.at = "train"])

\* The command ends, or dies with its status unchanged, perhaps within an
\* append.
EndCommand(r) ==
  /\ contest[r].at \in {"train", "evaluate", "evaluated"}
  /\ \E status \in {"completed", "failed"} :
       /\ status = "completed" =>
            \/ contest[r].at = "evaluated"
            \/ contest[r].at = "train" /\ contest[r].logged = ContestTarget
       /\ Writes(r, [contest[r] EXCEPT !.status = status, !.at = "over"])
DieAppending(r) ==
  /\ contest[r].at \in {"train", "summary", "evaluated"}
  /\ \E torn \in {FALSE, contest[r].at = "train"} :
       Writes(r, [contest[r] EXCEPT !.torn = torn, !.at = "dead"])

\* Another stage command in the directory: the status is "running" again.
\* It leaves the report that is there, and fails if that is not the same.
OpenForEvaluation(r) ==
  /\ contest[r].at \in {"over", "dead"} /\ ~contest[r].torn
  /\ Writes(r, [contest[r] EXCEPT !.status = "running", !.at = "evaluate"])
PublishEvaluation(r) ==
  /\ contest[r].at = "evaluate"
  /\ \E result \in ContestReports :
       LET report == Versioned(result, ReportVersion) IN
       /\ contest[r].report \in {Unevaluated, report}
       /\ Writes(r, [contest[r] EXCEPT !.report = report, !.at = "evaluated"])

(***************************************************************************)
(* load_run_snapshots: one file of one run after the other.                *)
(***************************************************************************)
Reading(at, r) == judge.at = at /\ judge.run = r

StartComparison ==
  /\ judge.at = "idle" /\ comparisons < MaxComparisons
  /\ judge' = [OffDuty EXCEPT !.at = "summary", !.run = Min(Contestants)]
  /\ comparisons' = comparisons + 1
  /\ UNCHANGED <<contest, verdict>>

Reads(next, d) ==
  /\ judge' = [judge EXCEPT !.at = next, !.read[judge.run] = d]
  /\ UNCHANGED <<contest, verdict, comparisons>>

Refuses == /\ judge' = [OffDuty EXCEPT !.reply = "refused"]
           /\ UNCHANGED <<contest, verdict, comparisons>>

ReadSummary(r) ==
  /\ Reading("summary", r)
  /\ Reads("metrics", [judge.read[r] EXCEPT !.status = contest[r].status,
                                            !.latest = contest[r].latest])

\* The metrics must consist of whole lines and end where the summary says.
ReadMetrics(r) ==
  /\ Reading("metrics", r)
  /\ IF contest[r].torn \/ contest[r].logged # judge.read[r].latest THEN Refuses
     ELSE Reads("evaluation", [judge.read[r] EXCEPT !.logged = contest[r].logged])

\* A report need not be there, but is of the one version that is read.
Readable(report) == report = Unevaluated \/ report.version = ReadVersion
ReadReport(r) ==
  /\ LET later == {q \in Contestants : q > r} IN
     judge' = [judge EXCEPT !.read[r].report = contest[r].report,
                 !.at  = IF later = {} THEN "report" ELSE "summary",
                 !.run = IF later = {} THEN 0 ELSE Min(later)]
  /\ UNCHANGED <<contest, verdict, comparisons>>
ReadEvaluation(r) ==
  /\ Reading("evaluation", r)
  /\ IF Readable(contest[r].report) THEN ReadReport(r) ELSE Refuses

(***************************************************************************)
(* build_comparison_payload                                                *)
(***************************************************************************)
\* Mutant: the status is taken to say that training is complete.
Blocked_ByStatusOnly(d) == d.status # "completed" \/ ~d.report.bpb

\* _ranking_blockers
Blocked(d) ==
  d.status # "completed" \/ d.logged # ContestTarget \/ ~d.report.bpb

\* The runs, best first and equal ones by name.
Before(read, p, q) ==
  \/ read[p].report.score < read[q].report.score
  \/ read[p].report.score = read[q].report.score /\ p < q
Ordered(read) ==
  CHOOSE order \in [1 .. Cardinality(Contestants) -> Contestants] :
    \A m, n \in DOMAIN order : m < n => Before(read, order[m], order[n])

\* Ranks of scores in their order: equal ones share that of the first of them.
TiedRanks(scores) ==
  LET ranks[n \in DOMAIN scores] ==
        IF n > 1 /\ scores[n] = scores[n - 1] THEN ranks[n - 1] ELSE n
  IN  ranks

\* _rank_protocol
Ranking(read) ==
  LET ordered == Ordered(read)
      scores  == [n \in DOMAIN ordered |-> read[ordered[n]].report.score]
  IN  IF (\E r \in Contestants : Blocked(read[r]))
         \/ Cardinality({read[r].report.key : r \in Contestants}) # 1
      THEN <<>>
      ELSE [n \in DOMAIN ordered |->
              [run |-> ordered[n], score |-> scores[n], rank |-> TiedRanks(scores)[n]]]

Payload == [ranking |-> Ranking(judge.read), quiet |-> judge.quiet,
            blocked |-> {r \in Contestants : Blocked(judge.read[r])}]

\* Two atomic replacements, with a crash between them or not.
WriteMarkdown ==
  /\ judge.at = "report"
  /\ verdict' = [verdict EXCEPT !.markdown = Payload]
  /\ judge' = [judge EXCEPT !.at = "json"]
  /\ UNCHANGED <<contest, comparisons>>
WriteJson ==
  /\ judge.at = "json"
  /\ verdict' = [verdict EXCEPT !.json = verdict.markdown]
  /\ judge' = OffDuty
  /\ UNCHANGED <<contest, comparisons>>
StopComparison ==
  /\ judge.at # "idle"
  /\ judge' = OffDuty
  /\ UNCHANGED <<contest, verdict, comparisons>>

ComparisonInit ==
  /\ contest \in [Contestants -> {NewRun} \cup EarlierRuns]
  /\ judge = OffDuty /\ comparisons = 0
  /\ verdict = [markdown |-> NoVerdict, json |-> NoVerdict]

ComparisonNext ==
  \/ \E r \in Contestants :
       \/ AppendStep(r) \/ WriteSummary(r) \/ EndCommand(r) \/ DieAppending(r)
       \/ OpenForEvaluation(r) \/ PublishEvaluation(r)
       \/ ReadSummary(r) \/ ReadMetrics(r) \/ ReadEvaluation(r)
  \/ StartComparison \/ WriteMarkdown \/ WriteJson \/ StopComparison

ComparisonSpec == ComparisonInit /\ [][ComparisonNext]_comparisonVars

(***************************************************************************)
(* Properties.                                                             *)
(***************************************************************************)
Comparable(d) == /\ d.status = "completed"
                 /\ d.report.bpb /\ d.report.version = ReadVersion
                 /\ d.logged = ContestTarget /\ d.latest = ContestTarget

\* A ranking, wherever it is published, names every run once, best first and
\* equal ones alike, from values that are in the run directories, all of
\* runs that logged their last step and of reports of one protocol and of the
\* version that is read; and it is empty only if one of the runs was not
\* comparable, or was being written.
ComparisonIsFair ==
  \A v \in {verdict.markdown, verdict.json} :
    /\ v.ranking # <<>> =>
         /\ {v.ranking[n].run : n \in DOMAIN v.ranking} = Contestants
         /\ Len(v.ranking) = Cardinality(Contestants)
         /\ \A n \in DOMAIN v.ranking : LET e == v.ranking[n] IN
              /\ contest[e.run].report.score = e.score
              /\ contest[e.run].report.bpb /\ contest[e.run].report.version = ReadVersion
              /\ contest[e.run].logged = ContestTarget /\ ~contest[e.run].torn
              /\ e.rank = 1 + Cardinality({m \in DOMAIN v.ranking :
                                             v.ranking[m].score < e.score})
         /\ \A p, q \in Contestants : contest[p].report.key = contest[q].report.key
    /\ v.ranking = <<>> /\ v.quiet /\ v.blocked = {} =>
         \E p, q \in Contestants : contest[p].report.key # contest[q].report.key
    /\ v.quiet => \A r \in Contestants : Comparable(contest[r]) => r \notin v.blocked

\* README.md: "Compare two completed, evaluated training runs offline."  A
\* comparison of runs that completed their training and were evaluated, and
\* that nobody writes meanwhile, is not refused.  It is: every report written
\* now is of a version that the comparison does not read.
Evaluated(d) ==
  /\ d.status = "completed" /\ ~d.torn /\ d.report.bpb
  /\ d.logged = ContestTarget /\ d.latest = ContestTarget
EvaluatedRunsAreCompared ==
  [][judge.at # "idle" /\ judge.quiet /\ (\A r \in Contestants : Evaluated(contest[r]))
       => judge'.reply # "refused"]_comparisonVars
=============================================================================
