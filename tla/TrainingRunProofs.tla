------------------------- MODULE TrainingRunProofs --------------------------
(***************************************************************************)
(* Theorems about TrainingRun, for any directories, configurations, seeds, *)
(* scores and bounds: through all failures, kills and resumptions no step  *)
(* is logged twice in a directory, last.pt is never replaced by an earlier *)
(* state, and every checkpoint holds the model an uninterrupted run has at *)
(* that step.  The argument for the first two: while a process trains,     *)
(* nothing in its directory is newer than its model; the resume check      *)
(* establishes it, and every later write keeps it.                         *)
(***************************************************************************)
EXTENDS TrainingRun, SequenceTheorems, TLAPS

Line   == [kind : {"train", "validation", "evaluation"}, step : Nat]
Fields == {"config", "metrics", "events", "torn", "summary", "status", "periodic",
           "best", "last", "evaluated", "foreign"}

IsState(s) ==
  /\ s = [step |-> s.step, pos |-> s.pos, applied |-> s.applied, val |-> s.val]
  /\ s.step \in Nat
IsSaved(c) ==
  /\ c = [state |-> c.state, config |-> c.config, run |-> c.run, exact |-> c.exact]
  /\ IsState(c.state)

\* The lines of each kind increase, and all evaluations are stepless.
Increasing(m) ==
  /\ \A i, j \in DOMAIN m : i < j /\ m[i].kind = m[j].kind => m[i].step < m[j].step
  /\ \A i \in DOMAIN m : m[i].kind = "evaluation" => m[i].step = Stepless

DirOK(d) ==
  /\ DOMAIN d = Fields
  /\ d.metrics \in Seq(Line) /\ Increasing(d.metrics)
  /\ \A c \in d.periodic \cup {d.best, d.last} : IsSaved(c)
DirsOK == dirs = [r \in Runs |-> dirs[r]] /\ \A r \in Runs : DirOK(dirs[r])

BeforeTracking == {"log", "logSummary", "validate", "best", "bestEvent", "track"}
TrainPlaces == BeforeTracking \cup
  {"train", "trackSummary", "periodic", "periodicEvent", "latest", "latestEvent", "finalEvent"}
EndPlaces == {"idle", "open", "check", "report", "reportEvent", "finish"}

\* Nothing in d is newer than a model of this step at this place.
NotNewer(d, place, step) ==
  /\ d.last.state.step <= step
  /\ \A i \in DOMAIN d.metrics :
       /\ d.metrics[i].step <= step
       /\ place = "log" /\ d.metrics[i].kind = "train" => d.metrics[i].step < step
       /\ place \in BeforeTracking /\ d.metrics[i].kind = "validation"
            => d.metrics[i].step < step

ProcessOK ==
  /\ pc \in TrainPlaces \cup EndPlaces
  /\ pc # "idle" => job.run \in Runs /\ IsSaved(job.source)
  /\ IsState(live)
  /\ pc \in TrainPlaces => NotNewer(dirs[job.run], pc, live.step)

RunInv == DirsOK /\ ProcessOK

-----------------------------------------------------------------------------
LEMMA UntrainedOK == IsState(Untrained) /\ IsSaved(NoCheckpoint)
  BY DEF IsState, IsSaved, Untrained, NoCheckpoint, Checkpoint

LEMMA NewDirectoryOK == DirOK(NewDirectory)
<1> DEFINE none == NewDirectory.metrics
<1>1. none = <<>>
  BY DEF NewDirectory
<1>2. none \in Seq(Line) /\ DOMAIN none = {}
  BY <1>1
<1>3. DOMAIN NewDirectory = Fields
  BY DEF NewDirectory, Fields
<1>4. NewDirectory.periodic \cup {NewDirectory.best, NewDirectory.last} = {NoCheckpoint}
  BY DEF NewDirectory
<1>5. Increasing(none)
  BY <1>2 DEF Increasing
<1> QED BY <1>2, <1>3, <1>4, <1>5, UntrainedOK DEF DirOK

\* A line that is newer than those of its kind keeps the order.
LEMMA AppendLine ==
  ASSUME NEW m \in Seq(Line), Increasing(m), NEW line \in Line,
         \A i \in DOMAIN m : m[i].kind = line.kind => m[i].step < line.step,
         line.kind = "evaluation" => line.step = Stepless
  PROVE  /\ Append(m, line) \in Seq(Line) /\ Increasing(Append(m, line))
         /\ \A i \in DOMAIN Append(m, line) : i \in DOMAIN m \/ Append(m, line)[i] = line
         /\ \A i \in DOMAIN m : Append(m, line)[i] = m[i]
<1> DEFINE longer == Append(m, line)
<1>1. /\ longer \in Seq(Line) /\ Len(longer) = Len(m) + 1
      /\ \A i \in 1 .. Len(m) : longer[i] = m[i]
      /\ longer[Len(m) + 1] = line
  BY AppendProperties
<1>2. DOMAIN m = 1 .. Len(m) /\ Len(m) \in Nat
  OBVIOUS
<1> HIDE DEF longer
<1>3. DOMAIN longer = 1 .. Len(m) + 1
  BY <1>1, <1>2
<1>4. \A i \in DOMAIN longer : i \in DOMAIN m \/ (i = Len(m) + 1 /\ longer[i] = line)
  BY <1>1, <1>2, <1>3
<1>5. \A i \in DOMAIN m : longer[i] = m[i]
  BY <1>1, <1>2
<1>6. Increasing(longer)
  <2>1. ASSUME NEW i \in DOMAIN longer, NEW j \in DOMAIN longer, i < j,
               longer[i].kind = longer[j].kind
        PROVE  longer[i].step < longer[j].step
    <3>1. i \in DOMAIN m
      BY <2>1, <1>2, <1>3
    <3>2. CASE j \in DOMAIN m
      BY <2>1, <3>1, <3>2, <1>5 DEF Increasing
    <3>3. CASE j \notin DOMAIN m
      BY <2>1, <3>1, <3>3, <1>4, <1>5
    <3> QED BY <3>2, <3>3
  <2>2. \A i \in DOMAIN longer : longer[i].kind = "evaluation" => longer[i].step = Stepless
    BY <1>4, <1>5 DEF Increasing
  <2> QED BY <2>1, <2>2 DEF Increasing
<1> QED BY <1>1, <1>4, <1>5, <1>6 DEF longer

\* Writing d where the process runs, and ending with it, keeps the directories
\* in order if d is.
LEMMA Writes ==
  ASSUME DirsOK, job.run \in Runs, NEW d, DirOK(d), dirs' = [dirs EXCEPT ![job.run] = d]
  PROVE  /\ DirsOK' /\ dirs'[job.run] = d
         /\ \A r \in Runs : r # job.run => dirs'[r] = dirs[r]
<1>1. \A r \in Runs : dirs'[r] = IF r = job.run THEN d ELSE dirs[r]
  BY DEF DirsOK
<1>2. dirs' = [r \in Runs |-> dirs'[r]]
  BY DEF DirsOK
<1>3. \A r \in Runs : DirOK(dirs'[r])
  BY <1>1 DEF DirsOK
<1> QED BY <1>1, <1>2, <1>3 DEF DirsOK, DirOK, Increasing, IsSaved, IsState

LEMMA Ends ==
  ASSUME RunInv, pc # "idle", NEW d, DirOK(d), NEW verdict, End(d, verdict)
  PROVE  RunInv'
<1>1. DirsOK'
  BY Writes DEF RunInv, ProcessOK, End
<1>2. pc' = "idle" /\ live' = Untrained
  BY DEF End
<1>3. ProcessOK'
  BY <1>2, UntrainedOK DEF ProcessOK, EndPlaces, TrainPlaces, BeforeTracking
<1> QED BY <1>1, <1>3 DEF RunInv

\* A write of d, and the model at the next place, keep the invariant if
\* nothing in d is newer.
LEMMA Continues ==
  ASSUME RunInv, pc # "idle", NEW d, DirOK(d), NEW next, Write(d, next),
         next \in (TrainPlaces \cup EndPlaces) \ {"idle"}, IsState(live'),
         next \in TrainPlaces => NotNewer(d, next, live'.step)
  PROVE  RunInv'
<1>1. DirsOK' /\ dirs'[job.run] = d
  BY Writes DEF RunInv, ProcessOK, Write
<1>2. pc' = next /\ job' = job
  BY DEF Write
<1>3. pc' \in TrainPlaces => NotNewer(dirs'[job.run], pc', live'.step)
  BY <1>1, <1>2
<1>4. ProcessOK'
  BY <1>2, <1>3 DEF RunInv, ProcessOK, IsState, IsSaved, NotNewer
<1> QED BY <1>1, <1>4 DEF RunInv

LEMMA InitOK == Init => RunInv
<1> SUFFICES ASSUME Init PROVE RunInv
  OBVIOUS
<1>1. DirsOK
  BY NewDirectoryOK DEF Init, DirsOK
<1>2. ProcessOK
  BY UntrainedOK DEF Init, ProcessOK, EndPlaces, TrainPlaces, BeforeTracking
<1> QED BY <1>1, <1>2 DEF RunInv

-----------------------------------------------------------------------------
\* What the process finds in its directory.
LEMMA Found ==
  ASSUME RunInv, pc # "idle"
  PROVE  /\ DirOK(Directory) /\ job.run \in Runs /\ IsSaved(job.source)
         /\ IsState(live) /\ live.step \in Nat
         /\ pc \in TrainPlaces => NotNewer(Directory, pc, live.step)
  BY DEF RunInv, DirsOK, ProcessOK, Directory, IsState

\* A directory keeps its order when its metrics stay and its checkpoints are
\* well-formed.
LEMMA Altered ==
  ASSUME NEW d, DirOK(d), NEW e, DOMAIN e = DOMAIN d, e.metrics = d.metrics,
         \A c \in e.periodic \cup {e.best, e.last} :
            c \in d.periodic \cup {d.best, d.last} \/ IsSaved(c)
  PROVE  DirOK(e)
  BY DEF DirOK

\* A checkpoint of a well-formed state is well-formed.
LEMMA SnapshotOK ==
  ASSUME NEW s, IsState(s)
  PROVE  IsSaved(Snapshot(s)) /\ Snapshot(s).state = s
  BY DEF IsSaved, Snapshot, Checkpoint

\* What a place knows of the log, later places know until the next step.
LEMMA Later ==
  ASSUME NEW d, NEW place, NEW next, NEW step, NotNewer(d, place, step),
         next # "log", next \in BeforeTracking => place \in BeforeTracking
  PROVE  NotNewer(d, next, step)
  BY DEF NotNewer

\* A step that appends the line of the model's step.
LEMMA AppendOK ==
  ASSUME RunInv, NEW at \in TrainPlaces, NEW kind \in {"train", "validation"},
         NEW next \in TrainPlaces, next # "log", AppendMetrics(at, kind, next),
         kind = "train" => at = "log",
         kind = "validation" => at = "track" /\ next \notin BeforeTracking
  PROVE  RunInv'
<1> DEFINE line == Record(kind, live.step)
           longer == Append(Directory.metrics, line)
           d == [Directory EXCEPT !.metrics = longer]
<1>1. pc = at /\ pc # "idle" /\ live' = live /\ Write(d, next)
  BY DEF AppendMetrics, TrainPlaces, BeforeTracking
<1>2. /\ DirOK(Directory) /\ live.step \in Nat /\ IsState(live)
      /\ NotNewer(Directory, at, live.step)
  BY <1>1, Found
<1>3. line \in Line /\ line.kind = kind /\ line.step = live.step
  BY <1>2 DEF Line, Record
<1>4. \A i \in DOMAIN Directory.metrics :
        Directory.metrics[i].kind = line.kind => Directory.metrics[i].step < line.step
  BY <1>2, <1>3 DEF NotNewer, BeforeTracking
<1>5. Directory.metrics \in Seq(Line) /\ Increasing(Directory.metrics)
  BY <1>2 DEF DirOK
<1> HIDE DEF line
<1>6. /\ longer \in Seq(Line) /\ Increasing(longer)
      /\ \A i \in DOMAIN longer : i \in DOMAIN Directory.metrics \/ longer[i] = line
      /\ \A i \in DOMAIN Directory.metrics : longer[i] = Directory.metrics[i]
  BY <1>3, <1>4, <1>5, AppendLine
<1> HIDE DEF longer
<1>7. /\ DOMAIN d = DOMAIN Directory /\ d.metrics = longer /\ d.last = Directory.last
      /\ d.periodic = Directory.periodic /\ d.best = Directory.best
  BY <1>2 DEF DirOK, Fields
<1> HIDE DEF d
<1>8. DirOK(d)
  BY <1>2, <1>6, <1>7 DEF DirOK
<1>9. NotNewer(d, next, live.step)
  <2>1. d.last.state.step <= live.step
    BY <1>2, <1>7 DEF NotNewer
  <2>2. ASSUME NEW i \in DOMAIN d.metrics
        PROVE  /\ d.metrics[i].step <= live.step
               /\ next \in BeforeTracking /\ d.metrics[i].kind = "validation"
                    => d.metrics[i].step < live.step
    <3>1. CASE i \in DOMAIN Directory.metrics
      BY <3>1, <1>2, <1>6, <1>7 DEF NotNewer, BeforeTracking
    <3>2. CASE d.metrics[i] = line
      BY <3>2, <1>2, <1>3
    <3> QED BY <2>2, <3>1, <3>2, <1>6, <1>7
  <2> QED BY <2>1, <2>2 DEF NotNewer
<1>10. IsState(live') /\ live'.step = live.step
  BY <1>1, <1>2 DEF IsState
<1>11. next # "idle"
  BY DEF TrainPlaces, BeforeTracking
<1> QED BY <1>1, <1>8, <1>9, <1>10, <1>11, Continues

\* A step that changes at most other fields of the directory.
LEMMA WriteOK ==
  ASSUME RunInv, pc # "idle", NEW d, NEW next, Write(d, next),
         DOMAIN d = DOMAIN Directory, d.metrics = Directory.metrics,
         d.periodic = Directory.periodic, d.best = Directory.best, d.last = Directory.last,
         next \in (TrainPlaces \cup EndPlaces) \ {"idle"}, IsState(live'),
         next \in TrainPlaces =>
           /\ pc \in TrainPlaces /\ live'.step = live.step /\ next # "log"
           /\ next \in BeforeTracking => pc \in BeforeTracking
  PROVE  RunInv'
<1>1. DirOK(Directory) /\ (pc \in TrainPlaces => NotNewer(Directory, pc, live.step))
  BY Found
<1>2. DirOK(d)
  BY <1>1, Altered
<1>3. ASSUME next \in TrainPlaces PROVE NotNewer(d, next, live'.step)
  <2>1. NotNewer(Directory, next, live.step)
    BY <1>1, <1>3, Later
  <2> QED BY <2>1, <1>3 DEF NotNewer
<1> QED BY <1>2, <1>3, Continues

\* A command takes over a directory and, at most, a checkpoint of one.
LEMMA CommandOK ==
  ASSUME RunInv, NEW r \in Runs, NEW c \in Configs, NEW request \in Jobs(r, c),
         Command(request)
  PROVE  RunInv'
<1>1. \/ \E kind \in {"dry", "fresh"} : request = Job(kind, r, c, NoCheckpoint, FALSE)
      \/ \E q \in Runs : \E s \in Installed(dirs[q]) :
           request = Job("resume", r, c, s, FALSE)
      \/ \E nonExact \in BOOLEAN : request = Job("resume", r, c, Legacy(c), nonExact)
      \/ \E s \in Installed(dirs[r]) : request = Job("eval", r, c, s, FALSE)
  BY DEF Jobs
<1>2. \A q \in Runs : \A s \in Installed(dirs[q]) : IsSaved(s)
  BY DEF RunInv, DirsOK, DirOK, Installed
<1>3. IsSaved(Legacy(c))
  <2> DEFINE one   == <<1>>
             state == [step |-> 1, pos |-> 0, applied |-> one, val |-> NoValidation]
  <2>1. Legacy(c) = [state |-> state, config |-> c, run |-> NoRun, exact |-> FALSE]
    BY DEF Legacy
  <2> HIDE DEF one
  <2>2. IsState(state)
    BY DEF IsState
  <2> HIDE DEF state
  <2> QED BY <2>1, <2>2 DEF IsSaved
<1>4. request.run \in Runs /\ IsSaved(request.source)
  BY <1>1, <1>2, <1>3, UntrainedOK DEF Job
<1>5. pc' = "open" /\ job' = request /\ dirs' = dirs /\ live' = live
  BY DEF Command
<1>6. DirsOK'
  BY <1>5 DEF RunInv, DirsOK, DirOK, Increasing, IsSaved, IsState
<1>7. ProcessOK'
  BY <1>4, <1>5 DEF RunInv, ProcessOK, EndPlaces, TrainPlaces, BeforeTracking, IsState, IsSaved
<1> QED BY <1>6, <1>7 DEF RunInv

\* Starting in a fresh directory, or where nothing is newer than the
\* checkpoint.
LEMMA StartOK == ASSUME RunInv, StartTraining PROVE RunInv'
<1> DEFINE d == [Directory EXCEPT
                   !.foreign = @ \/ (job.kind = "resume" /\ job.source.run # job.run)]
<1>1. pc = "check" /\ Write(d, "train") /\ MayTrain(Directory) /\ live' = Restored(job.source)
  BY DEF StartTraining
<1>2. DirOK(Directory) /\ IsSaved(job.source)
  BY <1>1, Found
<1>3. /\ DOMAIN d = DOMAIN Directory /\ d.metrics = Directory.metrics
      /\ d.periodic = Directory.periodic /\ d.best = Directory.best /\ d.last = Directory.last
  BY <1>2 DEF DirOK, Fields
<1>4. IsState(live') /\ live'.step = job.source.state.step
  BY <1>1, <1>2 DEF Restored, IsSaved, IsState
<1> HIDE DEF d
<1>5. DirOK(d)
  BY <1>2, <1>3, Altered
<1>6. NotNewer(d, "train", live'.step)
  <2>1. CASE job.kind = "fresh"
    <3>1. Directory.last = NoCheckpoint /\ Directory.metrics = <<>>
      BY <1>1, <2>1 DEF MayTrain, NoOutputs, Installed
    <3>2. DOMAIN d.metrics = {} /\ d.last.state.step = 0
      BY <1>3, <3>1 DEF NoCheckpoint, Checkpoint, Untrained
    <3> QED BY <1>4, <3>2 DEF NotNewer, IsState
  <2>2. CASE job.kind # "fresh"
    <3>1. MayResume(Directory, job.source)
      BY <1>1, <2>2 DEF MayTrain
    <3>2. /\ d.last.state.step <= live'.step
          /\ \A i \in DOMAIN d.metrics : d.metrics[i].step <= live'.step
      BY <1>2, <1>3, <1>4, <3>1
         DEF MayResume, MetricsNotNewer, LastNotNewer, IsSaved, IsState
    <3> QED BY <3>2 DEF NotNewer, BeforeTracking
  <2> QED BY <2>1, <2>2
<1> QED BY <1>1, <1>4, <1>5, <1>6, Continues DEF TrainPlaces

\* The optimizer attempts: the model moves ahead of everything written.
LEMMA AttemptOK == ASSUME RunInv, ApplyStep \/ SkipStep PROVE RunInv'
<1> DEFINE next == IF live'.step % job.config.log = 0 THEN "log" ELSE "validate"
           longer == Append(live.applied, NextPosition)
<1>1. /\ pc = "train" /\ DirOK(Directory) /\ IsState(live)
      /\ NotNewer(Directory, "train", live.step)
  BY Found DEF ApplyStep, SkipStep, Attempting, TrainPlaces
<1>2. Directory.metrics \in Seq(Line)
  BY <1>1 DEF DirOK
<1>3. \A i \in DOMAIN Directory.metrics : Directory.metrics[i].step \in Nat
  <2>1. \A i \in DOMAIN Directory.metrics : Directory.metrics[i] \in Line
    BY <1>2, ElementOfSeq
  <2> QED BY <2>1 DEF Line
<1>4. Directory.last.state.step \in Nat
  BY <1>1 DEF DirOK, IsSaved, IsState
<1>5. CASE ApplyStep
  <2>1. /\ live' = [live EXCEPT !.step = @ + 1, !.pos = NextPosition, !.applied = longer]
        /\ Write(Directory, next)
    BY <1>5 DEF ApplyStep
  <2> HIDE DEF longer
  <2>2. IsState(live') /\ live'.step = live.step + 1
    <3>1. live = [step |-> live.step, pos |-> live.pos, applied |-> live.applied,
                  val |-> live.val] /\ live.step \in Nat
      BY <1>1 DEF IsState
    <3>2. live' = [step |-> live.step + 1, pos |-> NextPosition, applied |-> longer,
                   val |-> live.val]
      BY <2>1, <3>1
    <3> QED BY <3>1, <3>2 DEF IsState
  <2>3. next \in {"log", "validate"}
    OBVIOUS
  <2> HIDE DEF next
  <2>4. NotNewer(Directory, next, live'.step)
    BY <1>1, <1>3, <1>4, <2>2 DEF NotNewer, IsState
  <2> QED BY <1>1, <2>1, <2>2, <2>3, <2>4, Continues DEF TrainPlaces, BeforeTracking
<1>6. CASE SkipStep
  <2>1. live' = [live EXCEPT !.pos = NextPosition] /\ Write(Directory, "train")
    BY <1>6 DEF SkipStep
  <2>2. IsState(live') /\ live'.step = live.step
    BY <1>1, <2>1 DEF IsState
  <2> QED BY <1>1, <2>1, <2>2, Continues DEF TrainPlaces
<1> QED BY <1>5, <1>6

LEMMA LogOK == ASSUME RunInv, LogStep \/ TrackValidation PROVE RunInv'
<1>1. CASE LogStep
  BY <1>1, AppendOK DEF LogStep, TrainPlaces, BeforeTracking
<1>2. CASE TrackValidation
  BY <1>2, AppendOK DEF TrackValidation, TrainPlaces, BeforeTracking
<1> QED BY <1>1, <1>2

\* The summary, the decision to validate and the registrations.
LEMMA QuietOK ==
  ASSUME RunInv,
         \/ OpenTracker \/ LogStepSummary \/ TrackValidationSummary
         \/ PassValidation \/ AcceptValidation \/ RegisterBest \/ RegisterPeriodic
         \/ RegisterLatest \/ PublishReport
  PROVE  RunInv'
<1>1. CASE OpenTracker
  <2> DEFINE d == [Directory EXCEPT !.config = job.config, !.status = "running"]
             next == CASE job.kind = "dry"  -> "finish"
                       [] job.kind = "eval" -> "report"
                       [] OTHER             -> "check"
  <2>1. pc = "open" /\ Write(d, next) /\ live' = live
    BY <1>1 DEF OpenTracker
  <2>2. next \in {"finish", "report", "check"}
    OBVIOUS
  <2>3. DirOK(Directory) /\ IsState(live)
    BY <2>1, Found
  <2>4. /\ DOMAIN d = DOMAIN Directory /\ d.metrics = Directory.metrics
        /\ d.periodic = Directory.periodic /\ d.best = Directory.best
        /\ d.last = Directory.last
    BY <2>3 DEF DirOK, Fields
  <2>5. IsState(live')
    BY <2>1, <2>3 DEF IsState
  <2> HIDE DEF d, next
  <2> QED BY <2>1, <2>2, <2>4, <2>5, WriteOK DEF EndPlaces, TrainPlaces, BeforeTracking
<1>2. ASSUME NEW at \in TrainPlaces, NEW next \in TrainPlaces, UpdateSummary(at, next),
             next # "log", next \notin BeforeTracking \/ at \in BeforeTracking
      PROVE  RunInv'
  <2> DEFINE d == [Directory EXCEPT !.summary = live.step]
  <2>1. pc = at /\ pc # "idle" /\ next # "idle" /\ Write(d, next) /\ live' = live
    BY <1>2 DEF UpdateSummary, TrainPlaces, BeforeTracking
  <2>2. DirOK(Directory) /\ IsState(live)
    BY <2>1, Found
  <2>3. /\ DOMAIN d = DOMAIN Directory /\ d.metrics = Directory.metrics
        /\ d.periodic = Directory.periodic /\ d.best = Directory.best
        /\ d.last = Directory.last
    BY <2>2 DEF DirOK, Fields
  <2>4. IsState(live') /\ live'.step = live.step
    BY <2>1, <2>2 DEF IsState
  <2> HIDE DEF d
  <2> QED BY <1>2, <2>1, <2>3, <2>4, WriteOK
<1>3. CASE LogStepSummary
  BY <1>2, <1>3 DEF LogStepSummary, TrainPlaces, BeforeTracking
<1>4. CASE TrackValidationSummary
  <2>1. AfterValidation \in {"periodic", "train"}
    BY DEF AfterValidation
  <2> QED BY <1>2, <1>4, <2>1 DEF TrackValidationSummary, TrainPlaces, BeforeTracking
<1>5. CASE PassValidation
  <2>1. pc = "validate" /\ Write(Directory, AfterValidation) /\ live' = live
    BY <1>5 DEF PassValidation
  <2>2. AfterValidation \in {"periodic", "train"}
    BY DEF AfterValidation
  <2>3. IsState(live)
    BY <2>1, Found
  <2>4. IsState(live') /\ live'.step = live.step
    BY <2>1, <2>3 DEF IsState
  <2> QED BY <2>1, <2>2, <2>4, WriteOK DEF TrainPlaces, BeforeTracking
<1>6. ASSUME NEW score,
             live' = live \/ live' = [live EXCEPT !.val = score]
      PROVE  pc # "idle" => IsState(live') /\ live'.step = live.step
  <2>1. pc # "idle" => IsState(live)
    BY Found
  <2> QED BY <1>6, <2>1 DEF IsState
<1>7. CASE AcceptValidation
  <2> DEFINE next == IF Improved THEN "best" ELSE "track"
  <2>1. /\ pc = "validate" /\ Write(Directory, next)
        /\ live' = live \/ live' = [live EXCEPT !.val = Candidate]
    BY <1>7 DEF AcceptValidation
  <2>2. next \in {"best", "track"}
    OBVIOUS
  <2>3. IsState(live') /\ live'.step = live.step
    BY <1>6, <2>1
  <2> HIDE DEF next
  <2> QED BY <2>1, <2>2, <2>3, WriteOK DEF TrainPlaces, BeforeTracking
<1>8. ASSUME NEW at \in TrainPlaces, NEW role, NEW next \in TrainPlaces \cup {"finish"},
             Register(at, role, next), live' = live \/ live' = [live EXCEPT !.val = Candidate],
             next # "log", next \notin BeforeTracking \/ at \in BeforeTracking
      PROVE  RunInv'
  <2> DEFINE d == [Directory EXCEPT !.events = @ \cup {Event(role, live.step)}]
  <2>1. pc = at /\ pc # "idle" /\ next # "idle" /\ Write(d, next)
    BY <1>8 DEF Register, TrainPlaces, BeforeTracking
  <2>2. DirOK(Directory)
    BY <2>1, Found
  <2>3. /\ DOMAIN d = DOMAIN Directory /\ d.metrics = Directory.metrics
        /\ d.periodic = Directory.periodic /\ d.best = Directory.best
        /\ d.last = Directory.last
    BY <2>2 DEF DirOK, Fields
  <2>4. IsState(live') /\ live'.step = live.step
    BY <1>6, <1>8, <2>1
  <2> HIDE DEF d
  <2> QED BY <1>8, <2>1, <2>3, <2>4, WriteOK DEF EndPlaces
<1>9. CASE RegisterBest
  BY <1>8, <1>9 DEF RegisterBest, TrainPlaces, BeforeTracking
<1>10. CASE RegisterPeriodic
  BY <1>8, <1>10 DEF RegisterPeriodic, TrainPlaces, BeforeTracking
<1>11. CASE RegisterLatest
  BY <1>8, <1>11 DEF RegisterLatest, TrainPlaces, BeforeTracking
<1>12. CASE PublishReport
  <2> DEFINE d == [Directory EXCEPT !.evaluated = job.source.state.step]
  <2>1. pc = "report" /\ Write(d, "reportEvent") /\ live' = live
    BY <1>12 DEF PublishReport
  <2>2. DirOK(Directory) /\ IsState(live)
    BY <2>1, Found
  <2>3. /\ DOMAIN d = DOMAIN Directory /\ d.metrics = Directory.metrics
        /\ d.periodic = Directory.periodic /\ d.best = Directory.best
        /\ d.last = Directory.last
    BY <2>2 DEF DirOK, Fields
  <2>4. IsState(live')
    BY <2>1, <2>2 DEF IsState
  <2> HIDE DEF d
  <2> QED BY <2>1, <2>3, <2>4, WriteOK DEF EndPlaces, TrainPlaces, BeforeTracking
<1> QED BY <1>1, <1>3, <1>4, <1>5, <1>7, <1>9, <1>10, <1>11, <1>12

LEMMA SavesOK ==
  ASSUME RunInv, SaveBest \/ SavePeriodic \/ SaveLatest
  PROVE  RunInv'
<1>1. DirOK(Directory) /\ IsState(live) /\ pc \in TrainPlaces
  BY Found DEF SaveBest, SavePeriodic, SaveLatest, TrainPlaces, BeforeTracking
<1>2. NotNewer(Directory, pc, live.step) /\ pc # "idle"
  BY <1>1, Found DEF TrainPlaces, BeforeTracking
<1>3. live' = live /\ IsState(live') /\ live'.step = live.step
  BY <1>1 DEF SaveBest, SavePeriodic, SaveLatest, IsState
<1>4. CASE SaveBest
  <2> DEFINE accepted == [live EXCEPT !.val = Candidate]
             d == [Directory EXCEPT !.best = Snapshot(accepted)]
  <2>1. pc = "best" /\ Write(d, "bestEvent")
    BY <1>4 DEF SaveBest
  <2>2. IsState(accepted)
    BY <1>1 DEF IsState
  <2> HIDE DEF accepted
  <2>3. /\ DOMAIN d = DOMAIN Directory /\ d.metrics = Directory.metrics
        /\ d.periodic = Directory.periodic /\ d.best = Snapshot(accepted)
        /\ d.last = Directory.last
    BY <1>1 DEF DirOK, Fields
  <2> HIDE DEF d
  <2>4. DirOK(d)
    BY <1>1, <2>2, <2>3, Altered, SnapshotOK
  <2>5. NotNewer(d, "bestEvent", live.step)
    BY <1>2, <2>1, <2>3 DEF NotNewer, BeforeTracking
  <2> QED BY <1>2, <1>3, <2>1, <2>4, <2>5, Continues DEF TrainPlaces, BeforeTracking
<1>5. CASE SavePeriodic
  <2> DEFINE kept == {c \in Directory.periodic : c.state.step # live.step} \cup {Snapshot(live)}
             d == [Directory EXCEPT !.periodic = kept]
  <2>1. pc = "periodic" /\ Write(d, "periodicEvent")
    BY <1>5 DEF SavePeriodic
  <2>2. \A c \in kept : c \in Directory.periodic \/ IsSaved(c)
    BY <1>1, SnapshotOK
  <2> HIDE DEF kept
  <2>3. /\ DOMAIN d = DOMAIN Directory /\ d.metrics = Directory.metrics
        /\ d.periodic = kept /\ d.best = Directory.best /\ d.last = Directory.last
    BY <1>1 DEF DirOK, Fields
  <2> HIDE DEF d
  <2>4. DirOK(d)
    BY <1>1, <2>2, <2>3, Altered
  <2>5. NotNewer(d, "periodicEvent", live.step)
    BY <1>2, <2>1, <2>3 DEF NotNewer, BeforeTracking
  <2> QED BY <1>2, <1>3, <2>1, <2>4, <2>5, Continues DEF TrainPlaces, BeforeTracking
<1>6. CASE SaveLatest
  <2> DEFINE d == [Directory EXCEPT !.last = Snapshot(live)]
             next == IF pc = "latest" THEN "latestEvent" ELSE "finalEvent"
  <2>1. pc \in {"latest", "train"} /\ Write(d, next)
    BY <1>6 DEF SaveLatest
  <2>2. next \in {"latestEvent", "finalEvent"}
    OBVIOUS
  <2> HIDE DEF next
  <2>3. /\ DOMAIN d = DOMAIN Directory /\ d.metrics = Directory.metrics
        /\ d.periodic = Directory.periodic /\ d.best = Directory.best
        /\ d.last = Snapshot(live)
    BY <1>1 DEF DirOK, Fields
  <2> HIDE DEF d
  <2>4. DirOK(d)
    BY <1>1, <2>3, Altered, SnapshotOK
  <2>5. NotNewer(d, next, live.step)
    <3>1. d.last.state.step <= live.step
      BY <1>1, <2>3, SnapshotOK DEF IsState
    <3> QED BY <1>2, <2>1, <2>2, <2>3, <3>1 DEF NotNewer, BeforeTracking
  <2> QED BY <1>2, <1>3, <2>1, <2>2, <2>4, <2>5, Continues DEF TrainPlaces, BeforeTracking
<1> QED BY <1>4, <1>5, <1>6

\* The stepless record of an evaluation is logged at most once.
LEMMA ReportOK == ASSUME RunInv, LogReport PROVE RunInv'
<1> DEFINE record == Record("evaluation", Stepless)
           longer == Append(Directory.metrics, record)
           logged == \E i \in DOMAIN Directory.metrics : Directory.metrics[i] = record
           m == IF logged THEN Directory.metrics ELSE longer
           d == [Directory EXCEPT !.metrics = m]
<1>1. pc = "reportEvent" /\ Write(d, "finish") /\ live' = live
  BY DEF LogReport
<1>2. DirOK(Directory) /\ IsState(live)
  BY <1>1, Found
<1>3. Directory.metrics \in Seq(Line) /\ Increasing(Directory.metrics)
  BY <1>2 DEF DirOK
<1>4. record \in Line /\ record.kind = "evaluation" /\ record.step = Stepless
  BY DEF Line, Record, Stepless
<1>5. ASSUME ~logged
      PROVE  \A i \in DOMAIN Directory.metrics : Directory.metrics[i].kind # "evaluation"
  <2> SUFFICES ASSUME NEW i \in DOMAIN Directory.metrics,
                      Directory.metrics[i].kind = "evaluation"
               PROVE  FALSE
    OBVIOUS
  <2>1. Directory.metrics[i].step = Stepless
    BY <1>3 DEF Increasing
  <2>2. Directory.metrics[i] \in Line
    BY <1>3, ElementOfSeq
  <2>3. Directory.metrics[i] = record
    BY <2>1, <2>2 DEF Line, Record
  <2> QED BY <1>5, <2>3
<1>6. m \in Seq(Line) /\ Increasing(m)
  <2> HIDE DEF record
  <2>1. CASE ~logged
    <3>1. \A i \in DOMAIN Directory.metrics : Directory.metrics[i].kind # "evaluation"
      BY <1>5, <2>1
    <3> QED BY <1>3, <1>4, <2>1, <3>1, AppendLine
  <2> QED BY <1>3, <2>1
<1> HIDE DEF m
<1>7. /\ DOMAIN d = DOMAIN Directory /\ d.metrics = m /\ d.last = Directory.last
      /\ d.periodic = Directory.periodic /\ d.best = Directory.best
  BY <1>2 DEF DirOK, Fields
<1> HIDE DEF d
<1>8. DirOK(d)
  BY <1>2, <1>6, <1>7 DEF DirOK
<1>9. IsState(live')
  BY <1>1, <1>2 DEF IsState
<1> QED BY <1>1, <1>8, <1>9, Continues DEF EndPlaces, TrainPlaces, BeforeTracking

\* Every way a command ends leaves the metrics and the checkpoints as they are.
LEMMA EndsOK ==
  ASSUME RunInv,
         \/ RefuseToOpen \/ RefuseToTrain \/ GiveUp \/ RefuseReport \/ Finish
         \/ Fail \/ Kill
  PROVE  RunInv'
<1>1. PICK d, verdict :
        /\ pc # "idle" /\ End(d, verdict)
        /\ \/ d = Directory
           \/ \E status : d = [Directory EXCEPT !.status = status]
           \/ d = [Directory EXCEPT !.torn = TRUE]
           \/ d = [[Directory EXCEPT !.torn = TRUE] EXCEPT !.status = "failed"]
           \/ \E torn : d = [Directory EXCEPT !.config = job.config, !.torn = torn]
  <2>1. CASE Kill
    <3>1. PICK d \in Interrupted \cup Opening : pc # "idle" /\ End(d, "killed")
      BY <2>1 DEF Kill
    <3>2. \/ d = Directory \/ d = [Directory EXCEPT !.torn = TRUE]
          \/ \E torn : d = [Directory EXCEPT !.config = job.config, !.torn = torn]
      BY <3>1 DEF Interrupted, Opening
    <3> QED BY <3>1, <3>2
  <2>2. CASE ~Kill
    BY <2>2 DEF RefuseToOpen, RefuseToTrain, GiveUp, Attempting, RefuseReport, Finish, Fail,
                Interrupted
  <2> QED BY <2>1, <2>2
<1>2. DirOK(Directory)
  BY <1>1, Found
<1>3. /\ DOMAIN d = DOMAIN Directory /\ d.metrics = Directory.metrics
      /\ d.periodic = Directory.periodic /\ d.best = Directory.best
      /\ d.last = Directory.last
  BY <1>1, <1>2 DEF DirOK, Fields
<1>4. DirOK(d)
  BY <1>2, <1>3, Altered
<1> QED BY <1>1, <1>4, Ends

-----------------------------------------------------------------------------
LEMMA StepOK == RunInv /\ [Next]_vars => RunInv'
<1> SUFFICES ASSUME RunInv, [Next]_vars PROVE RunInv'
  OBVIOUS
<1>1. CASE Step
  BY <1>1, StartOK, AttemptOK, LogOK, QuietOK, SavesOK, ReportOK, EndsOK DEF Step
<1>2. CASE Fail \/ Kill
  BY <1>2, EndsOK
<1>3. ASSUME NEW r \in Runs, NEW c \in Configs, NEW request \in Jobs(r, c),
             Command(request)
      PROVE  RunInv'
  BY <1>3, CommandOK
<1>4. CASE UNCHANGED vars
  BY <1>4 DEF vars, RunInv, DirsOK, DirOK, Increasing, IsSaved, IsState, ProcessOK, NotNewer
<1> QED BY <1>1, <1>2, <1>3, <1>4 DEF Next

LEMMA RunInvAlways == Spec => []RunInv
  BY InitOK, StepOK, PTL DEF Spec

\* However often runs fail, are killed and resume, no step is logged twice in a
\* directory: the steps of either kind of metrics increase
\* (_validate_existing_outputs, Tracker.log).
THEOREM MetricsIncreaseHolds == Spec => []MetricsIncrease
<1>1. RunInv => MetricsIncrease
  BY DEF RunInv, DirsOK, DirOK, Increasing, MetricsIncrease
<1> QED BY <1>1, RunInvAlways, PTL

-----------------------------------------------------------------------------
(***************************************************************************)
(* What each action does to the directory it runs in, field by field.      *)
(***************************************************************************)
\* d and e agree but for these fields.
Same(d, e, changed) == DOMAIN e = DOMAIN d /\ \A f \in Fields \ changed : e[f] = d[f]

Moves(next, changed) ==
  /\ pc # "idle" /\ job.run \in Runs
  /\ pc' = next /\ UNCHANGED <<oracles, job, reply, commands>>
  /\ \A r \in Runs : r # job.run => dirs'[r] = dirs[r]
  /\ Same(Directory, dirs'[job.run], changed)

Stops ==
  /\ pc # "idle" /\ job.run \in Runs
  /\ pc' = "idle" /\ job' = NoJob /\ live' = Untrained /\ skipped' = 0
  /\ UNCHANGED <<oracles, commands>>
  /\ \A r \in Runs : r # job.run => dirs'[r] = dirs[r]
  /\ Same(Directory, dirs'[job.run], {"config", "status", "torn"})
  /\ \/ dirs'[job.run].config = Directory.config
     \/ pc = "open" /\ CanOpen(Directory) /\ dirs'[job.run].config = job.config

\* The fields of a directory that is as it was but for some.
LEMMA SameFields ==
  ASSUME NEW d, NEW e, NEW changed, Same(d, e, changed)
  PROVE  /\ "config" \notin changed => e.config = d.config
         /\ "metrics" \notin changed => e.metrics = d.metrics
         /\ "events" \notin changed => e.events = d.events
         /\ "torn" \notin changed => e.torn = d.torn
         /\ "summary" \notin changed => e.summary = d.summary
         /\ "status" \notin changed => e.status = d.status
         /\ "periodic" \notin changed => e.periodic = d.periodic
         /\ "best" \notin changed => e.best = d.best
         /\ "last" \notin changed => e.last = d.last
         /\ "evaluated" \notin changed => e.evaluated = d.evaluated
         /\ "foreign" \notin changed => e.foreign = d.foreign
  BY DEF Same, Fields

LEMMA MovesTo ==
  ASSUME RunInv, pc # "idle", NEW d, NEW next, NEW changed, Write(d, next),
         Same(Directory, d, changed)
  PROVE  Moves(next, changed) /\ dirs'[job.run] = d
<1>1. job.run \in Runs /\ dirs' = [dirs EXCEPT ![job.run] = d]
  BY Found DEF Write
<1>2. \A r \in Runs : dirs'[r] = IF r = job.run THEN d ELSE dirs[r]
  BY <1>1 DEF RunInv, DirsOK
<1> QED BY <1>1, <1>2 DEF Moves, Write

LEMMA OpenTrackerDoes ==
  ASSUME RunInv, OpenTracker
  PROVE  /\ pc = "open" /\ Moves(pc', {"config", "status"})
         /\ dirs'[job.run].config = job.config /\ dirs'[job.run].status = "running"
         /\ CanOpen(Directory) /\ UNCHANGED <<live, skipped>>
         /\ pc' = CASE job.kind = "dry"  -> "finish"
                    [] job.kind = "eval" -> "report"
                    [] OTHER             -> "check"
<1> DEFINE d == [Directory EXCEPT !.config = job.config, !.status = "running"]
<1>1. DOMAIN Directory = Fields /\ pc = "open" /\ Write(d, pc')
  BY Found DEF OpenTracker, DirOK, Write
<1>2. Same(Directory, d, {"config", "status"}) /\ d.config = job.config /\ d.status = "running"
  BY <1>1 DEF Same, Fields
<1> HIDE DEF d
<1> QED BY <1>1, <1>2, MovesTo DEF OpenTracker, Write

LEMMA StartTrainingDoes ==
  ASSUME RunInv, StartTraining
  PROVE  /\ pc = "check" /\ Moves("train", {"foreign"})
         /\ dirs'[job.run].foreign =
              (Directory.foreign \/ (job.kind = "resume" /\ job.source.run # job.run))
         /\ MayTrain(Directory) /\ live' = Restored(job.source) /\ UNCHANGED skipped
<1> DEFINE foreign == Directory.foreign \/ (job.kind = "resume" /\ job.source.run # job.run)
           d == [Directory EXCEPT !.foreign = foreign]
<1>1. DOMAIN Directory = Fields /\ pc = "check" /\ Write(d, "train")
  BY Found DEF StartTraining, DirOK
<1> HIDE DEF foreign
<1>2. Same(Directory, d, {"foreign"}) /\ d.foreign = foreign
  BY <1>1 DEF Same, Fields
<1> HIDE DEF d
<1>3. Moves("train", {"foreign"}) /\ dirs'[job.run].foreign = foreign
  BY <1>1, <1>2, MovesTo
<1> QED BY <1>1, <1>3 DEF StartTraining, foreign

LEMMA AttemptDoes ==
  ASSUME RunInv, ApplyStep \/ SkipStep
  PROVE  Moves(pc', {}) /\ dirs'[job.run] = Directory
<1>1. DOMAIN Directory = Fields /\ pc # "idle" /\ Write(Directory, pc')
  BY Found DEF ApplyStep, SkipStep, Attempting, DirOK, Write
<1>2. Same(Directory, Directory, {})
  BY DEF Same
<1> QED BY <1>1, <1>2, MovesTo

LEMMA ValidationDoes ==
  ASSUME RunInv, PassValidation \/ AcceptValidation
  PROVE  Moves(pc', {}) /\ dirs'[job.run] = Directory
<1>1. DOMAIN Directory = Fields /\ pc # "idle" /\ Write(Directory, pc')
  BY Found DEF PassValidation, AcceptValidation, DirOK, Write
<1>2. Same(Directory, Directory, {})
  BY DEF Same
<1> QED BY <1>1, <1>2, MovesTo

LEMMA AppendDoes ==
  ASSUME RunInv, NEW at \in TrainPlaces, NEW kind, NEW next, AppendMetrics(at, kind, next)
  PROVE  /\ pc = at /\ Moves(next, {"metrics"}) /\ UNCHANGED <<live, skipped>>
         /\ dirs'[job.run].metrics = Append(Directory.metrics, Record(kind, live.step))
<1> DEFINE m == Append(Directory.metrics, Record(kind, live.step))
           d == [Directory EXCEPT !.metrics = m]
<1>1. DOMAIN Directory = Fields /\ pc = at /\ pc # "idle" /\ Write(d, next)
  BY Found DEF AppendMetrics, TrainPlaces, BeforeTracking, DirOK
<1> HIDE DEF m
<1>2. Same(Directory, d, {"metrics"}) /\ d.metrics = m
  BY <1>1 DEF Same, Fields
<1> HIDE DEF d
<1>3. Moves(next, {"metrics"}) /\ dirs'[job.run].metrics = m
  BY <1>1, <1>2, MovesTo
<1> QED BY <1>1, <1>3 DEF AppendMetrics, m

LEMMA SummaryDoes ==
  ASSUME RunInv, NEW at \in TrainPlaces, NEW next, UpdateSummary(at, next)
  PROVE  /\ pc = at /\ Moves(next, {"summary"}) /\ UNCHANGED <<live, skipped>>
         /\ dirs'[job.run].summary = live.step /\ Directory.summary <= live.step
<1> DEFINE d == [Directory EXCEPT !.summary = live.step]
<1>1. DOMAIN Directory = Fields /\ pc = at /\ pc # "idle" /\ Write(d, next)
  BY Found DEF UpdateSummary, TrainPlaces, BeforeTracking, DirOK
<1>2. Same(Directory, d, {"summary"}) /\ d.summary = live.step
  BY <1>1 DEF Same, Fields
<1> HIDE DEF d
<1> QED BY <1>1, <1>2, MovesTo DEF UpdateSummary

LEMMA RegisterDoes ==
  ASSUME RunInv, NEW at \in TrainPlaces, NEW role, NEW next, Register(at, role, next)
  PROVE  /\ pc = at /\ Moves(next, {"events"})
         /\ dirs'[job.run].events = Directory.events \cup {Event(role, live.step)}
<1> DEFINE e == Directory.events \cup {Event(role, live.step)}
           d == [Directory EXCEPT !.events = e]
<1>1. DOMAIN Directory = Fields /\ pc = at /\ pc # "idle" /\ Write(d, next)
  BY Found DEF Register, TrainPlaces, BeforeTracking, DirOK
<1> HIDE DEF e
<1>2. Same(Directory, d, {"events"}) /\ d.events = e
  BY <1>1 DEF Same, Fields
<1> HIDE DEF d
<1>3. Moves(next, {"events"}) /\ dirs'[job.run].events = e
  BY <1>1, <1>2, MovesTo
<1> QED BY <1>1, <1>3 DEF e

LEMMA SaveBestDoes ==
  ASSUME RunInv, SaveBest
  PROVE  /\ pc = "best" /\ Moves("bestEvent", {"best"}) /\ UNCHANGED <<live, skipped>>
         /\ dirs'[job.run].best = Snapshot([live EXCEPT !.val = Candidate])
<1> DEFINE c == Snapshot([live EXCEPT !.val = Candidate])
           d == [Directory EXCEPT !.best = c]
<1>1. DOMAIN Directory = Fields /\ pc = "best" /\ Write(d, "bestEvent")
  BY Found DEF SaveBest, DirOK
<1> HIDE DEF c
<1>2. Same(Directory, d, {"best"}) /\ d.best = c
  BY <1>1 DEF Same, Fields
<1> HIDE DEF d
<1>3. Moves("bestEvent", {"best"}) /\ dirs'[job.run].best = c
  BY <1>1, <1>2, MovesTo
<1> QED BY <1>1, <1>3 DEF SaveBest, c

LEMMA SavePeriodicDoes ==
  ASSUME RunInv, SavePeriodic
  PROVE  /\ pc = "periodic" /\ Moves("periodicEvent", {"periodic"}) /\ UNCHANGED <<live, skipped>>
         /\ dirs'[job.run].periodic =
              {c \in Directory.periodic : c.state.step # live.step} \cup {Snapshot(live)}
<1> DEFINE p == {c \in Directory.periodic : c.state.step # live.step} \cup {Snapshot(live)}
           d == [Directory EXCEPT !.periodic = p]
<1>1. DOMAIN Directory = Fields /\ pc = "periodic" /\ Write(d, "periodicEvent")
  BY Found DEF SavePeriodic, DirOK
<1> HIDE DEF p
<1>2. Same(Directory, d, {"periodic"}) /\ d.periodic = p
  BY <1>1 DEF Same, Fields
<1> HIDE DEF d
<1>3. Moves("periodicEvent", {"periodic"}) /\ dirs'[job.run].periodic = p
  BY <1>1, <1>2, MovesTo
<1> QED BY <1>1, <1>3 DEF SavePeriodic, p

LEMMA SaveLatestDoes ==
  ASSUME RunInv, SaveLatest
  PROVE  /\ Moves(pc', {"last"}) /\ UNCHANGED <<live, skipped>>
         /\ \/ pc = "latest" /\ pc' = "latestEvent"
            \/ pc = "train" /\ pc' = "finalEvent" /\ live.step = job.config.target
         /\ dirs'[job.run].last = Snapshot(live)
<1> DEFINE c == Snapshot(live)
           d == [Directory EXCEPT !.last = c]
<1>1. DOMAIN Directory = Fields /\ pc # "idle" /\ Write(d, pc')
  BY Found DEF SaveLatest, DirOK, Write
<1> HIDE DEF c
<1>2. Same(Directory, d, {"last"}) /\ d.last = c
  BY <1>1 DEF Same, Fields
<1> HIDE DEF d
<1>3. Moves(pc', {"last"}) /\ dirs'[job.run].last = c
  BY <1>1, <1>2, MovesTo
<1> QED BY <1>1, <1>3 DEF SaveLatest, Write, c

\* A save installs what it saves, and nothing else.
LEMMA SavesInstall ==
  ASSUME RunInv, SaveBest \/ SavePeriodic \/ SaveLatest
  PROVE  \E changed :
           /\ Moves(pc', changed) /\ changed \subseteq {"periodic", "best", "last"}
           /\ \A c \in Installed(dirs'[job.run]) :
                \/ c \in Installed(Directory)
                \/ c = Snapshot(live)
                \/ SaveBest /\ c = Snapshot([live EXCEPT !.val = Candidate])
<1> DEFINE d == dirs'[job.run]
           scored == [live EXCEPT !.val = Candidate]
<1> HIDE DEF scored
<1>1. CASE SaveBest
  <2>1. Moves(pc', {"best"}) /\ d.best = Snapshot(scored)
    BY <1>1, SaveBestDoes DEF Moves, scored
  <2>2. Same(Directory, d, {"best"})
    BY <2>1 DEF Moves
  <2>3. \A c \in Installed(d) : c \in Installed(Directory) \/ c = Snapshot(scored)
    BY <2>1, <2>2, SameFields DEF Installed
  <2> QED BY <1>1, <2>1, <2>3 DEF scored
<1>2. CASE SavePeriodic
  <2>1. /\ Moves(pc', {"periodic"})
        /\ d.periodic = {c \in Directory.periodic : c.state.step # live.step} \cup {Snapshot(live)}
    BY <1>2, SavePeriodicDoes DEF Moves
  <2>2. Same(Directory, d, {"periodic"})
    BY <2>1 DEF Moves
  <2>3. \A c \in Installed(d) : c \in Installed(Directory) \/ c = Snapshot(live)
    BY <2>1, <2>2, SameFields DEF Installed
  <2> QED BY <2>1, <2>3
<1>3. CASE SaveLatest
  <2>1. Moves(pc', {"last"}) /\ d.last = Snapshot(live)
    BY <1>3, SaveLatestDoes
  <2>2. Same(Directory, d, {"last"})
    BY <2>1 DEF Moves
  <2>3. \A c \in Installed(d) : c \in Installed(Directory) \/ c = Snapshot(live)
    BY <2>1, <2>2, SameFields DEF Installed
  <2> QED BY <2>1, <2>3
<1> QED BY <1>1, <1>2, <1>3

LEMMA ReportDoes ==
  ASSUME RunInv, PublishReport \/ LogReport
  PROVE  /\ pc \in {"report", "reportEvent"} /\ pc' \in {"reportEvent", "finish"}
         /\ Moves(pc', {"metrics", "evaluated"}) /\ UNCHANGED <<live, skipped>>
         /\ dirs'[job.run].metrics
              \in {Directory.metrics, Append(Directory.metrics, Record("evaluation", Stepless))}
         /\ dirs'[job.run].evaluated \in {Directory.evaluated, job.source.state.step}
<1>1. DOMAIN Directory = Fields
  BY Found DEF PublishReport, LogReport, DirOK
<1>2. CASE PublishReport
  <2> DEFINE d == [Directory EXCEPT !.evaluated = job.source.state.step]
  <2>1. pc = "report" /\ Write(d, "reportEvent")
    BY <1>2 DEF PublishReport
  <2>2. /\ Same(Directory, d, {"metrics", "evaluated"})
        /\ d.metrics = Directory.metrics /\ d.evaluated = job.source.state.step
    BY <1>1 DEF Same, Fields
  <2> HIDE DEF d
  <2>3. pc' = "reportEvent"
    BY <2>1 DEF Write
  <2> QED BY <1>2, <2>1, <2>2, <2>3, MovesTo DEF PublishReport
<1>3. CASE LogReport
  <2> DEFINE record == Record("evaluation", Stepless)
             longer == Append(Directory.metrics, record)
             m == IF \E i \in DOMAIN Directory.metrics : Directory.metrics[i] = record
                  THEN Directory.metrics ELSE longer
             d == [Directory EXCEPT !.metrics = m]
  <2>1. pc = "reportEvent" /\ Write(d, "finish")
    BY <1>3 DEF LogReport
  <2>2. m \in {Directory.metrics, longer}
    OBVIOUS
  <2> HIDE DEF m
  <2>3. /\ Same(Directory, d, {"metrics", "evaluated"})
        /\ d.metrics = m /\ d.evaluated = Directory.evaluated
    BY <1>1 DEF Same, Fields
  <2> HIDE DEF d, longer
  <2>4. pc' = "finish"
    BY <2>1 DEF Write
  <2>5. /\ Moves(pc', {"metrics", "evaluated"}) /\ dirs'[job.run].metrics = m
        /\ dirs'[job.run].evaluated = Directory.evaluated
    BY <2>1, <2>3, <2>4, MovesTo
  <2> QED BY <1>3, <2>1, <2>2, <2>4, <2>5 DEF LogReport, longer
<1> QED BY <1>2, <1>3

LEMMA StopsDo ==
  ASSUME RunInv,
         \/ RefuseToOpen \/ RefuseToTrain \/ GiveUp \/ RefuseReport \/ Finish
         \/ Fail \/ Kill
  PROVE  /\ Stops
         /\ dirs'[job.run].status \in {Directory.status, "failed", "completed"}
         /\ dirs'[job.run].torn \in {Directory.torn, FALSE, TRUE}
         /\ reply' \in {"refused", "failed", "killed", "completed"}
         /\ reply' = "refused" => pc \in {"open", "check", "report"}
<1> DEFINE Ending(d, verdict) ==
             /\ pc # "idle" /\ End(d, verdict)
             /\ verdict \in {"refused", "failed", "killed", "completed"}
             /\ verdict = "refused" => pc \in {"open", "check", "report"}
             /\ \/ d = Directory
                \/ \E status \in {"failed", "completed"} :
                     d = [Directory EXCEPT !.status = status]
                \/ d = [Directory EXCEPT !.torn = TRUE]
                \/ d = [[Directory EXCEPT !.torn = TRUE] EXCEPT !.status = "failed"]
                \/ /\ pc = "open" /\ CanOpen(Directory)
                   /\ \E torn \in BOOLEAN :
                        d = [Directory EXCEPT !.config = job.config, !.torn = torn]
<1>1. PICK d, verdict : Ending(d, verdict)
  <2>1. CASE RefuseToOpen
    BY <2>1 DEF RefuseToOpen
  <2>2. CASE RefuseToTrain \/ RefuseReport \/ GiveUp
    BY <2>2 DEF RefuseToTrain, GiveUp, Attempting, RefuseReport
  <2>3. CASE Finish
    BY <2>3 DEF Finish
  <2>4. CASE Fail
    BY <2>4 DEF Fail, Interrupted
  <2>5. CASE Kill
    <3>1. PICK d \in Interrupted \cup Opening : pc # "idle" /\ End(d, "killed")
      BY <2>5 DEF Kill
    <3>2. \/ d = Directory \/ d = [Directory EXCEPT !.torn = TRUE]
          \/ /\ pc = "open" /\ CanOpen(Directory)
             /\ \E torn \in BOOLEAN :
                  d = [Directory EXCEPT !.config = job.config, !.torn = torn]
      BY <3>1 DEF Interrupted, Opening
    <3> QED BY <3>1, <3>2
  <2> QED BY <2>1, <2>2, <2>3, <2>4, <2>5
<1>2. DOMAIN Directory = Fields /\ job.run \in Runs
  BY <1>1, Found DEF DirOK
<1>3. /\ Same(Directory, d, {"config", "status", "torn"})
      /\ d.status \in {Directory.status, "failed", "completed"}
      /\ d.torn \in {Directory.torn, FALSE, TRUE}
      /\ \/ d.config = Directory.config
         \/ pc = "open" /\ CanOpen(Directory) /\ d.config = job.config
  BY <1>1, <1>2 DEF Same, Fields
<1>4. dirs' = [dirs EXCEPT ![job.run] = d]
  BY <1>1 DEF End
<1>5. \A r \in Runs : dirs'[r] = IF r = job.run THEN d ELSE dirs[r]
  BY <1>4 DEF RunInv, DirsOK
<1> QED BY <1>1, <1>2, <1>3, <1>5 DEF Stops, End

\* Only SaveLatest replaces last.pt, and only SaveBest best.pt.
LEMMA Replaced ==
  ASSUME RunInv, [Next]_vars
  PROVE  /\ SaveLatest \/ \A r \in Runs : dirs'[r].last = dirs[r].last
         /\ SaveBest \/ \A r \in Runs : dirs'[r].best = dirs[r].best
<1> DEFINE Keeps(field) == \A r \in Runs : dirs'[r][field] = dirs[r][field]
           Kept == Keeps("last") /\ Keeps("best")
<1>1. ASSUME NEW changed, Moves(pc', changed)
      PROVE  /\ "last" \notin changed => Keeps("last")
             /\ "best" \notin changed => Keeps("best")
  <2>1. /\ \A r \in Runs : r # job.run => dirs'[r] = dirs[r]
        /\ Same(Directory, dirs'[job.run], changed)
    BY <1>1 DEF Moves
  <2> QED BY <2>1 DEF Same, Fields, Directory
<1>2. CASE OpenTracker
  BY <1>1, <1>2, OpenTrackerDoes
<1>3. CASE StartTraining
  BY <1>1, <1>3, StartTrainingDoes DEF Moves
<1>4. CASE ApplyStep \/ SkipStep \/ PassValidation \/ AcceptValidation
  BY <1>1, <1>4, AttemptDoes, ValidationDoes
<1>5. CASE LogStep \/ TrackValidation
  BY <1>1, <1>5, AppendDoes DEF LogStep, TrackValidation, TrainPlaces, BeforeTracking, Moves
<1>6. CASE LogStepSummary \/ TrackValidationSummary
  BY <1>1, <1>6, SummaryDoes DEF LogStepSummary, TrackValidationSummary, TrainPlaces,
                                 BeforeTracking, Moves
<1>7. CASE RegisterBest \/ RegisterPeriodic \/ RegisterLatest
  BY <1>1, <1>7, RegisterDoes DEF RegisterBest, RegisterPeriodic, RegisterLatest,
                                  TrainPlaces, BeforeTracking, Moves
<1>8. CASE SaveBest
  BY <1>1, <1>8, SaveBestDoes DEF Moves
<1>9. CASE SavePeriodic
  BY <1>1, <1>9, SavePeriodicDoes DEF Moves
<1>10. CASE SaveLatest
  BY <1>1, <1>10, SaveLatestDoes
<1>11. CASE PublishReport \/ LogReport
  BY <1>1, <1>11, ReportDoes
<1>12. CASE \/ RefuseToOpen \/ RefuseToTrain \/ GiveUp \/ RefuseReport \/ Finish
            \/ Fail \/ Kill
  <2>1. /\ \A r \in Runs : r # job.run => dirs'[r] = dirs[r]
        /\ Same(Directory, dirs'[job.run], {"config", "status", "torn"})
    BY <1>12, StopsDo DEF Stops
  <2> QED BY <2>1 DEF Same, Fields, Directory
<1>13. ASSUME NEW r \in Runs, NEW c \in Configs, NEW request \in Jobs(r, c), Command(request)
       PROVE  Kept
  BY <1>13 DEF Command
<1>14. CASE UNCHANGED vars
  BY <1>14 DEF vars
<1> QED BY <1>2, <1>3, <1>4, <1>5, <1>6, <1>7, <1>8, <1>9, <1>10, <1>11, <1>12, <1>13, <1>14
        DEF Next, Step

\* Nothing is newer than the model that replaces last.pt.
LEMMA LastAdvances ==
  ASSUME RunInv, [Next]_vars
  PROVE  \A r \in Runs : dirs'[r].last.state.step >= dirs[r].last.state.step
<1>1. \A r \in Runs : dirs[r].last.state.step \in Nat
  BY DEF RunInv, DirsOK, DirOK, IsSaved, IsState
<1>2. CASE SaveLatest
  <2>1. /\ dirs'[job.run].last = Snapshot(live) /\ pc \in TrainPlaces /\ pc # "idle"
        /\ \A r \in Runs : r # job.run => dirs'[r] = dirs[r]
    BY <1>2, SaveLatestDoes DEF Moves, TrainPlaces
  <2>2. IsState(live) /\ Directory.last.state.step <= live.step
    BY <2>1, Found DEF NotNewer
  <2>3. dirs'[job.run].last.state.step >= dirs[job.run].last.state.step
    BY <1>1, <2>1, <2>2, Found, SnapshotOK DEF IsState, Directory
  <2> QED BY <1>1, <2>1, <2>3
<1> QED BY <1>1, <1>2, Replaced

\* No resumption replaces last.pt by an earlier state of training: what the
\* resume check and the order of the periodic saves are for.
THEOREM LastNeverRegressesHolds == Spec => LastNeverRegresses
<1>1. RunInv /\ [Next]_vars =>
        [\A r \in Runs : dirs'[r].last.state.step >= dirs[r].last.state.step]_vars
  BY LastAdvances
<1> QED BY <1>1, RunInvAlways, PTL DEF Spec, LastNeverRegresses

-----------------------------------------------------------------------------
(***************************************************************************)
(* Types.  Steps and positions stay within the bound because a model is    *)
(* never ahead of its loader.                                              *)
(***************************************************************************)
Placed(s) == s.step <= s.pos

ProcessTyped ==
  /\ pc # "idle" => job.config \in Configs /\ job.run \in Runs
  /\ job.kind = "fresh" => job.source = NoCheckpoint
  /\ job.source.exact => Placed(job.source.state)
  /\ Placed(live)
  /\ pc \in TrainPlaces => live.step <= job.config.target
  /\ pc \in TrainPlaces \ {"train"} => live.step >= 1

TypeInv ==
  /\ TypeOK /\ ProcessTyped
  /\ \A r \in Runs : \A c \in Installed(dirs[r]) : Placed(c.state)

LEMMA StateTyped ==
  ASSUME NEW s \in States
  PROVE  /\ s = [step |-> s.step, pos |-> s.pos, applied |-> s.applied, val |-> s.val]
         /\ s.step \in Steps /\ s.pos \in Steps /\ s.step \in Nat /\ s.pos \in Nat
         /\ s.applied \in Seq(1 .. MaxPosition)
         /\ s.val \in [step : Steps, current : Nat, minimum : Nat]
         /\ s.val.step \in Nat /\ s.val.current \in Nat /\ s.val.minimum \in Nat
  BY BoundsAssumption DEF States, Steps

LEMMA UntrainedTyped == Untrained \in States /\ NoCheckpoint \in Checkpoints /\ Placed(Untrained)
<1>1. 0 \in Steps
  BY BoundsAssumption DEF Steps
<1>2. Untrained \in States
  <2> DEFINE none == <<>>
  <2>1. none \in Seq(1 .. MaxPosition)
    OBVIOUS
  <2>2. Untrained = [step |-> 0, pos |-> 0, applied |-> none, val |-> NoValidation]
    BY DEF Untrained
  <2>3. NoValidation \in [step : Steps, current : Nat, minimum : Nat]
    BY <1>1 DEF NoValidation
  <2> HIDE DEF none
  <2> QED BY <1>1, <2>1, <2>2, <2>3 DEF States
<1>3. NoCheckpoint \in Checkpoints
  BY <1>2 DEF NoCheckpoint, Checkpoint, Checkpoints
<1> QED BY <1>2, <1>3 DEF Untrained, Placed

LEMMA NewDirectoryTyped == IsDirectory(NewDirectory) /\ Installed(NewDirectory) = {}
<1> DEFINE none == NewDirectory.metrics
<1>1. none = <<>>
  BY DEF NewDirectory
<1>2. none \in Seq([kind : {"train", "validation", "evaluation"}, step : Steps])
  BY <1>1
<1>3. 0 \in Steps
  BY BoundsAssumption DEF Steps
<1>4. /\ NewDirectory.config = NoConfig /\ NewDirectory.events = {}
      /\ NewDirectory.torn = FALSE /\ NewDirectory.foreign = FALSE
      /\ NewDirectory.summary = 0 /\ NewDirectory.evaluated = 0
      /\ NewDirectory.status = "none" /\ NewDirectory.periodic = {}
      /\ NewDirectory.best = NoCheckpoint /\ NewDirectory.last = NoCheckpoint
  BY DEF NewDirectory
<1> HIDE DEF none
<1> QED BY <1>2, <1>3, <1>4, UntrainedTyped DEF IsDirectory, Installed, none

LEMMA InitTyped == Init => TypeInv
<1> SUFFICES ASSUME Init PROVE TypeInv
  OBVIOUS
<1>1. /\ job.source = NoCheckpoint /\ job.run = NoRun /\ live = Untrained /\ pc = "idle"
  BY DEF Init, NoJob, Job
<1>2. \A r \in Runs : dirs[r] = NewDirectory
  BY DEF Init
<1>3. TypeOK
  <2>1. 0 \in 0 .. SkipLimit - 1 /\ 0 \in 0 .. MaxCommands + 1
    BY BoundsAssumption
  <2> QED BY <1>1, <1>2, <2>1, UntrainedTyped, NewDirectoryTyped DEF Init, TypeOK
<1>4. ProcessTyped
  BY <1>1, UntrainedTyped DEF ProcessTyped, NoCheckpoint, Checkpoint, TrainPlaces, BeforeTracking
<1> QED BY <1>2, <1>3, <1>4, NewDirectoryTyped DEF TypeInv

\* What the types say of a running process and its directory.
LEMMA Typed ==
  ASSUME RunInv, TypeInv, pc # "idle"
  PROVE  /\ job.config \in Configs /\ job.run \in Runs /\ job.source \in Checkpoints
         /\ IsDirectory(Directory) /\ live \in States /\ Placed(live)
         /\ skipped \in 0 .. SkipLimit - 1
         /\ \A c \in Installed(Directory) : Placed(c.state)
         /\ pc \in TrainPlaces => live.step <= job.config.target
         /\ pc \in TrainPlaces \ {"train"} => live.step >= 1
         /\ job.config.target \in Nat \ {0} /\ job.config.log \in Nat \ {0}
         /\ job.config.eval \in Nat \ {0} /\ job.config.save \in Nat \ {0}
  BY ConfigsAssumption DEF TypeInv, TypeOK, ProcessTyped, Directory

LEMMA MovesTyped ==
  ASSUME RunInv, TypeInv, NEW changed, Moves(pc', changed), pc' # "idle",
         IsDirectory(dirs'[job.run]),
         \A c \in Installed(dirs'[job.run]) : c \in Installed(Directory) \/ Placed(c.state),
         live' \in States, Placed(live'), skipped' \in 0 .. SkipLimit - 1,
         pc' \in TrainPlaces => live'.step <= job.config.target,
         pc' \in TrainPlaces \ {"train"} => live'.step >= 1
  PROVE  TypeInv'
<1>1. /\ job' = job /\ overflow' = overflow /\ bpb' = bpb /\ reply' = reply
      /\ commands' = commands /\ pc # "idle" /\ job.run \in Runs
      /\ \A r \in Runs : r # job.run => dirs'[r] = dirs[r]
  BY DEF Moves, oracles
<1>2. TypeOK'
  BY <1>1 DEF TypeInv, TypeOK
<1>3. ProcessTyped'
  BY <1>1, Typed DEF TypeInv, ProcessTyped
<1>4. \A r \in Runs : \A c \in Installed(dirs'[r]) : Placed(c.state)
  BY <1>1 DEF TypeInv, Directory
<1> QED BY <1>2, <1>3, <1>4 DEF TypeInv

LEMMA StopsTyped ==
  ASSUME RunInv, TypeInv, Stops, reply' \in {"refused", "failed", "killed", "completed"},
         dirs'[job.run].status \in {Directory.status, "failed", "completed"},
         dirs'[job.run].torn \in {Directory.torn, FALSE, TRUE}
  PROVE  TypeInv'
<1>1. /\ job' = NoJob /\ overflow' = overflow /\ bpb' = bpb /\ live' = Untrained
      /\ commands' = commands /\ pc # "idle" /\ job.run \in Runs /\ skipped' = 0
      /\ \A r \in Runs : r # job.run => dirs'[r] = dirs[r]
      /\ Same(Directory, dirs'[job.run], {"config", "status", "torn"}) /\ pc' = "idle"
      /\ \/ dirs'[job.run].config = Directory.config
         \/ pc = "open" /\ dirs'[job.run].config = job.config
  BY DEF Stops, oracles
<1> DEFINE d == dirs'[job.run]
<1>2. /\ d.metrics = Directory.metrics
      /\ d.events = Directory.events /\ d.summary = Directory.summary
      /\ d.periodic = Directory.periodic /\ d.best = Directory.best
      /\ d.last = Directory.last /\ d.evaluated = Directory.evaluated
      /\ d.foreign = Directory.foreign
  BY <1>1, SameFields
<1>3. /\ IsDirectory(Directory) /\ \A c \in Installed(Directory) : Placed(c.state)
      /\ job.config \in Configs
  BY <1>1, Typed
<1>4. IsDirectory(d)
  <2>1. d.config \in Configs \cup {NoConfig}
    BY <1>1, <1>3 DEF IsDirectory
  <2> QED BY <1>2, <1>3, <2>1 DEF IsDirectory
<1>5. Installed(d) = Installed(Directory)
  BY <1>2 DEF Installed
<1>6. NoJob.source = NoCheckpoint /\ NoJob.run = NoRun
  BY DEF NoJob, Job
<1>7. 0 \in 0 .. SkipLimit - 1
  BY BoundsAssumption
<1>8. TypeOK'
  BY <1>1, <1>4, <1>6, <1>7, UntrainedTyped DEF TypeInv, TypeOK
<1>9. ProcessTyped'
  BY <1>1, <1>6, UntrainedTyped
     DEF ProcessTyped, NoCheckpoint, Checkpoint, TrainPlaces, BeforeTracking
<1>10. \A r \in Runs : \A c \in Installed(dirs'[r]) : Placed(c.state)
  BY <1>1, <1>3, <1>5 DEF TypeInv
<1> QED BY <1>8, <1>9, <1>10 DEF TypeInv

LEMMA LegacyTyped ==
  ASSUME NEW c \in Configs
  PROVE  /\ Legacy(c) \in Checkpoints /\ ~Legacy(c).exact
         /\ Legacy(c).run = NoRun /\ Legacy(c).config = c
<1> DEFINE one   == <<1>>
           state == [step |-> 1, pos |-> 0, applied |-> one, val |-> NoValidation]
<1>1. Legacy(c) = [state |-> state, config |-> c, run |-> NoRun, exact |-> FALSE]
  BY DEF Legacy
<1>2. 0 \in Steps /\ 1 \in Steps /\ 1 \in 1 .. MaxPosition
  BY BoundsAssumption DEF Steps
<1>3. one \in Seq(1 .. MaxPosition)
  BY <1>2
<1> HIDE DEF one
<1>4. state \in States
  BY <1>2, <1>3 DEF States, NoValidation
<1> HIDE DEF state
<1> QED BY <1>1, <1>4 DEF Checkpoints

\* What a command may ask for.
LEMMA Requests ==
  ASSUME NEW r \in Runs, NEW c \in Configs, NEW request \in Jobs(r, c)
  PROVE  /\ request.run = r /\ request.config = c
         /\ request.kind \in {"dry", "fresh", "resume", "eval"}
         /\ request.kind \in {"dry", "fresh"} => request.source = NoCheckpoint
         /\ request.kind = "resume" =>
              \/ request.source = Legacy(c)
              \/ \E q \in Runs : request.source \in Installed(dirs[q])
         /\ request.kind = "eval" => request.source \in Installed(dirs[r])
<1>1. \/ \E kind \in {"dry", "fresh"} : request = Job(kind, r, c, NoCheckpoint, FALSE)
      \/ \E q \in Runs : \E s \in Installed(dirs[q]) :
           request = Job("resume", r, c, s, FALSE)
      \/ \E nonExact \in BOOLEAN : request = Job("resume", r, c, Legacy(c), nonExact)
      \/ \E s \in Installed(dirs[r]) : request = Job("eval", r, c, s, FALSE)
  BY DEF Jobs
<1> QED BY <1>1 DEF Job

LEMMA InstalledTyped ==
  ASSUME TypeInv, NEW r \in Runs, NEW c \in Installed(dirs[r])
  PROVE  c \in Checkpoints /\ Placed(c.state)
  BY DEF TypeInv, TypeOK, IsDirectory, Installed

LEMMA CommandTyped ==
  ASSUME RunInv, TypeInv, NEW r \in Runs, NEW c \in Configs, NEW request \in Jobs(r, c),
         Command(request)
  PROVE  TypeInv'
<1>1. /\ pc' = "open" /\ job' = request /\ reply' = "none" /\ commands' = commands + 1
      /\ overflow' = overflow /\ bpb' = bpb /\ dirs' = dirs /\ live' = live
      /\ skipped' = skipped /\ pc = "idle" /\ commands <= MaxCommands
  BY BoundsAssumption DEF Command, Within, oracles, TypeInv, TypeOK
<1>2. /\ request.source \in Checkpoints
      /\ request.source.exact => Placed(request.source.state)
  BY Requests, InstalledTyped, LegacyTyped, UntrainedTyped DEF NoCheckpoint, Checkpoint
<1>3. commands' \in 0 .. MaxCommands + 1
  BY <1>1, BoundsAssumption DEF TypeInv, TypeOK
<1>4. TypeOK'
  BY <1>1, <1>2, <1>3, Requests DEF TypeInv, TypeOK
<1>5. ProcessTyped'
  BY <1>1, <1>2, Requests DEF TypeInv, ProcessTyped, TrainPlaces, BeforeTracking
<1> QED BY <1>1, <1>4, <1>5 DEF TypeInv

LEMMA SnapshotTyped ==
  ASSUME NEW s \in States, job.config \in Configs, job.run \in Runs
  PROVE  Snapshot(s) \in Checkpoints /\ Snapshot(s) # NoCheckpoint
         /\ Snapshot(s) = [state |-> s, config |-> job.config, run |-> job.run, exact |-> TRUE]
  BY RunsAssumption DEF Snapshot, Checkpoint, Checkpoints, NoCheckpoint

LEMMA CandidateTyped ==
  ASSUME RunInv, TypeInv, pc \in TrainPlaces \ {"train"}
  PROVE  /\ Candidate \in [step : Steps, current : Nat, minimum : Nat]
         /\ Candidate.step = live.step /\ Candidate.step >= 1
         /\ Candidate.current = bpb[live.step] /\ bpb[live.step] \in Nat
         /\ [live EXCEPT !.val = Candidate] \in States
         /\ [live EXCEPT !.val = Candidate].val = Candidate
         /\ [live EXCEPT !.val = Candidate].step = live.step
         /\ [live EXCEPT !.val = Candidate].pos = live.pos
         /\ [live EXCEPT !.val = Candidate].applied = live.applied
<1>1. live \in States /\ live.step >= 1 /\ pc # "idle"
  BY Typed DEF TrainPlaces, BeforeTracking
<1>2. live.step \in 1 .. MaxPosition /\ live.step \in Steps
  BY <1>1, StateTyped, BoundsAssumption DEF Steps
<1>3. bpb[live.step] \in Nat
  BY <1>2, OracleAssumption DEF TypeInv, TypeOK
<1>4. live.val.minimum \in Nat
  BY <1>1, StateTyped
<1>5. Candidate \in [step : Steps, current : Nat, minimum : Nat]
  BY <1>2, <1>3, <1>4 DEF Candidate
<1>6. [live EXCEPT !.val = Candidate] \in States
  BY <1>1, <1>5 DEF States
<1>7. Candidate.step = live.step /\ Candidate.current = bpb[live.step]
  BY DEF Candidate
<1> HIDE DEF Candidate
<1>8. /\ [live EXCEPT !.val = Candidate].val = Candidate
      /\ [live EXCEPT !.val = Candidate].step = live.step
      /\ [live EXCEPT !.val = Candidate].pos = live.pos
      /\ [live EXCEPT !.val = Candidate].applied = live.applied
  BY <1>1 DEF States
<1> QED BY <1>1, <1>3, <1>5, <1>6, <1>7, <1>8

\* Where training starts: from scratch, or from an exact, unfinished checkpoint.
LEMMA StartsFrom ==
  ASSUME RunInv, TypeInv, StartTraining
  PROVE  /\ live' = job.source.state /\ job.source.exact
         /\ job.source.state.step < job.config.target
         /\ \/ job.kind = "fresh" /\ job.source = NoCheckpoint /\ NoOutputs(Directory)
            \/ job.kind # "fresh" /\ MayResume(Directory, job.source)
<1>1. pc # "idle" /\ MayTrain(Directory) /\ live' = Restored(job.source)
  BY DEF StartTraining
<1>2. /\ job.source \in Checkpoints /\ job.config.target \in Nat \ {0}
      /\ job.kind = "fresh" => job.source = NoCheckpoint
  BY <1>1, Typed DEF TypeInv, ProcessTyped
<1>3. job.source.exact /\ job.source.state.step < job.config.target
  <2>1. CASE job.kind = "fresh"
    BY <1>2, <2>1 DEF NoCheckpoint, Checkpoint, Untrained
  <2>2. CASE job.kind # "fresh"
    BY <1>1, <2>2 DEF MayTrain, MayResume, PrecisionMatches
  <2> QED BY <2>1, <2>2
<1>4. live' = job.source.state
  <2> DEFINE s == job.source.state
  <2>1. s = [step |-> s.step, pos |-> s.pos, applied |-> s.applied, val |-> s.val]
    BY <1>2, StateTyped DEF Checkpoints
  <2>2. live' = [s EXCEPT !.pos = IF job.source.exact THEN @ ELSE 0]
    BY <1>1 DEF Restored
  <2>3. live' = [s EXCEPT !.pos = s.pos]
    BY <1>3, <2>2
  <2> HIDE DEF s
  <2>4. live' = s
    BY <2>1, <2>3
  <2> QED BY <2>4 DEF s
<1> QED BY <1>1, <1>2, <1>3, <1>4 DEF MayTrain

LEMMA StartTyped == ASSUME RunInv, TypeInv, StartTraining PROVE TypeInv'
<1> DEFINE d == dirs'[job.run]
<1>1. /\ pc # "idle" /\ pc' = "train" /\ Moves(pc', {"foreign"}) /\ skipped' = skipped
      /\ d.foreign = (Directory.foreign \/ (job.kind = "resume" /\ job.source.run # job.run))
  BY StartTrainingDoes DEF Moves
<1>2. /\ job.source \in Checkpoints /\ IsDirectory(Directory)
      /\ skipped \in 0 .. SkipLimit - 1 /\ job.config.target \in Nat \ {0}
      /\ job.source.exact => Placed(job.source.state)
  BY <1>1, Typed DEF TypeInv, ProcessTyped
<1>3. Same(Directory, d, {"foreign"})
  BY <1>1 DEF Moves
<1>4. /\ live' \in States /\ Placed(live') /\ live'.step <= job.config.target
  <2>1. job.source.state \in States
    BY <1>2 DEF Checkpoints
  <2> QED BY <1>2, <2>1, StartsFrom, StateTyped
<1>5. IsDirectory(d)
  <2>1. d.foreign \in BOOLEAN
    BY <1>1, <1>2 DEF IsDirectory
  <2> QED BY <1>2, <1>3, <2>1, SameFields DEF IsDirectory
<1>6. Installed(d) = Installed(Directory)
  BY <1>3, SameFields DEF Installed
<1> QED BY <1>1, <1>2, <1>4, <1>5, <1>6, MovesTyped

LEMMA ApplyTyped == ASSUME RunInv, TypeInv, ApplyStep PROVE TypeInv'
<1> DEFINE longer == Append(live.applied, NextPosition)
<1>1. /\ pc = "train" /\ pc' \in {"log", "validate"} /\ Moves(pc', {})
      /\ dirs'[job.run] = Directory /\ skipped' = 0
      /\ live.step < job.config.target /\ live.pos < MaxPosition
      /\ live' = [live EXCEPT !.step = @ + 1, !.pos = NextPosition, !.applied = longer]
  BY AttemptDoes DEF ApplyStep, Attempting, Write
<1>2. /\ live \in States /\ Placed(live) /\ IsDirectory(Directory)
      /\ job.config.target \in Nat
  BY <1>1, Typed
<1>3. live.step \in Nat /\ live.pos \in Nat /\ live.applied \in Seq(1 .. MaxPosition)
  BY <1>2, StateTyped
<1>4. NextPosition \in 1 .. MaxPosition /\ NextPosition \in Steps
  BY <1>1, <1>3, BoundsAssumption DEF NextPosition, Steps
<1>5. longer \in Seq(1 .. MaxPosition)
  BY <1>3, <1>4, AppendProperties
<1>6. live.step + 1 \in Steps
  BY <1>1, <1>2, <1>3, BoundsAssumption DEF Placed, Steps
<1> HIDE DEF longer
<1>7. live' \in States /\ live'.step = live.step + 1 /\ live'.pos = live.pos + 1
  BY <1>1, <1>2, <1>4, <1>5, <1>6 DEF States, NextPosition
<1>8. 0 \in 0 .. SkipLimit - 1
  BY BoundsAssumption
<1> QED BY <1>1, <1>2, <1>3, <1>7, <1>8, MovesTyped DEF Placed

LEMMA SkipTyped == ASSUME RunInv, TypeInv, SkipStep PROVE TypeInv'
<1>1. /\ pc = "train" /\ pc' = "train" /\ Moves(pc', {})
      /\ dirs'[job.run] = Directory /\ skipped' = skipped + 1
      /\ live.step < job.config.target /\ live.pos < MaxPosition
      /\ live' = [live EXCEPT !.pos = NextPosition]
      /\ skipped + 1 < SkipLimit
  BY AttemptDoes DEF SkipStep, Attempting, Write
<1>2. /\ live \in States /\ Placed(live) /\ IsDirectory(Directory)
      /\ job.config.target \in Nat /\ skipped \in 0 .. SkipLimit - 1
  BY <1>1, Typed
<1>3. live.step \in Nat /\ live.pos \in Nat
  BY <1>2, StateTyped
<1>4. NextPosition \in Steps /\ NextPosition = live.pos + 1
  BY <1>1, <1>3, BoundsAssumption DEF NextPosition, Steps
<1>5. live' \in States /\ live'.step = live.step /\ live'.pos = live.pos + 1
  BY <1>1, <1>2, <1>4 DEF States
<1>6. skipped' \in 0 .. SkipLimit - 1
  BY <1>1, <1>2, BoundsAssumption
<1> QED BY <1>1, <1>2, <1>3, <1>5, <1>6, MovesTyped DEF Placed

LEMMA AppendTyped ==
  ASSUME RunInv, TypeInv, NEW at \in TrainPlaces \ {"train"}, NEW kind \in {"train", "validation"},
         NEW next \in TrainPlaces, AppendMetrics(at, kind, next)
  PROVE  TypeInv'
<1> DEFINE d == dirs'[job.run]
           line == Record(kind, live.step)
<1>1. /\ pc = at /\ Moves(next, {"metrics"}) /\ pc' = next
      /\ live' = live /\ skipped' = skipped /\ d.metrics = Append(Directory.metrics, line)
  BY AppendDoes DEF Moves
<1>2. /\ pc # "idle" /\ next # "idle"
  BY <1>1 DEF TrainPlaces, BeforeTracking
<1>3. /\ live \in States /\ Placed(live) /\ IsDirectory(Directory)
      /\ live.step <= job.config.target /\ live.step >= 1 /\ skipped \in 0 .. SkipLimit - 1
  BY <1>1, <1>2, Typed
<1>4. line \in [kind : {"train", "validation", "evaluation"}, step : Steps]
  BY <1>3, StateTyped DEF Record
<1>5. Same(Directory, d, {"metrics"})
  BY <1>1 DEF Moves
<1> HIDE DEF line
<1>6. d.metrics \in Seq([kind : {"train", "validation", "evaluation"}, step : Steps])
  BY <1>1, <1>3, <1>4, AppendProperties DEF IsDirectory
<1>7. IsDirectory(d)
  BY <1>3, <1>5, <1>6, SameFields DEF IsDirectory
<1>8. Installed(d) = Installed(Directory)
  BY <1>5, SameFields DEF Installed
<1> QED BY <1>1, <1>2, <1>3, <1>7, <1>8, MovesTyped

\* A write that leaves the model alone and installs nothing.
Quiet(changed) ==
  /\ Moves(pc', changed) /\ UNCHANGED <<live, skipped>> /\ pc' # "idle"
  /\ changed \cap {"periodic", "best", "last"} = {}
  /\ pc' \in TrainPlaces => pc \in TrainPlaces
  /\ pc' \in TrainPlaces \ {"train"} => pc \in TrainPlaces \ {"train"}

LEMMA QuietlyTyped ==
  ASSUME RunInv, TypeInv, NEW changed, Quiet(changed), IsDirectory(dirs'[job.run])
  PROVE  TypeInv'
<1>1. Same(Directory, dirs'[job.run], changed) /\ pc # "idle" /\ Moves(pc', changed)
  BY DEF Quiet, Moves
<1>2. Installed(dirs'[job.run]) = Installed(Directory)
  BY <1>1, SameFields DEF Quiet, Installed
<1> QED BY <1>1, <1>2, Typed, MovesTyped DEF Quiet

LEMMA QuietTyped ==
  ASSUME RunInv, TypeInv,
         \/ OpenTracker \/ LogStepSummary \/ TrackValidationSummary \/ PassValidation
         \/ RegisterPeriodic \/ RegisterLatest \/ PublishReport \/ LogReport
  PROVE  TypeInv'
<1> DEFINE d == dirs'[job.run]
<1>1. CASE OpenTracker
  <2>1. Quiet({"config", "status"})
    BY <1>1, OpenTrackerDoes DEF Quiet, TrainPlaces, BeforeTracking
  <2>2. Same(Directory, d, {"config", "status"}) /\ d.config = job.config
        /\ d.status = "running" /\ IsDirectory(Directory) /\ job.config \in Configs
    BY <1>1, OpenTrackerDoes, Typed DEF Moves
  <2>3. IsDirectory(d)
    BY <2>2, SameFields DEF IsDirectory
  <2> QED BY <2>1, <2>3, QuietlyTyped
<1>2. CASE LogStepSummary \/ TrackValidationSummary
  <2>1. Quiet({"summary"}) /\ d.summary = live.step
    BY <1>2, SummaryDoes DEF LogStepSummary, TrackValidationSummary, AfterValidation,
                             Quiet, TrainPlaces, BeforeTracking, Moves
  <2>2. Same(Directory, d, {"summary"}) /\ IsDirectory(Directory) /\ live.step \in Steps
    BY <2>1, Typed, StateTyped DEF Quiet, Moves
  <2>3. IsDirectory(d)
    BY <2>1, <2>2, SameFields DEF IsDirectory
  <2> QED BY <2>1, <2>3, QuietlyTyped
<1>3. CASE PassValidation
  <2>1. Quiet({}) /\ d = Directory
    BY <1>3, ValidationDoes DEF PassValidation, AfterValidation, Write, Quiet, TrainPlaces,
                                BeforeTracking
  <2>2. IsDirectory(Directory)
    BY <2>1, Typed DEF Quiet, Moves
  <2> QED BY <2>1, <2>2, QuietlyTyped
<1>4. CASE RegisterPeriodic \/ RegisterLatest
  <2>1. PICK role \in {"periodic", "latest"} :
          Quiet({"events"}) /\ d.events = Directory.events \cup {Event(role, live.step)}
    BY <1>4, RegisterDoes DEF RegisterPeriodic, RegisterLatest, Quiet, TrainPlaces,
                              BeforeTracking, Moves
  <2>2. Same(Directory, d, {"events"}) /\ IsDirectory(Directory) /\ live.step \in Steps
    BY <2>1, Typed, StateTyped DEF Quiet, Moves
  <2>3. IsDirectory(d)
    BY <2>1, <2>2, SameFields DEF IsDirectory, Event
  <2> QED BY <2>1, <2>3, QuietlyTyped
<1>5. CASE PublishReport \/ LogReport
  <2>1. /\ Quiet({"metrics", "evaluated"})
        /\ d.metrics \in {Directory.metrics,
                           Append(Directory.metrics, Record("evaluation", Stepless))}
        /\ d.evaluated \in {Directory.evaluated, job.source.state.step}
    BY <1>5, ReportDoes DEF Quiet, TrainPlaces, BeforeTracking
  <2>2. /\ Same(Directory, d, {"metrics", "evaluated"}) /\ IsDirectory(Directory)
        /\ job.source.state.step \in Steps
    BY <2>1, Typed, StateTyped DEF Quiet, Moves, Checkpoints
  <2>3. Record("evaluation", Stepless)
          \in [kind : {"train", "validation", "evaluation"}, step : Steps]
    BY BoundsAssumption DEF Record, Stepless, Steps
  <2>4. d.metrics \in Seq([kind : {"train", "validation", "evaluation"}, step : Steps])
    <3> DEFINE Lines  == [kind : {"train", "validation", "evaluation"}, step : Steps]
               record == Record("evaluation", Stepless)
    <3>1. Directory.metrics \in Seq(Lines)
      BY <2>2 DEF IsDirectory
    <3>2. record \in Lines /\ d.metrics \in {Directory.metrics, Append(Directory.metrics, record)}
      BY <2>1, <2>3
    <3> HIDE DEF Lines, record
    <3>3. Append(Directory.metrics, record) \in Seq(Lines)
      BY <3>1, <3>2, AppendProperties
    <3>4. d.metrics \in Seq(Lines)
      BY <3>1, <3>2, <3>3
    <3> QED BY <3>4 DEF Lines
  <2>5. IsDirectory(d)
    BY <2>1, <2>2, <2>4, SameFields DEF IsDirectory
  <2> QED BY <2>1, <2>5, QuietlyTyped
<1> QED BY <1>1, <1>2, <1>3, <1>4, <1>5

LEMMA AcceptTyped == ASSUME RunInv, TypeInv, AcceptValidation PROVE TypeInv'
<1>1. /\ pc = "validate" /\ pc' \in {"best", "track"} /\ Moves(pc', {})
      /\ dirs'[job.run] = Directory /\ skipped' = skipped
      /\ live' \in {live, [live EXCEPT !.val = Candidate]}
  BY ValidationDoes DEF AcceptValidation, Write
<1>2. pc # "idle" /\ pc' # "idle" /\ pc \in TrainPlaces \ {"train"}
  BY <1>1 DEF TrainPlaces, BeforeTracking
<1>3. live' \in States /\ live'.step = live.step /\ live'.pos = live.pos
  BY <1>1, <1>2, Typed, CandidateTyped
<1> QED BY <1>1, <1>2, <1>3, Typed, MovesTyped DEF Placed

LEMMA RegisterBestTyped == ASSUME RunInv, TypeInv, RegisterBest PROVE TypeInv'
<1> DEFINE d == dirs'[job.run]
<1>1. /\ pc = "bestEvent" /\ pc' = "track" /\ Moves(pc', {"events"})
      /\ d.events = Directory.events \cup {Event("best", live.step)} /\ skipped' = skipped
      /\ live' = [live EXCEPT !.val = Candidate]
  BY RegisterDoes DEF RegisterBest, TrainPlaces, BeforeTracking, Moves
<1>2. pc # "idle" /\ pc \in TrainPlaces \ {"train"}
  BY <1>1 DEF TrainPlaces, BeforeTracking
<1>3. live' \in States /\ live'.step = live.step /\ live'.pos = live.pos
  BY <1>1, <1>2, CandidateTyped
<1>4. Same(Directory, d, {"events"}) /\ IsDirectory(Directory) /\ live.step \in Steps
  BY <1>1, <1>2, Typed, StateTyped DEF Moves
<1>5. IsDirectory(d) /\ Installed(d) = Installed(Directory)
  BY <1>1, <1>4, SameFields DEF IsDirectory, Event, Installed
<1> QED BY <1>1, <1>2, <1>3, <1>5, Typed, MovesTyped DEF Placed

LEMMA SavesTyped ==
  ASSUME RunInv, TypeInv, SaveBest \/ SavePeriodic \/ SaveLatest PROVE TypeInv'
<1> DEFINE d == dirs'[job.run]
           scored == [live EXCEPT !.val = Candidate]
<1>1. /\ pc \in TrainPlaces /\ pc' \in TrainPlaces /\ pc # "idle" /\ pc' # "idle"
      /\ SaveBest => pc # "train"
      /\ UNCHANGED <<live, skipped>>
  BY SaveBestDoes, SavePeriodicDoes, SaveLatestDoes DEF TrainPlaces, BeforeTracking, Moves
<1>2. /\ live \in States /\ Placed(live) /\ IsDirectory(Directory) /\ job.config \in Configs
      /\ job.run \in Runs /\ live.step <= job.config.target
      /\ pc # "train" => live.step >= 1
  BY <1>1, Typed
<1>3. Snapshot(live) \in Checkpoints /\ Snapshot(live).state = live
  BY <1>2, SnapshotTyped
<1>4. SaveBest => Snapshot(scored) \in Checkpoints /\ Placed(Snapshot(scored).state)
  <2> HIDE DEF scored
  <2>1. SaveBest => scored \in States /\ scored.step = live.step /\ scored.pos = live.pos
    BY <1>1, CandidateTyped DEF scored
  <2> QED BY <1>2, <2>1, SnapshotTyped DEF Placed
<1>5. CASE SaveBest
  <2> HIDE DEF scored
  <2>1. /\ Moves(pc', {"best"}) /\ d.best = Snapshot(scored) /\ pc # "train"
    BY <1>1, <1>5, SaveBestDoes DEF Moves, scored
  <2>2. Same(Directory, d, {"best"})
    BY <2>1 DEF Moves
  <2>3. IsDirectory(d)
    BY <1>2, <1>4, <1>5, <2>1, <2>2, SameFields DEF IsDirectory
  <2>4. \A c \in Installed(d) : c \in Installed(Directory) \/ Placed(c.state)
    BY <1>4, <1>5, <2>1, <2>2, SameFields DEF Installed
  <2> QED BY <1>1, <1>2, <2>1, <2>3, <2>4, Typed, MovesTyped
<1>6. CASE SavePeriodic
  <2>1. /\ Moves(pc', {"periodic"}) /\ pc # "train"
        /\ d.periodic = {c \in Directory.periodic : c.state.step # live.step} \cup {Snapshot(live)}
    BY <1>1, <1>6, SavePeriodicDoes DEF Moves
  <2>2. Same(Directory, d, {"periodic"})
    BY <2>1 DEF Moves
  <2>3. IsDirectory(d)
    BY <1>2, <1>3, <2>1, <2>2, SameFields DEF IsDirectory
  <2>4. \A c \in Installed(d) : c \in Installed(Directory) \/ Placed(c.state)
    BY <1>2, <1>3, <2>1, <2>2, SameFields DEF Installed
  <2> QED BY <1>1, <1>2, <2>1, <2>3, <2>4, Typed, MovesTyped
<1>7. CASE SaveLatest
  <2>1. /\ Moves(pc', {"last"}) /\ d.last = Snapshot(live)
        /\ pc = "train" => live.step = job.config.target
    BY <1>7, SaveLatestDoes
  <2>2. Same(Directory, d, {"last"})
    BY <2>1 DEF Moves
  <2>3. IsDirectory(d)
    BY <1>2, <1>3, <2>1, <2>2, SameFields DEF IsDirectory
  <2>4. \A c \in Installed(d) : c \in Installed(Directory) \/ Placed(c.state)
    BY <1>2, <1>3, <2>1, <2>2, SameFields DEF Installed
  <2>5. live.step >= 1
    <3>1. job.config.target \in Nat \ {0}
      BY <1>1, Typed
    <3> QED BY <1>2, <2>1, <3>1
  <2> QED BY <1>1, <1>2, <2>1, <2>3, <2>4, <2>5, Typed, MovesTyped
<1> QED BY <1>5, <1>6, <1>7

LEMMA StepTyped == ASSUME RunInv, TypeInv, [Next]_vars PROVE TypeInv'
<1>1. CASE LogStep \/ TrackValidation
  BY <1>1, AppendTyped DEF LogStep, TrackValidation, TrainPlaces, BeforeTracking
<1>2. CASE Step
  BY <1>1, <1>2, StartTyped, ApplyTyped, SkipTyped, QuietTyped, AcceptTyped, RegisterBestTyped,
     SavesTyped, StopsDo, StopsTyped DEF Step
<1>3. CASE Fail \/ Kill
  BY <1>3, StopsDo, StopsTyped
<1>4. ASSUME NEW r \in Runs, NEW c \in Configs, NEW request \in Jobs(r, c), Command(request)
      PROVE  TypeInv'
  BY <1>4, CommandTyped
<1>5. CASE UNCHANGED vars
  BY <1>5 DEF vars, TypeInv, TypeOK, ProcessTyped
<1> QED BY <1>2, <1>3, <1>4, <1>5 DEF Next

LEMMA TypeInvAlways == Spec => [](RunInv /\ TypeInv)
<1>1. Init => RunInv /\ TypeInv
  BY InitOK, InitTyped
<1>2. RunInv /\ TypeInv /\ [Next]_vars => (RunInv /\ TypeInv)'
  BY StepOK, StepTyped
<1> QED BY <1>1, <1>2, PTL DEF Spec

\* Whatever is killed and resumed, every file and every state of a process has
\* its type, and steps and positions stay within the bound explored.
THEOREM TypesHold == Spec => []TypeOK
<1>1. TypeInv => TypeOK
  BY DEF TypeInv
<1> QED BY <1>1, TypeInvAlways, PTL

-----------------------------------------------------------------------------
(***************************************************************************)
(* Exact resumption.  Every model in memory or in a file is one that an    *)
(* uninterrupted run passes through, and one that may be saved now stopped *)
(* at the batch it applied last.                                           *)
(***************************************************************************)
AtBatch(s) == s.step >= 1 /\ s.applied[s.step] = s.pos

MaySave == pc \in TrainPlaces /\ (pc = "train" => live.step = job.config.target)

LineageInv ==
  /\ OnLineage(live)
  /\ MaySave => AtBatch(live)
  /\ job.source.exact => OnLineage(job.source.state)
  /\ \A r \in Runs : \A c \in Installed(dirs[r]) : OnLineage(c.state) /\ AtBatch(c.state)

LEMMA UntrainedOnLineage == OnLineage(Untrained)
<1> DEFINE none == Untrained.applied
<1>1. none = <<>> /\ Untrained.step = 0 /\ Untrained.pos = 0
  BY DEF Untrained
<1>2. DOMAIN none = {} /\ Len(none) = 0
  BY <1>1
<1> HIDE DEF none
<1>3. {none[i] : i \in DOMAIN none} = (1 .. 0) \ overflow
  BY <1>2
<1> QED BY <1>1, <1>2, <1>3 DEF OnLineage, none

\* An applied step appends the next position, which is above all before it.
LEMMA AppliedNext ==
  ASSUME NEW s \in States, OnLineage(s), s.pos + 1 \in 1 .. MaxPosition,
         s.pos + 1 \notin overflow, NEW t,
         t.step = s.step + 1, t.pos = s.pos + 1, t.applied = Append(s.applied, s.pos + 1)
  PROVE  OnLineage(t) /\ AtBatch(t)
<1> DEFINE a == s.applied
           b == Append(a, s.pos + 1)
           n == s.pos + 1
<1>1. a \in Seq(1 .. MaxPosition) /\ s.pos \in Nat /\ s.step = Len(a)
  BY StateTyped DEF OnLineage
<1>2. DOMAIN a = 1 .. Len(a) /\ Len(a) \in Nat
  BY <1>1
<1>3. /\ b \in Seq(1 .. MaxPosition) /\ Len(b) = Len(a) + 1
      /\ \A i \in 1 .. Len(a) : b[i] = a[i]
      /\ b[Len(a) + 1] = n
  BY <1>1, AppendProperties
<1>4. /\ {a[i] : i \in DOMAIN a} = (1 .. s.pos) \ overflow
      /\ \A i, j \in DOMAIN a : i < j => a[i] < a[j]
  BY DEF OnLineage
<1> HIDE DEF a, b
<1>5. DOMAIN b = 1 .. Len(a) + 1
  BY <1>2, <1>3
<1>6. \A i \in DOMAIN a : a[i] \in 1 .. s.pos
  BY <1>4
<1>7. \A i, j \in DOMAIN b : i < j => b[i] < b[j]
  <2> SUFFICES ASSUME NEW i \in DOMAIN b, NEW j \in DOMAIN b, i < j PROVE b[i] < b[j]
    OBVIOUS
  <2>1. i \in DOMAIN a /\ b[i] = a[i]
    BY <1>2, <1>3, <1>5
  <2>2. CASE j \in DOMAIN a
    BY <2>1, <2>2, <1>2, <1>3, <1>4
  <2>3. CASE j \notin DOMAIN a
    <3>1. b[j] = n
      BY <2>3, <1>2, <1>3, <1>5
    <3> QED BY <2>1, <3>1, <1>1, <1>6
  <2> QED BY <2>2, <2>3
<1>8. {b[i] : i \in DOMAIN b} = {a[i] : i \in DOMAIN a} \cup {n}
  BY <1>2, <1>3, <1>5
<1>9. (1 .. n) \ overflow = ((1 .. s.pos) \ overflow) \cup {n}
  BY <1>1
<1>10. OnLineage(t)
  BY SMTT(30), <1>1, <1>3, <1>4, <1>7, <1>8, <1>9 DEF OnLineage, b, a
<1>11. AtBatch(t)
  BY <1>1, <1>2, <1>3 DEF AtBatch, b, a
<1> QED BY <1>10, <1>11

LEMMA MovesLineage ==
  ASSUME RunInv, LineageInv, NEW changed, Moves(pc', changed), OnLineage(live'),
         \A c \in Installed(dirs'[job.run]) :
           c \in Installed(Directory) \/ (OnLineage(c.state) /\ AtBatch(c.state)),
         pc' \in TrainPlaces /\ (pc' = "train" => live'.step = job.config.target)
           => AtBatch(live')
  PROVE  LineageInv'
<1>1. /\ job' = job /\ overflow' = overflow /\ job.run \in Runs
      /\ \A r \in Runs : r # job.run => dirs'[r] = dirs[r]
  BY DEF Moves, oracles
<1>2. OnLineage(live)'
  BY <1>1 DEF OnLineage
<1>3. (MaySave => AtBatch(live))'
  BY <1>1 DEF MaySave
<1>4. (job.source.exact => OnLineage(job.source.state))'
  BY <1>1 DEF LineageInv, OnLineage
<1>5. ASSUME NEW r \in Runs, NEW c \in Installed(dirs'[r])
      PROVE  OnLineage(c.state) /\ AtBatch(c.state)
  BY <1>1, <1>5 DEF LineageInv, Directory
<1>6. (\A r \in Runs : \A c \in Installed(dirs[r]) : OnLineage(c.state) /\ AtBatch(c.state))'
  BY <1>1, <1>5 DEF OnLineage
<1> QED BY <1>2, <1>3, <1>4, <1>6 DEF LineageInv

LEMMA StopsLineage == ASSUME RunInv, LineageInv, Stops PROVE LineageInv'
<1>1. /\ job' = NoJob /\ overflow' = overflow /\ live' = Untrained /\ job.run \in Runs
      /\ \A r \in Runs : r # job.run => dirs'[r] = dirs[r]
      /\ Same(Directory, dirs'[job.run], {"config", "status", "torn"}) /\ pc' = "idle"
  BY DEF Stops, oracles
<1>2. Installed(dirs'[job.run]) = Installed(Directory)
  BY <1>1, SameFields DEF Installed
<1>3. NoJob.source.state = Untrained
  BY DEF NoJob, Job, NoCheckpoint, Checkpoint
<1>4. (OnLineage(live) /\ (job.source.exact => OnLineage(job.source.state)))'
  BY <1>1, <1>3, UntrainedOnLineage DEF OnLineage
<1>5. ~MaySave'
  BY <1>1 DEF MaySave, TrainPlaces, BeforeTracking
<1>6. ASSUME NEW r \in Runs, NEW c \in Installed(dirs'[r])
      PROVE  OnLineage(c.state) /\ AtBatch(c.state)
  BY <1>1, <1>2, <1>6 DEF LineageInv, Directory
<1>7. (\A r \in Runs : \A c \in Installed(dirs[r]) : OnLineage(c.state) /\ AtBatch(c.state))'
  BY <1>1, <1>6 DEF OnLineage
<1> QED BY <1>4, <1>5, <1>7 DEF LineageInv

LEMMA CommandLineage ==
  ASSUME RunInv, LineageInv, NEW r \in Runs, NEW c \in Configs, NEW request \in Jobs(r, c),
         Command(request)
  PROVE  LineageInv'
<1>1. /\ pc' = "open" /\ job' = request /\ dirs' = dirs /\ live' = live /\ overflow' = overflow
  BY DEF Command, oracles
<1>2. request.source.exact => OnLineage(request.source.state)
  <2>1. NoCheckpoint.state = Untrained
    BY DEF NoCheckpoint, Checkpoint
  <2> QED BY <2>1, Requests, LegacyTyped, UntrainedOnLineage DEF LineageInv
<1> QED BY <1>1, <1>2 DEF LineageInv, MaySave, OnLineage, TrainPlaces, BeforeTracking

LEMMA StartLineage == ASSUME RunInv, TypeInv, LineageInv, StartTraining PROVE LineageInv'
<1>1. /\ pc' = "train" /\ Moves(pc', {"foreign"})
  BY StartTrainingDoes DEF Moves
<1>2. Same(Directory, dirs'[job.run], {"foreign"})
  BY <1>1 DEF Moves
<1>3. Installed(dirs'[job.run]) = Installed(Directory)
  BY <1>2, SameFields DEF Installed
<1>4. /\ OnLineage(live') /\ live'.step # job.config.target
  <2>1. job.source.state.step \in Nat /\ job.config.target \in Nat
    BY <1>1, Typed, StateTyped DEF Moves, Checkpoints
  <2> QED BY <2>1, StartsFrom DEF LineageInv
<1> QED BY <1>1, <1>3, <1>4, MovesLineage

LEMMA AttemptLineage ==
  ASSUME RunInv, TypeInv, LineageInv, ApplyStep \/ SkipStep PROVE LineageInv'
<1> DEFINE longer == Append(live.applied, NextPosition)
<1>1. /\ pc = "train" /\ Moves(pc', {}) /\ dirs'[job.run] = Directory
      /\ live.step < job.config.target /\ live.pos < MaxPosition
  BY AttemptDoes DEF ApplyStep, SkipStep, Attempting
<1>2. live \in States /\ live.pos \in Nat /\ live.step \in Nat /\ OnLineage(live)
      /\ job.config.target \in Nat
  BY <1>1, Typed, StateTyped DEF LineageInv
<1>3. CASE ApplyStep
  <2>1. /\ NextPosition \notin overflow
        /\ live' = [live EXCEPT !.step = @ + 1, !.pos = NextPosition, !.applied = longer]
    BY <1>3 DEF ApplyStep
  <2> HIDE DEF longer
  <2>2. live'.step = live.step + 1 /\ live'.pos = NextPosition /\ live'.applied = longer
    BY <2>1, <1>2 DEF States
  <2>3. OnLineage(live') /\ AtBatch(live')
    <3>1. NextPosition \in 1 .. MaxPosition /\ NextPosition = live.pos + 1
      BY <1>1, <1>2, BoundsAssumption DEF NextPosition
    <3>2. longer = Append(live.applied, live.pos + 1)
      BY <3>1 DEF longer
    <3> QED BY <2>1, <2>2, <1>2, <3>1, <3>2, AppliedNext
  <2> QED BY <1>1, <2>3, MovesLineage
<1>4. CASE SkipStep
  <2>1. /\ NextPosition \in overflow /\ NextPosition = live.pos + 1 /\ pc' = "train"
        /\ live' = [live EXCEPT !.pos = NextPosition]
    BY <1>4 DEF SkipStep, NextPosition, Write
  <2>2. live'.step = live.step /\ live'.pos = live.pos + 1 /\ live'.applied = live.applied
    BY <2>1, <1>2 DEF States
  <2>3. (1 .. live.pos + 1) \ overflow = (1 .. live.pos) \ overflow
    BY <2>1, <1>2
  <2>4. OnLineage(live')
    BY <1>2, <2>2, <2>3 DEF OnLineage
  <2> QED BY <1>1, <1>2, <2>1, <2>2, <2>4, MovesLineage
<1> QED BY <1>3, <1>4

\* The validation state has no part in the lineage.
LEMMA ScoredLineage ==
  ASSUME RunInv, TypeInv, LineageInv, pc \in TrainPlaces \ {"train"},
         NEW s \in {live, [live EXCEPT !.val = Candidate]}
  PROVE  OnLineage(s) /\ AtBatch(s) /\ s.step = live.step
<1>1. OnLineage(live) /\ AtBatch(live)
  BY DEF LineageInv, MaySave
<1>2. s.step = live.step /\ s.pos = live.pos /\ s.applied = live.applied
  BY CandidateTyped
<1> QED BY <1>1, <1>2 DEF OnLineage, AtBatch

\* Writes that install nothing and at most score the model.
LEMMA QuietLineage ==
  ASSUME RunInv, TypeInv, LineageInv,
         \/ OpenTracker \/ LogStep \/ LogStepSummary \/ TrackValidation
         \/ TrackValidationSummary \/ PassValidation \/ AcceptValidation \/ RegisterBest
         \/ RegisterPeriodic \/ RegisterLatest \/ PublishReport \/ LogReport
  PROVE  LineageInv'
<1> DEFINE Calm(changed) ==
             /\ Moves(pc', changed) /\ changed \cap {"periodic", "best", "last"} = {}
             /\ live' \in {live, [live EXCEPT !.val = Candidate]}
             /\ pc' \in TrainPlaces => pc \in TrainPlaces \ {"train"}
             /\ live' # live => pc \in TrainPlaces \ {"train"}
<1>1. PICK changed : Calm(changed)
  <2>1. CASE OpenTracker
    <3>1. Calm({"config", "status"})
      BY <2>1, OpenTrackerDoes DEF TrainPlaces, BeforeTracking
    <3> QED BY <3>1
  <2>2. CASE LogStep \/ TrackValidation
    <3>1. Calm({"metrics"})
      BY <2>2, AppendDoes DEF LogStep, TrackValidation, TrainPlaces, BeforeTracking, Moves
    <3> QED BY <3>1
  <2>3. CASE LogStepSummary \/ TrackValidationSummary
    <3>1. Calm({"summary"})
      BY <2>3, SummaryDoes DEF LogStepSummary, TrackValidationSummary, TrainPlaces,
                               BeforeTracking, Moves
    <3> QED BY <3>1
  <2>4. CASE PassValidation \/ AcceptValidation
    <3>1. Calm({})
      BY <2>4, ValidationDoes DEF PassValidation, AcceptValidation, TrainPlaces,
                                  BeforeTracking
    <3> QED BY <3>1
  <2>5. CASE RegisterBest \/ RegisterPeriodic \/ RegisterLatest
    <3>1. Calm({"events"})
      BY <2>5, RegisterDoes DEF RegisterBest, RegisterPeriodic, RegisterLatest, TrainPlaces,
                                BeforeTracking, Moves
    <3> QED BY <3>1
  <2>6. CASE PublishReport \/ LogReport
    <3>1. Calm({"metrics", "evaluated"})
      BY <2>6, ReportDoes DEF TrainPlaces, BeforeTracking
    <3> QED BY <3>1
  <2> QED BY <2>1, <2>2, <2>3, <2>4, <2>5, <2>6
<1>2. Same(Directory, dirs'[job.run], changed)
  BY <1>1 DEF Moves
<1>3. Installed(dirs'[job.run]) = Installed(Directory)
  BY <1>1, <1>2, SameFields DEF Installed
<1>4. OnLineage(live')
  BY <1>1, ScoredLineage DEF LineageInv
<1>5. pc' \in TrainPlaces => AtBatch(live')
  BY <1>1, ScoredLineage
<1> QED BY <1>1, <1>3, <1>4, <1>5, MovesLineage

LEMMA SavesLineage ==
  ASSUME RunInv, TypeInv, LineageInv, SaveBest \/ SavePeriodic \/ SaveLatest
  PROVE  LineageInv'
<1> DEFINE d == dirs'[job.run]
           scored == [live EXCEPT !.val = Candidate]
<1>1. /\ pc \in TrainPlaces /\ pc' \in TrainPlaces \ {"train"} /\ pc # "idle" /\ live' = live
      /\ pc = "train" => live.step = job.config.target
      /\ SaveBest => pc # "train"
  BY SaveBestDoes, SavePeriodicDoes, SaveLatestDoes DEF TrainPlaces, BeforeTracking, Moves
<1>2. OnLineage(live) /\ AtBatch(live)
  BY <1>1 DEF LineageInv, MaySave
<1>3. Snapshot(live).state = live
  BY DEF Snapshot, Checkpoint
<1>4. SaveBest => OnLineage(Snapshot(scored).state) /\ AtBatch(Snapshot(scored).state)
  <2>1. Snapshot(scored).state = scored
    BY DEF Snapshot, Checkpoint
  <2> QED BY <1>1, <2>1, ScoredLineage
<1> HIDE DEF scored
<1>5. \E changed : /\ Moves(pc', changed)
                   /\ \A c \in Installed(d) : \/ c \in Installed(Directory)
                                              \/ c = Snapshot(live)
                                              \/ SaveBest /\ c = Snapshot(scored)
  BY SavesInstall DEF scored
<1> QED BY <1>1, <1>2, <1>3, <1>4, <1>5, MovesLineage

LEMMA InitLineage == Init => LineageInv
<1> SUFFICES ASSUME Init PROVE LineageInv
  OBVIOUS
<1>1. /\ live = Untrained /\ job.source.state = Untrained /\ pc = "idle"
      /\ \A r \in Runs : dirs[r] = NewDirectory
  BY DEF Init, NoJob, Job, NoCheckpoint, Checkpoint
<1> QED BY <1>1, UntrainedOnLineage, NewDirectoryTyped
        DEF LineageInv, MaySave, TrainPlaces, BeforeTracking

LEMMA StepLineage ==
  ASSUME RunInv, TypeInv, LineageInv, [Next]_vars PROVE LineageInv'
<1>1. CASE Step
  BY <1>1, StartLineage, AttemptLineage, QuietLineage, SavesLineage, StopsDo, StopsLineage
     DEF Step
<1>2. CASE Fail \/ Kill
  BY <1>2, StopsDo, StopsLineage
<1>3. ASSUME NEW r \in Runs, NEW c \in Configs, NEW request \in Jobs(r, c), Command(request)
      PROVE  LineageInv'
  BY <1>3, CommandLineage
<1>4. CASE UNCHANGED vars
  BY <1>4 DEF vars, LineageInv, MaySave, OnLineage
<1> QED BY <1>1, <1>2, <1>3, <1>4 DEF Next

LEMMA LineageAlways == Spec => []LineageInv
<1>1. Init => RunInv /\ TypeInv /\ LineageInv
  BY InitOK, InitTyped, InitLineage
<1>2. RunInv /\ TypeInv /\ LineageInv /\ [Next]_vars => (RunInv /\ TypeInv /\ LineageInv)'
  BY StepOK, StepTyped, StepLineage
<1> QED BY <1>1, <1>2, PTL DEF Spec

\* However often a run is killed, failed and resumed, in place or into another
\* directory, every checkpoint holds the model an uninterrupted run has at that
\* step, saved at the batch it stopped at (_restore_exact_continuation).
THEOREM ExactLineageHolds == Spec => []ExactLineage
<1>1. LineageInv => ExactLineage
  BY DEF LineageInv, ExactLineage, AtBatch
<1> QED BY <1>1, LineageAlways, PTL

-----------------------------------------------------------------------------
(***************************************************************************)
(* Refusals.                                                               *)
(***************************************************************************)
ReplyInv == pc # "idle" => reply = "none"

LEMMA ReplyOK == ReplyInv /\ [Next]_vars => ReplyInv'
<1> SUFFICES ASSUME ReplyInv, [Next]_vars PROVE ReplyInv'
  OBVIOUS
<1>1. ASSUME NEW d, NEW next, Write(d, next), pc # "idle" PROVE ReplyInv'
  BY <1>1 DEF Write, ReplyInv
<1>2. ASSUME NEW d, NEW verdict, End(d, verdict) PROVE ReplyInv'
  BY <1>2 DEF End, ReplyInv
<1>3. CASE \/ OpenTracker \/ StartTraining \/ ApplyStep \/ SkipStep
  BY <1>1, <1>3 DEF OpenTracker, StartTraining, ApplyStep, SkipStep, Attempting
<1>4. CASE \/ LogStep \/ LogStepSummary \/ TrackValidation \/ TrackValidationSummary
           \/ PassValidation \/ AcceptValidation \/ RegisterBest \/ RegisterPeriodic
           \/ RegisterLatest
  BY <1>1, <1>4 DEF LogStep, LogStepSummary, TrackValidation, TrackValidationSummary,
     AppendMetrics, UpdateSummary, PassValidation, AcceptValidation, RegisterBest,
     RegisterPeriodic, RegisterLatest, Register
<1>5. CASE SaveBest \/ SavePeriodic \/ SaveLatest
  BY <1>1, <1>5 DEF SaveBest, SavePeriodic, SaveLatest
<1>6. CASE PublishReport
  BY <1>1, <1>6 DEF PublishReport
<1>7. CASE LogReport
  BY <1>1, <1>7 DEF LogReport
<1>8. CASE \/ RefuseToOpen \/ RefuseToTrain \/ GiveUp \/ RefuseReport \/ Finish
           \/ Fail \/ Kill
  BY <1>2, <1>8 DEF RefuseToOpen, RefuseToTrain, GiveUp, RefuseReport, Finish, Fail, Kill
<1>9. ASSUME NEW r \in Runs, NEW c \in Configs, NEW request \in Jobs(r, c), Command(request)
      PROVE  ReplyInv'
  BY <1>9 DEF Command, ReplyInv
<1>10. CASE UNCHANGED vars
  BY <1>10 DEF vars, ReplyInv
<1> QED BY <1>3, <1>4, <1>5, <1>6, <1>7, <1>8, <1>9, <1>10 DEF Next, Step

\* Where nothing was trained, only the checkpoint itself can be the reason.
LEMMA ForkRefusal ==
  ASSUME RunInv, TypeInv, ReplyInv, [Next]_vars, Refused, Untouched(Directory), Unfinished
  PROVE  ~job.source.exact
<1>1. pc \in {"open", "check"} /\ pc # "idle" /\ reply = "none" /\ reply' = "refused"
  BY DEF Refused, ReplyInv
<1>2. RefuseToOpen \/ RefuseToTrain
  <2>1. ASSUME NEW d, NEW next, Write(d, next) PROVE FALSE
    BY <1>1, <2>1 DEF Write
  <2>2. ~Fail /\ ~Kill
    BY <1>1 DEF Fail, Kill, End
  <2>3. \A r \in Runs, c \in Configs : \A request \in Jobs(r, c) : ~Command(request)
    BY <1>1 DEF Command
  <2>4. ~UNCHANGED vars
    BY <1>1 DEF vars
  <2>5. ~OpenTracker /\ ~StartTraining
    BY <2>1 DEF OpenTracker, StartTraining
  <2> QED BY <1>1, <2>2, <2>3, <2>4, <2>5
          DEF Next, Step, ApplyStep, SkipStep, GiveUp, Attempting, LogStep, LogStepSummary,
              TrackValidation, TrackValidationSummary, AppendMetrics, UpdateSummary,
              PassValidation, AcceptValidation, SaveBest, RegisterBest, Register, SavePeriodic,
              RegisterPeriodic, SaveLatest, RegisterLatest, PublishReport, RefuseReport,
              LogReport, Finish
<1>3. RefuseToTrain
  BY <1>2 DEF RefuseToOpen, Untouched
<1>4. ~MayResume(Directory, job.source)
  BY <1>3 DEF RefuseToTrain, MayTrain, Unfinished
<1>5. DOMAIN Directory.metrics = {} /\ Directory.last = NoCheckpoint
  <2>1. Directory.metrics = <<>> /\ Installed(Directory) = {}
    BY DEF Untouched, NoOutputs
  <2> QED BY <2>1 DEF Installed
<1>6. job.source.state.step \in Nat
  BY <1>1, Found DEF IsSaved, IsState
<1>7. LastNotNewer(Directory, job.source.state.step)
  BY <1>5, <1>6 DEF LastNotNewer, NoCheckpoint, Checkpoint, Untrained
<1>8. MetricsNotNewer(Directory, job.source.state.step)
  BY <1>5 DEF MetricsNotNewer
<1> QED BY <1>4, <1>7, <1>8 DEF MayResume, PrecisionMatches, ContinuationAccepted, ConfigMatches,
                                Unfinished

\* Every exact, unfinished checkpoint can be continued in a new run directory
\* under its own configuration (README "New local directory").
THEOREM ForkIsNeverRefusedHolds == Spec => ForkIsNeverRefused
<1>1. Init => ReplyInv
  BY DEF Init, ReplyInv
<1>2. RunInv /\ TypeInv /\ ReplyInv /\ [Next]_vars =>
        [Refused /\ Untouched(Directory) /\ Unfinished => ~job.source.exact]_vars
  BY ForkRefusal
<1> QED BY <1>1, <1>2, ReplyOK, TypeInvAlways, PTL DEF Spec, ForkIsNeverRefused

(***************************************************************************)
(* The files.  What a run directory's files and events say of best.pt and  *)
(* last.pt is backed by the files themselves, best.pt is only replaced by  *)
(* a strictly better one, and a run that says it succeeded is complete.    *)
(* The argument: whichever checkpoint the resume check lets a process      *)
(* continue from, it knows the best score any checkpoint of the directory  *)
(* knows; so the score to beat survives every failure and resumption.      *)
(***************************************************************************)

(***************************************************************************)
(* A directory holds checkpoints of its own run and configuration only.    *)
(***************************************************************************)
Own(r, d) ==
  /\ \A c \in Installed(d) : c.run = r /\ c.config = d.config
  /\ d.config = NoConfig => Installed(d) = {} /\ d.events = {}

OwnInv ==
  /\ \A r \in Runs : Own(r, dirs[r])
  /\ pc \notin {"idle", "open"} => Directory.config = job.config
  /\ pc \in {"open", "check"} /\ job.source.run = job.run
       => job.source \in Installed(Directory)
  /\ pc \in TrainPlaces \cup {"check"} => job.kind \in Training
  /\ pc # "idle" => job.kind \in Training \cup {"dry", "eval"}

LEMMA SomeConfig == \A c \in Configs : c # NoConfig
  BY ConfigsAssumption DEF NoConfig

LEMMA MovesOwn ==
  ASSUME RunInv, TypeInv, OwnInv, NEW changed, Moves(pc', changed), pc' \notin {"idle", "open"},
         dirs'[job.run].config = job.config, Directory.config \in {job.config, NoConfig},
         \A c \in Installed(dirs'[job.run]) :
           c \in Installed(Directory) \/ (c.run = job.run /\ c.config = job.config),
         pc' = "check" => pc = "open" /\ Installed(dirs'[job.run]) = Installed(Directory),
         pc' \in TrainPlaces \cup {"check"} => job.kind \in Training
  PROVE  OwnInv'
<1>1. /\ job' = job /\ job.run \in Runs /\ pc # "idle"
      /\ \A r \in Runs : r # job.run => dirs'[r] = dirs[r]
  BY DEF Moves
<1>2. Own(job.run, Directory) /\ job.config # NoConfig
  BY <1>1, Typed, SomeConfig DEF OwnInv, Directory
<1>3. Own(job.run, dirs'[job.run])
  BY <1>2 DEF Own
<1>4. \A r \in Runs : Own(r, dirs'[r])
  BY <1>1, <1>3 DEF OwnInv
<1> QED BY <1>1, <1>4 DEF OwnInv, Directory, TrainPlaces, BeforeTracking

LEMMA StopsOwn == ASSUME RunInv, OwnInv, Stops PROVE OwnInv'
<1>1. /\ job' = NoJob /\ pc' = "idle" /\ job.run \in Runs
      /\ \A r \in Runs : r # job.run => dirs'[r] = dirs[r]
      /\ Same(Directory, dirs'[job.run], {"config", "status", "torn"})
      /\ \/ dirs'[job.run].config = Directory.config
         \/ CanOpen(Directory) /\ dirs'[job.run].config = job.config
  BY DEF Stops
<1> DEFINE d == dirs'[job.run]
<1>2. Own(job.run, d)
  <2>1. /\ Installed(d) = Installed(Directory) /\ d.events = Directory.events
        /\ \/ d.config = Directory.config
           \/ Directory.config = NoConfig
    BY <1>1, SameFields DEF Installed, CanOpen
  <2>2. Own(job.run, Directory)
    BY <1>1 DEF OwnInv, Directory
  <2> QED BY <2>1, <2>2 DEF Own
<1>3. \A r \in Runs : Own(r, dirs'[r])
  BY <1>1, <1>2 DEF OwnInv
<1> QED BY <1>1, <1>3 DEF OwnInv, TrainPlaces, BeforeTracking

LEMMA CommandOwn ==
  ASSUME RunInv, OwnInv, NEW r \in Runs, NEW c \in Configs, NEW request \in Jobs(r, c),
         Command(request)
  PROVE  OwnInv'
<1>1. pc' = "open" /\ job' = request /\ dirs' = dirs
  BY DEF Command
<1>2. request.source.run = request.run => request.source \in Installed(dirs[request.run])
  <2>1. NoCheckpoint.run = NoRun
    BY DEF NoCheckpoint, Checkpoint
  <2>2. \A q \in Runs : \A s \in Installed(dirs[q]) : s.run = q
    BY DEF OwnInv, Own
  <2> QED BY <2>1, <2>2, Requests, LegacyTyped, RunsAssumption
<1>3. request.kind \in Training \cup {"dry", "eval"}
  BY Requests DEF Training
<1> QED BY <1>1, <1>2, <1>3 DEF OwnInv, Directory, TrainPlaces, BeforeTracking

\* Every action of a process that goes on, but the saves: its directory keeps
\* its checkpoints.
LEMMA KeepsOwn ==
  ASSUME RunInv, TypeInv, OwnInv,
         \/ OpenTracker \/ StartTraining \/ ApplyStep \/ SkipStep \/ LogStep
         \/ LogStepSummary \/ PassValidation \/ AcceptValidation \/ RegisterBest
         \/ TrackValidation \/ TrackValidationSummary \/ RegisterPeriodic
         \/ RegisterLatest \/ PublishReport \/ LogReport
  PROVE  OwnInv'
<1> DEFINE d == dirs'[job.run]
           Kept(changed) ==
             /\ Moves(pc', changed)
             /\ changed \cap {"config", "periodic", "best", "last"} = {}
             /\ pc \notin {"idle", "open"}
             /\ pc' \notin {"idle", "open", "check"}
             /\ pc' \in TrainPlaces => pc \in TrainPlaces \cup {"check"}
<1>1. CASE OpenTracker
  <2>1. /\ pc = "open" /\ Moves(pc', {"config", "status"}) /\ d.config = job.config
        /\ CanOpen(Directory) /\ pc' \in {"finish", "report", "check"}
        /\ pc' = "check" => job.kind \notin {"dry", "eval"}
    BY <1>1, OpenTrackerDoes
  <2>2. Same(Directory, d, {"config", "status"})
    BY <2>1 DEF Moves
  <2>3. Installed(d) = Installed(Directory) /\ Directory.config \in {job.config, NoConfig}
    BY <2>1, <2>2, SameFields DEF Installed, CanOpen
  <2>4. pc' = "check" => job.kind \in Training
    BY <2>1 DEF OwnInv
  <2> QED BY <2>1, <2>3, <2>4, MovesOwn DEF TrainPlaces, BeforeTracking
<1>2. CASE ~OpenTracker
  <2>1. PICK changed : Kept(changed)
    <3>1. CASE StartTraining
      <4>1. Kept({"foreign"})
        BY <3>1, StartTrainingDoes DEF TrainPlaces, BeforeTracking, Moves
      <4> QED BY <4>1
    <3>2. CASE ApplyStep \/ SkipStep
      <4>1. Kept({})
        BY <3>2, AttemptDoes DEF ApplyStep, SkipStep, Attempting, Write, TrainPlaces,
                                 BeforeTracking
      <4> QED BY <4>1
    <3>3. CASE LogStep \/ TrackValidation
      <4>1. Kept({"metrics"})
        BY <3>3, AppendDoes DEF LogStep, TrackValidation, TrainPlaces, BeforeTracking, Moves
      <4> QED BY <4>1
    <3>4. CASE LogStepSummary \/ TrackValidationSummary
      <4>1. Kept({"summary"})
        BY <3>4, SummaryDoes DEF LogStepSummary, TrackValidationSummary, AfterValidation,
                                 TrainPlaces, BeforeTracking, Moves
      <4> QED BY <4>1
    <3>5. CASE PassValidation \/ AcceptValidation
      <4>1. Kept({})
        BY <3>5, ValidationDoes DEF PassValidation, AcceptValidation, AfterValidation, Write,
                                    TrainPlaces, BeforeTracking
      <4> QED BY <4>1
    <3>6. CASE RegisterBest \/ RegisterPeriodic \/ RegisterLatest
      <4>1. Kept({"events"})
        BY <3>6, RegisterDoes DEF RegisterBest, RegisterPeriodic, RegisterLatest, TrainPlaces,
                                  BeforeTracking, Moves
      <4> QED BY <4>1
    <3>7. CASE PublishReport \/ LogReport
      <4>1. Kept({"metrics", "evaluated"})
        BY <3>7, ReportDoes DEF TrainPlaces, BeforeTracking
      <4> QED BY <4>1
    <3> QED BY <1>2, <3>1, <3>2, <3>3, <3>4, <3>5, <3>6, <3>7
  <2>2. Same(Directory, d, changed)
    BY <2>1 DEF Moves
  <2>3. Installed(d) = Installed(Directory) /\ d.config = Directory.config
    BY <2>1, <2>2, SameFields DEF Installed
  <2>4. /\ Directory.config = job.config
        /\ pc' \in TrainPlaces => job.kind \in Training
    BY <2>1 DEF OwnInv
  <2> QED BY <2>1, <2>3, <2>4, MovesOwn
<1> QED BY <1>1, <1>2

LEMMA SavesOwn ==
  ASSUME RunInv, TypeInv, OwnInv, SaveBest \/ SavePeriodic \/ SaveLatest
  PROVE  OwnInv'
<1> DEFINE d == dirs'[job.run]
<1>1. /\ pc \in TrainPlaces /\ pc' \in TrainPlaces
  BY SaveBestDoes, SavePeriodicDoes, SaveLatestDoes DEF TrainPlaces, BeforeTracking, Moves
<1>2. PICK changed :
        /\ Moves(pc', changed) /\ changed \subseteq {"periodic", "best", "last"}
        /\ \A c \in Installed(d) : \/ c \in Installed(Directory)
                                   \/ \E s : c = Snapshot(s)
  BY SavesInstall
<1>3. \A s : Snapshot(s).run = job.run /\ Snapshot(s).config = job.config
  BY DEF Snapshot, Checkpoint
<1>4. Same(Directory, d, changed)
  BY <1>2 DEF Moves
<1>5. d.config = Directory.config
  BY <1>2, <1>4, SameFields
<1>6. Directory.config = job.config /\ job.kind \in Training
  BY <1>1 DEF OwnInv, TrainPlaces, BeforeTracking
<1>7. pc' \notin {"idle", "open", "check"}
  BY <1>1 DEF TrainPlaces, BeforeTracking
<1> QED BY <1>2, <1>3, <1>5, <1>6, <1>7, MovesOwn

LEMMA InitOwn == Init => OwnInv
<1> SUFFICES ASSUME Init PROVE OwnInv
  OBVIOUS
<1>1. \A r \in Runs : Own(r, dirs[r])
  <2>1. NewDirectory.events = {}
    BY DEF NewDirectory
  <2> QED BY <2>1, NewDirectoryTyped DEF Init, Own
<1> QED BY <1>1 DEF Init, OwnInv, TrainPlaces, BeforeTracking

LEMMA StepOwn == ASSUME RunInv, TypeInv, OwnInv, [Next]_vars PROVE OwnInv'
<1>1. CASE Step
  BY <1>1, KeepsOwn, SavesOwn, StopsDo, StopsOwn DEF Step
<1>2. CASE Fail \/ Kill
  BY <1>2, StopsDo, StopsOwn
<1>3. ASSUME NEW r \in Runs, NEW c \in Configs, NEW request \in Jobs(r, c), Command(request)
      PROVE  OwnInv'
  BY <1>3, CommandOwn
<1>4. CASE UNCHANGED vars
  BY <1>4 DEF vars, OwnInv, Directory
<1> QED BY <1>1, <1>2, <1>3, <1>4 DEF Next

-----------------------------------------------------------------------------
(***************************************************************************)
(* A file is installed before it is registered, and best.pt only when the  *)
(* validated step improves.                                                *)
(***************************************************************************)
EventsBacked(d) ==
  \A e \in d.events :
    /\ e.role = "periodic" => \E c \in d.periodic : c.state.step = e.step
    /\ e.role = "latest" => d.last.state.step >= e.step

Registering ==
  /\ pc = "periodicEvent" => \E c \in Directory.periodic : c.state.step = live.step
  /\ pc \in {"latestEvent", "finalEvent"} => Directory.last.state.step = live.step
  /\ pc \in {"best", "bestEvent"} => Improved /\ live.step % job.config.eval = 0
  /\ pc = "bestEvent" => Directory.best.state = [live EXCEPT !.val = Candidate]

EventsInv == (\A r \in Runs : EventsBacked(dirs[r])) /\ Registering

SavePlaces == {"periodicEvent", "latestEvent", "finalEvent", "best", "bestEvent"}

\* At any other place it is enough to look at the directory.
LEMMA MovesEvents ==
  ASSUME RunInv, TypeInv, EventsInv, NEW changed, Moves(pc', changed), pc' \notin SavePlaces,
         EventsBacked(dirs'[job.run])
  PROVE  EventsInv'
<1>1. /\ job' = job /\ job.run \in Runs
      /\ \A r \in Runs : r # job.run => dirs'[r] = dirs[r]
  BY DEF Moves
<1>2. \A r \in Runs : EventsBacked(dirs'[r])
  BY <1>1 DEF EventsInv
<1>3. Registering'
  BY DEF Registering, SavePlaces
<1> QED BY <1>2, <1>3 DEF EventsInv

\* The actions that neither register nor install anything.
LEMMA QuietEvents ==
  ASSUME RunInv, TypeInv, EventsInv,
         \/ OpenTracker \/ StartTraining \/ ApplyStep \/ SkipStep \/ LogStep
         \/ LogStepSummary \/ PassValidation \/ AcceptValidation
         \/ TrackValidation \/ TrackValidationSummary \/ PublishReport \/ LogReport
  PROVE  EventsInv'
<1> DEFINE d == dirs'[job.run]
           Kept(changed) ==
             /\ Moves(pc', changed)
             /\ changed \cap {"events", "periodic", "last", "best"} = {}
             /\ pc' \in SavePlaces => AcceptValidation /\ pc' = "best"
<1>1. PICK changed : Kept(changed)
  <2>1. CASE OpenTracker
    <3>1. Kept({"config", "status"})
      BY <2>1, OpenTrackerDoes DEF SavePlaces
    <3> QED BY <3>1
  <2>2. CASE StartTraining
    <3>1. Kept({"foreign"})
      BY <2>2, StartTrainingDoes DEF SavePlaces, Moves
    <3> QED BY <3>1
  <2>3. CASE ApplyStep \/ SkipStep
    <3>1. Kept({})
      BY <2>3, AttemptDoes DEF ApplyStep, SkipStep, Write, SavePlaces
    <3> QED BY <3>1
  <2>4. CASE LogStep \/ TrackValidation
    <3>1. Kept({"metrics"})
      BY <2>4, AppendDoes DEF LogStep, TrackValidation, TrainPlaces, BeforeTracking, Moves,
                              SavePlaces
    <3> QED BY <3>1
  <2>5. CASE LogStepSummary \/ TrackValidationSummary
    <3>1. Kept({"summary"})
      BY <2>5, SummaryDoes DEF LogStepSummary, TrackValidationSummary, AfterValidation,
                               TrainPlaces, BeforeTracking, Moves, SavePlaces
    <3> QED BY <3>1
  <2>6. CASE PassValidation \/ AcceptValidation
    <3>1. Kept({})
      BY <2>6, ValidationDoes DEF PassValidation, AcceptValidation, AfterValidation, Write,
                                  SavePlaces
    <3> QED BY <3>1
  <2>7. CASE PublishReport \/ LogReport
    <3>1. Kept({"metrics", "evaluated"})
      BY <2>7, ReportDoes DEF SavePlaces
    <3> QED BY <3>1
  <2> QED BY <2>1, <2>2, <2>3, <2>4, <2>5, <2>6, <2>7
<1>2. Same(Directory, d, changed) /\ job' = job /\ bpb' = bpb /\ job.run \in Runs
  BY <1>1 DEF Moves, oracles
<1>3. EventsBacked(d)
  <2>1. EventsBacked(Directory)
    BY <1>2 DEF EventsInv, Directory
  <2>2. d.events = Directory.events /\ d.periodic = Directory.periodic /\ d.last = Directory.last
    BY <1>1, <1>2, SameFields
  <2> QED BY <2>1, <2>2 DEF EventsBacked
<1>4. CASE pc' \notin SavePlaces
  BY <1>1, <1>3, <1>4, MovesEvents
<1>5. CASE pc' \in SavePlaces
  <2>1. /\ pc' = "best" /\ live' = live /\ Improved /\ live.step % job.config.eval = 0
    BY <1>1, <1>5 DEF AcceptValidation, Write, AtEvery
  <2>2. Registering'
    BY <1>2, <2>1 DEF Registering, Improved
  <2>3. \A r \in Runs : EventsBacked(dirs'[r])
    BY <1>1, <1>3 DEF EventsInv, Moves
  <2> QED BY <2>2, <2>3 DEF EventsInv
<1> QED BY <1>4, <1>5

LEMMA RegistersEvents ==
  ASSUME RunInv, TypeInv, EventsInv, RegisterBest \/ RegisterPeriodic \/ RegisterLatest
  PROVE  EventsInv'
<1> DEFINE d == dirs'[job.run]
<1>1. PICK role :
        /\ Moves(pc', {"events"}) /\ pc' \notin SavePlaces
        /\ d.events = Directory.events \cup {Event(role, live.step)}
        /\ \/ role = "best" /\ pc = "bestEvent"
           \/ role = "periodic" /\ pc = "periodicEvent"
           \/ role = "latest" /\ pc \in {"latestEvent", "finalEvent"}
  BY RegisterDoes DEF RegisterBest, RegisterPeriodic, RegisterLatest, TrainPlaces,
                      BeforeTracking, Moves, SavePlaces
<1>2. Same(Directory, d, {"events"}) /\ job.run \in Runs /\ pc # "idle"
  BY <1>1 DEF Moves
<1>3. EventsBacked(Directory)
  BY <1>2 DEF EventsInv, Directory
<1>4. d.periodic = Directory.periodic /\ d.last = Directory.last
  BY <1>2, SameFields
<1>5. live.step \in Nat
  BY <1>2, Found
<1>6. Event(role, live.step).role = role /\ Event(role, live.step).step = live.step
  BY DEF Event
<1>7. EventsBacked(d)
  BY <1>1, <1>3, <1>4, <1>5, <1>6 DEF EventsBacked, EventsInv, Registering
<1> QED BY <1>1, <1>7, MovesEvents

LEMMA SavesEvents ==
  ASSUME RunInv, TypeInv, EventsInv, SaveBest \/ SavePeriodic \/ SaveLatest
  PROVE  EventsInv'
<1> DEFINE d == dirs'[job.run]
           scored == [live EXCEPT !.val = Candidate]
<1>1. \A s : Snapshot(s).state = s
  BY DEF Snapshot, Checkpoint
<1>2. PICK changed : Moves(pc', changed)
  BY SavesInstall
<1>3. /\ job' = job /\ bpb' = bpb /\ live' = live /\ job.run \in Runs /\ pc # "idle"
      /\ \A r \in Runs : r # job.run => dirs'[r] = dirs[r]
  BY <1>2 DEF SaveBest, SavePeriodic, SaveLatest, Moves, oracles
<1>4. EventsBacked(Directory) /\ DirOK(Directory) /\ live.step \in Nat
  BY <1>3, Found DEF EventsInv, Directory
<1>5. CASE SaveBest
  <2> HIDE DEF scored
  <2>1. /\ pc = "best" /\ pc' = "bestEvent" /\ d.best = Snapshot(scored)
        /\ Same(Directory, d, {"best"})
    BY <1>5, SaveBestDoes DEF Moves, scored
  <2>2. /\ d.events = Directory.events /\ d.periodic = Directory.periodic
        /\ d.last = Directory.last
    BY <2>1, SameFields
  <2>3. EventsBacked(d)
    BY <1>4, <2>2 DEF EventsBacked
  <2>4. Improved /\ live.step % job.config.eval = 0
    BY <2>1 DEF EventsInv, Registering
  <2>5. Improved' /\ [live EXCEPT !.val = Candidate]' = scored
    BY <1>3, <2>4 DEF Improved, Candidate, scored
  <2>6. Registering'
    BY <1>1, <1>3, <2>1, <2>4, <2>5 DEF Registering, Directory
  <2> QED BY <1>3, <2>3, <2>6 DEF EventsInv
<1>6. CASE SavePeriodic
  <2> DEFINE kept == {c \in Directory.periodic : c.state.step # live.step}
  <2>1. /\ pc' = "periodicEvent" /\ d.periodic = kept \cup {Snapshot(live)}
        /\ Same(Directory, d, {"periodic"})
    BY <1>6, SavePeriodicDoes DEF Moves
  <2>2. d.events = Directory.events /\ d.last = Directory.last
    BY <2>1, SameFields
  <2>3. \E c \in d.periodic : c.state.step = live.step
    BY <1>1, <2>1
  <2>4. EventsBacked(d)
    BY <1>4, <2>1, <2>2, <2>3 DEF EventsBacked
  <2>5. Registering'
    BY <1>3, <2>1, <2>3 DEF Registering, Directory
  <2> QED BY <1>3, <2>4, <2>5 DEF EventsInv
<1>7. CASE SaveLatest
  <2>1. /\ pc' \in {"latestEvent", "finalEvent"} /\ pc \in TrainPlaces
        /\ d.last = Snapshot(live) /\ Same(Directory, d, {"last"})
    BY <1>7, SaveLatestDoes DEF Moves, TrainPlaces, BeforeTracking
  <2>2. d.events = Directory.events /\ d.periodic = Directory.periodic
    BY <2>1, SameFields
  <2>3. Directory.last.state.step <= live.step /\ Directory.last.state.step \in Nat
    BY <1>3, <1>4, <2>1, Found DEF NotNewer, DirOK, IsSaved, IsState
  <2>4. \A e \in Directory.events : e.step \in Nat
    BY <1>3, Typed, BoundsAssumption DEF IsDirectory, Steps
  <2>5. EventsBacked(d)
    BY <1>1, <1>4, <2>1, <2>2, <2>3, <2>4 DEF EventsBacked
  <2>6. Registering'
    BY <1>1, <1>3, <2>1 DEF Registering, Directory
  <2> QED BY <1>3, <2>5, <2>6 DEF EventsInv
<1> QED BY <1>5, <1>6, <1>7

LEMMA StopsEvents == ASSUME RunInv, EventsInv, Stops PROVE EventsInv'
<1> DEFINE d == dirs'[job.run]
<1>1. /\ pc' = "idle" /\ job.run \in Runs /\ Same(Directory, d, {"config", "status", "torn"})
      /\ \A r \in Runs : r # job.run => dirs'[r] = dirs[r]
  BY DEF Stops
<1>2. EventsBacked(Directory)
  BY <1>1 DEF EventsInv, Directory
<1>3. d.events = Directory.events /\ d.periodic = Directory.periodic /\ d.last = Directory.last
  BY <1>1, SameFields
<1>4. EventsBacked(d)
  BY <1>2, <1>3 DEF EventsBacked
<1>5. \A r \in Runs : EventsBacked(dirs'[r])
  BY <1>1, <1>4 DEF EventsInv
<1> QED BY <1>1, <1>5 DEF EventsInv, Registering

LEMMA StepEvents == ASSUME RunInv, TypeInv, EventsInv, [Next]_vars PROVE EventsInv'
<1>1. CASE Step
  BY <1>1, QuietEvents, RegistersEvents, SavesEvents, StopsDo, StopsEvents DEF Step
<1>2. CASE Fail \/ Kill
  BY <1>2, StopsDo, StopsEvents
<1>3. ASSUME NEW r \in Runs, NEW c \in Configs, NEW request \in Jobs(r, c), Command(request)
      PROVE  EventsInv'
  BY <1>3 DEF Command, EventsInv, Registering
<1>4. CASE UNCHANGED vars
  BY <1>4 DEF vars, EventsInv, Registering, Directory, Improved, Candidate
<1> QED BY <1>1, <1>2, <1>3, <1>4 DEF Next

LEMMA InitEvents == Init => EventsInv
<1> SUFFICES ASSUME Init PROVE EventsInv
  OBVIOUS
<1>1. NewDirectory.events = {}
  BY DEF NewDirectory
<1> QED BY <1>1 DEF Init, EventsInv, EventsBacked, Registering

-----------------------------------------------------------------------------
(***************************************************************************)
(* What the checkpoints of a self-contained directory know of each other.  *)
(* A checkpoint can be resumed only if no logged step is newer; as every   *)
(* step that is due is logged before it is validated, whatever can be      *)
(* resumed knows the best score that was ever accepted here.               *)
(***************************************************************************)
Scored(val) == val # NoValidation
Knows(v, w) == Scored(w) => Scored(v) /\ v.minimum <= w.minimum

Resumable(d, c) == \A i \in DOMAIN d.metrics : d.metrics[i].step <= c.state.step
LoggedUpTo(d, step) ==
  \A s \in 1 .. step : s % d.config.log = 0 => \E i \in DOMAIN d.metrics : d.metrics[i].step >= s

Backed(d, val) ==
  Scored(val) => d.best # NoCheckpoint /\ d.best.state.val.minimum <= val.minimum

Logged(d)     == \A c \in Installed(d) : LoggedUpTo(d, c.state.step)
ScoresBacked(d) == \A c \in Installed(d) : Backed(d, c.state.val)
BestScored(d) ==
  d.best # NoCheckpoint =>
    Scored(d.best.state.val) /\ bpb[d.best.state.step] = d.best.state.val.minimum
ResumableKnow(d) ==
  \A c, e \in Installed(d) : Resumable(d, c) => Knows(c.state.val, e.state.val)
BestRegistered(d) ==
  \A e \in d.events : e.role = "best" => d.best # NoCheckpoint /\ d.best.state.step >= e.step

DirBacked(d) ==
  Logged(d) /\ ScoresBacked(d) /\ BestScored(d) /\ ResumableKnow(d) /\ BestRegistered(d)

\* The validation state that will be saved next: at "bestEvent" it is on disk
\* already, and in memory after the registration.
Known(d, place, state) == IF place = "bestEvent" THEN d.best.state.val ELSE state.val
JustLogged == {"logSummary", "validate", "best"}

LiveBacked(d, place, state) ==
  /\ LoggedUpTo(d, IF place = "log" THEN state.step - 1 ELSE state.step)
  /\ Backed(d, state.val)
  /\ place \in JustLogged /\ state.step % d.config.log = 0
       => \A c \in Installed(d) : c.state.step < state.step
  /\ \A c \in Installed(d) :
       /\ Knows(Known(d, place, state), c.state.val)
       /\ Resumable(d, c) => Knows(c.state.val, Known(d, place, state))

FilesInv ==
  /\ \A r \in Runs : SelfContained(dirs[r]) => DirBacked(dirs[r])
  /\ pc \in TrainPlaces /\ SelfContained(Directory) => LiveBacked(Directory, pc, live)

AllInv == RunInv /\ TypeInv /\ OwnInv /\ EventsInv /\ FilesInv

\* Every multiple of a validation interval is one of a logging interval that
\* divides it.
LEMMA DividesTransitively ==
  ASSUME NEW a \in Nat, NEW b \in Nat \ {0}, NEW c \in Nat \ {0}, a % b = 0, b % c = 0
  PROVE  a % c = 0
<1> DEFINE p == a \div b
           q == b \div c
<1>1. p \in Int /\ q \in Int /\ a = b * p /\ b = c * q
  OBVIOUS
<1> HIDE DEF p, q
<1>2. a = (c * q) * p
  BY <1>1
<1>3. (c * q) * p = c * (q * p)
  BY <1>1
<1>4. ASSUME NEW k \in Int PROVE (c * k) % c = 0
  OBVIOUS
<1>5. q * p \in Int
  BY <1>1
<1> QED BY <1>2, <1>3, <1>4, <1>5

\* What is typed of the checkpoints and the lines of a typed directory.
LEMMA DirectoryTyped ==
  ASSUME NEW d, IsDirectory(d)
  PROVE  /\ \A c \in Installed(d) : c \in Checkpoints /\ c.state \in States
         /\ \A c \in Installed(d) : c.state.step \in Nat /\ c.state.val.minimum \in Nat
         /\ \A i \in DOMAIN d.metrics : d.metrics[i].step \in Nat
         /\ \A e \in d.events : e.step \in Nat
         /\ d.best.state \in States /\ d.best.state.step \in Nat
         /\ d.best.state.val.minimum \in Nat
         /\ d.best # NoCheckpoint => d.best \in Installed(d)
<1>1. \A c \in Checkpoints : /\ c.state \in States /\ c.state.step \in Nat
                             /\ c.state.val.minimum \in Nat
  BY StateTyped DEF Checkpoints
<1>2. \A c \in Installed(d) \cup {d.best} : c \in Checkpoints
  BY DEF IsDirectory, Installed
<1>3. \A i \in DOMAIN d.metrics : d.metrics[i].step \in Nat
  <2> DEFINE Lines == [kind : {"train", "validation", "evaluation"}, step : Steps]
  <2>1. d.metrics \in Seq(Lines)
    BY DEF IsDirectory
  <2>2. \A l \in Lines : l.step \in Nat
    BY BoundsAssumption DEF Steps
  <2> HIDE DEF Lines
  <2> QED BY <2>1, <2>2, ElementOfSeq
<1>4. \A e \in d.events : e.step \in Nat
  BY BoundsAssumption DEF IsDirectory, Steps
<1> QED BY <1>1, <1>2, <1>3, <1>4 DEF Installed

\* A directory that only gained lines: what its checkpoints knew they know.
Grown(d, e) ==
  /\ e.config = d.config /\ e.best = d.best /\ Installed(e) = Installed(d)
  /\ \A i \in DOMAIN d.metrics : \E j \in DOMAIN e.metrics : e.metrics[j] = d.metrics[i]
  /\ \A ev \in e.events : ev \in d.events \/
       (ev.role = "best" => d.best # NoCheckpoint /\ d.best.state.step >= ev.step)

LEMMA GrownBacked ==
  ASSUME NEW d, NEW e, Grown(d, e), DirBacked(d)
  PROVE  DirBacked(e)
<1>1. \A c : Resumable(e, c) => Resumable(d, c)
  BY DEF Grown, Resumable
<1>2. \A n : LoggedUpTo(d, n) => LoggedUpTo(e, n)
  BY DEF Grown, LoggedUpTo
<1>3. \A v : Backed(d, v) => Backed(e, v)
  BY DEF Grown, Backed
<1>4. Logged(e) /\ ScoresBacked(e)
  BY <1>2, <1>3 DEF DirBacked, Logged, ScoresBacked, Grown
<1>5. BestScored(e)
  BY DEF DirBacked, BestScored, Grown
<1>6. ResumableKnow(e)
  BY <1>1 DEF DirBacked, ResumableKnow, Grown
<1>7. BestRegistered(e)
  BY DEF DirBacked, BestRegistered, Grown
<1> QED BY <1>4, <1>5, <1>6, <1>7 DEF DirBacked

\* As long as neither the model nor its scores change, so does what the live
\* state knows.
LEMMA GrownLive ==
  ASSUME NEW d, NEW e, Grown(d, e), NEW place, NEW next, NEW s, LiveBacked(d, place, s),
         place \notin {"log", "bestEvent"}, next \notin {"log", "bestEvent"},
         next \in JustLogged => place \in JustLogged
  PROVE  LiveBacked(e, next, s)
<1>1. \A c : Resumable(e, c) => Resumable(d, c)
  BY DEF Grown, Resumable
<1>2. \A n : LoggedUpTo(d, n) => LoggedUpTo(e, n)
  BY DEF Grown, LoggedUpTo
<1>3. Backed(d, s.val) => Backed(e, s.val)
  BY DEF Grown, Backed
<1>4. Known(d, place, s) = s.val /\ Known(e, next, s) = s.val
  BY DEF Known
<1>5. LoggedUpTo(e, s.step) /\ Backed(e, s.val)
  BY <1>2, <1>3 DEF LiveBacked
<1>6. next \in JustLogged /\ s.step % e.config.log = 0
        => \A c \in Installed(e) : c.state.step < s.step
  BY DEF LiveBacked, Grown
<1>7. \A c \in Installed(e) : /\ Knows(s.val, c.state.val)
                              /\ Resumable(e, c) => Knows(c.state.val, s.val)
  BY <1>1, <1>4 DEF LiveBacked, Grown
<1> QED BY <1>4, <1>5, <1>6, <1>7 DEF LiveBacked

\* What holds of the one directory that was written holds of all.
LEMMA MovesFiles ==
  ASSUME AllInv, NEW changed, Moves(pc', changed),
         SelfContained(dirs'[job.run]) => DirBacked(dirs'[job.run]),
         pc' \in TrainPlaces /\ SelfContained(dirs'[job.run])
           => LiveBacked(dirs'[job.run], pc', live')
  PROVE  FilesInv'
<1>1. /\ job' = job /\ bpb' = bpb /\ job.run \in Runs
      /\ \A r \in Runs : r # job.run => dirs'[r] = dirs[r]
  BY DEF Moves, oracles
<1>2. \A r \in Runs : SelfContained(dirs'[r]) => DirBacked(dirs'[r])
  BY <1>1 DEF AllInv, FilesInv
<1>3. (\A r \in Runs : SelfContained(dirs[r]) => DirBacked(dirs[r]))'
  BY <1>1, <1>2 DEF DirBacked, BestScored
<1> QED BY <1>1, <1>3 DEF FilesInv, Directory

\* What a running process finds.
LEMMA Here ==
  ASSUME AllInv, pc # "idle"
  PROVE  /\ IsDirectory(Directory) /\ DirOK(Directory) /\ job.run \in Runs
         /\ Own(job.run, Directory)
         /\ live \in States /\ live.step \in Nat /\ live.val.minimum \in Nat
         /\ job.config.log \in Nat \ {0} /\ job.config.eval \in Nat \ {0}
         /\ SelfContained(Directory) => DirBacked(Directory)
         /\ pc \in TrainPlaces /\ SelfContained(Directory) => LiveBacked(Directory, pc, live)
         /\ pc \notin {"idle", "open"} => Directory.config = job.config
<1>1. /\ IsDirectory(Directory) /\ live \in States /\ job.run \in Runs
      /\ job.config.log \in Nat \ {0} /\ job.config.eval \in Nat \ {0}
  BY Typed DEF AllInv
<1>2. DirOK(Directory)
  BY Found DEF AllInv
<1>3. SelfContained(Directory) => DirBacked(Directory)
  BY <1>1 DEF AllInv, FilesInv, Directory
<1>4. Own(job.run, Directory)
  BY <1>1 DEF AllInv, OwnInv, Directory
<1>5. /\ pc \in TrainPlaces /\ SelfContained(Directory) => LiveBacked(Directory, pc, live)
      /\ pc \notin {"idle", "open"} => Directory.config = job.config
  BY DEF AllInv, FilesInv, OwnInv
<1> QED BY <1>1, <1>2, <1>3, <1>4, <1>5, StateTyped

LEMMA OpenFiles == ASSUME AllInv, OpenTracker PROVE FilesInv'
<1> DEFINE d == dirs'[job.run]
<1>1. /\ pc = "open" /\ pc' \notin TrainPlaces /\ Moves(pc', {"config", "status"})
      /\ d.config = job.config /\ CanOpen(Directory)
  BY OpenTrackerDoes DEF AllInv, TrainPlaces, BeforeTracking
<1>2. /\ Own(job.run, Directory) /\ Same(Directory, d, {"config", "status"})
      /\ SelfContained(Directory) => DirBacked(Directory)
  BY <1>1, Here DEF Moves
<1>3. /\ d.metrics = Directory.metrics /\ d.events = Directory.events
      /\ d.foreign = Directory.foreign /\ d.best = Directory.best
      /\ Installed(d) = Installed(Directory)
  BY <1>2, SameFields DEF Installed
<1>4. ASSUME SelfContained(d) PROVE DirBacked(d)
  <2>1. CASE Directory.config = NoConfig
    <3>1. Installed(d) = {} /\ d.events = {}
      BY <1>2, <1>3, <2>1 DEF Own
    <3>2. d.best = NoCheckpoint
      BY <3>1 DEF Installed
    <3> QED BY <3>1, <3>2 DEF DirBacked, Logged, ScoresBacked, BestScored, ResumableKnow,
                              BestRegistered
  <2>2. CASE Directory.config = job.config
    <3>1. SelfContained(Directory) /\ Grown(Directory, d)
      BY <1>1, <1>3, <1>4, <2>2 DEF SelfContained, Grown
    <3> QED BY <1>2, <3>1, GrownBacked
  <2> QED BY <1>1, <2>1, <2>2 DEF CanOpen
<1> QED BY <1>1, <1>4, MovesFiles

\* Resumed in place, a process knows what its checkpoint knows; nothing newer
\* than the checkpoint is logged.
LEMMA StartFiles == ASSUME AllInv, StartTraining PROVE FilesInv'
<1> DEFINE d == dirs'[job.run]
<1>1. /\ pc = "check" /\ pc' = "train" /\ Moves(pc', {"foreign"})
      /\ d.foreign = (Directory.foreign \/ (job.kind = "resume" /\ job.source.run # job.run))
  BY StartTrainingDoes DEF AllInv, Moves
<1>2. Same(Directory, d, {"foreign"}) /\ pc # "idle"
  BY <1>1 DEF Moves
<1>3. /\ d.metrics = Directory.metrics /\ d.events = Directory.events
      /\ d.config = Directory.config /\ d.best = Directory.best
      /\ Installed(d) = Installed(Directory)
  BY <1>2, SameFields DEF Installed
<1>4. /\ live' = job.source.state
      /\ \/ job.kind = "fresh" /\ job.source = NoCheckpoint /\ NoOutputs(Directory)
         \/ job.kind # "fresh" /\ MayResume(Directory, job.source)
  BY StartsFrom DEF AllInv
<1>5. job.kind \in Training /\ (job.source.run = job.run => job.source \in Installed(Directory))
  BY <1>1 DEF AllInv, OwnInv
<1>6. ASSUME SelfContained(d) PROVE DirBacked(d) /\ LiveBacked(d, "train", live')
  <2>1. SelfContained(Directory) /\ Grown(Directory, d) /\ DirBacked(Directory)
    BY <1>1, <1>2, <1>3, <1>6, Here DEF SelfContained, Grown
  <2>2. DirBacked(d)
    BY <2>1, GrownBacked
  <2>3. Known(d, "train", live') = live'.val
    BY DEF Known
  <2>4. CASE job.kind = "fresh"
    <3>1. live'.step = 0 /\ ~Scored(live'.val) /\ Installed(d) = {}
      BY <1>3, <1>4, <2>4 DEF NoCheckpoint, Checkpoint, Untrained, Scored, NoOutputs
    <3>2. LoggedUpTo(d, live'.step)
      BY <3>1 DEF LoggedUpTo
    <3> QED BY <2>2, <2>3, <3>1, <3>2 DEF LiveBacked, Backed, JustLogged
  <2>5. CASE job.kind # "fresh"
    <3> DEFINE c == job.source
    <3>1. c \in Installed(d) /\ live' = c.state
      BY <1>1, <1>3, <1>4, <1>5, <1>6, <2>5 DEF SelfContained, Training
    <3>2. Resumable(d, c)
      <4>1. \A i \in DOMAIN d.metrics : d.metrics[i].step \in 1 .. c.state.step
        BY <1>3, <1>4, <2>5 DEF MayResume, MetricsNotNewer
      <4> QED BY <4>1 DEF Resumable
    <3>3. LoggedUpTo(d, live'.step) /\ Backed(d, live'.val)
      BY <2>2, <3>1 DEF DirBacked, Logged, ScoresBacked
    <3>4. \A e \in Installed(d) :
            /\ Knows(live'.val, e.state.val)
            /\ Resumable(d, e) => Knows(e.state.val, live'.val)
      BY <2>2, <3>1, <3>2 DEF DirBacked, ResumableKnow
    <3> QED BY <2>2, <2>3, <3>3, <3>4 DEF LiveBacked, JustLogged
  <2> QED BY <2>4, <2>5
<1> QED BY <1>1, <1>6, MovesFiles

\* A step is not yet logged, and it may be due.
LEMMA AttemptFiles == ASSUME AllInv, ApplyStep \/ SkipStep PROVE FilesInv'
<1> DEFINE d == dirs'[job.run]
           n == live.step
<1>1. /\ pc = "train" /\ Moves(pc', {}) /\ d = Directory /\ pc # "idle"
      /\ pc' \in {"train", "log", "validate"}
      /\ live' \in {[live EXCEPT !.step = n + 1, !.pos = NextPosition,
                                 !.applied = Append(live.applied, NextPosition)],
                    [live EXCEPT !.pos = NextPosition]}
      /\ pc' = "train" => live' = [live EXCEPT !.pos = NextPosition]
      /\ pc' \in {"log", "validate"} =>
           /\ live' = [live EXCEPT !.step = n + 1, !.pos = NextPosition,
                                   !.applied = Append(live.applied, NextPosition)]
           /\ pc' = IF live'.step % job.config.log = 0 THEN "log" ELSE "validate"
  BY AttemptDoes DEF AllInv, ApplyStep, SkipStep, Attempting, Write
<1>2. live \in States /\ n \in Nat /\ Directory.config = job.config
      /\ job.config.log \in Nat \ {0}
  BY <1>1, Here
<1>3. /\ live'.val = live.val
      /\ pc' = "train" => live'.step = n
      /\ pc' # "train" => live'.step = n + 1
  BY <1>1, <1>2 DEF States
<1>4. ASSUME SelfContained(d) PROVE LiveBacked(d, pc', live')
  <2>1. LiveBacked(d, "train", live)
    BY <1>1, <1>4, Here DEF TrainPlaces
  <2>2. Known(d, pc', live') = live.val /\ Known(d, "train", live) = live.val
    BY <1>1, <1>3 DEF Known
  <2>3. LoggedUpTo(d, n)
    BY <2>1 DEF LiveBacked
  <2>4. LoggedUpTo(d, IF pc' = "log" THEN live'.step - 1 ELSE live'.step)
    <3>1. CASE pc' = "train"
      BY <1>3, <2>3, <3>1
    <3>2. CASE pc' = "log"
      <4>1. live'.step - 1 = n
        BY <1>2, <1>3, <3>2
      <4> QED BY <2>3, <3>2, <4>1
    <3>3. CASE pc' = "validate"
      <4>1. (n + 1) % d.config.log # 0
        BY <1>1, <1>2, <1>3, <3>3
      <4>2. LoggedUpTo(d, n + 1)
        BY <1>2, <2>3, <4>1 DEF LoggedUpTo
      <4> QED BY <1>3, <3>3, <4>2
    <3> QED BY <1>1, <3>1, <3>2, <3>3
  <2>5. pc' \in JustLogged => live'.step % d.config.log # 0
    BY <1>1, <1>2 DEF JustLogged
  <2> QED BY <1>3, <2>1, <2>2, <2>4, <2>5 DEF LiveBacked
<1> QED BY <1>1, <1>4, Here, MovesFiles

\* A logged step leaves every checkpoint behind: before, nothing logged was
\* this new, and where a checkpoint is, everything that was due is logged.
LEMMA LogFiles == ASSUME AllInv, LogStep PROVE FilesInv'
<1> DEFINE d == dirs'[job.run]
           m == Directory.metrics
           line == Record("train", live.step)
           n == live.step
<1>1. /\ pc = "log" /\ pc' = "logSummary" /\ Moves(pc', {"metrics"}) /\ live' = live
      /\ d.metrics = Append(m, line) /\ pc # "idle"
  BY AppendDoes DEF AllInv, LogStep, TrainPlaces, BeforeTracking, Moves
<1>2. /\ IsDirectory(Directory) /\ DirOK(Directory) /\ n \in Nat /\ n >= 1
      /\ Directory.config = job.config /\ NotNewer(Directory, "log", n)
  BY <1>1, Here, Typed, Found DEF AllInv, TrainPlaces, BeforeTracking
<1>3. Same(Directory, d, {"metrics"})
  BY <1>1 DEF Moves
<1>4. /\ d.config = Directory.config /\ d.events = Directory.events /\ d.best = Directory.best
      /\ d.foreign = Directory.foreign /\ Installed(d) = Installed(Directory)
  BY <1>3, SameFields DEF Installed
<1>5. /\ \A i \in DOMAIN m : i \in DOMAIN d.metrics /\ d.metrics[i] = m[i]
      /\ \E i \in DOMAIN d.metrics : d.metrics[i].step = n
  <2>1. m \in Seq(Line) /\ line \in Line /\ line.step = n
    BY <1>2 DEF DirOK, Line, Record
  <2> HIDE DEF line
  <2>2. /\ DOMAIN Append(m, line) = 1 .. Len(m) + 1 /\ DOMAIN m = 1 .. Len(m) /\ Len(m) \in Nat
        /\ \A i \in 1 .. Len(m) : Append(m, line)[i] = m[i]
        /\ Append(m, line)[Len(m) + 1] = line
    BY <2>1, AppendProperties
  <2> QED BY <1>1, <2>1, <2>2
<1>6. Grown(Directory, d)
  BY <1>4, <1>5 DEF Grown
<1>7. \A i \in DOMAIN m : m[i].step < n
  <2>1. Increasing(m) /\ \A i \in DOMAIN m : m[i].kind \in {"train", "validation", "evaluation"}
    <3>1. m \in Seq(Line) /\ Increasing(m)
      BY <1>2 DEF DirOK
    <3>2. \A i \in DOMAIN m : m[i] \in Line
      BY <3>1, ElementOfSeq
    <3> QED BY <3>1, <3>2 DEF Line
  <2> QED BY <1>2, <2>1 DEF NotNewer, Increasing, BeforeTracking, Stepless
<1>8. ASSUME SelfContained(d) PROVE DirBacked(d) /\ LiveBacked(d, "logSummary", live)
  <2>1. SelfContained(Directory)
    BY <1>4, <1>8 DEF SelfContained
  <2>2. DirBacked(Directory) /\ LiveBacked(Directory, "log", live)
    BY <1>1, <2>1, Here DEF TrainPlaces, BeforeTracking
  <2>3. DirBacked(d)
    BY <1>6, <2>2, GrownBacked
  <2>4. LoggedUpTo(d, n)
    <3>1. LoggedUpTo(Directory, n - 1)
      BY <2>2 DEF LiveBacked
    <3>2. ASSUME NEW s \in 1 .. n, s % d.config.log = 0
          PROVE  \E i \in DOMAIN d.metrics : d.metrics[i].step >= s
      <4>1. CASE s = n
        BY <1>2, <1>5, <4>1
      <4>2. CASE s # n
        BY <1>2, <1>4, <1>5, <3>1, <3>2, <4>2 DEF LoggedUpTo
      <4> QED BY <4>1, <4>2
    <3> QED BY <3>2 DEF LoggedUpTo
  <2>5. ASSUME n % d.config.log = 0, NEW c \in Installed(d) PROVE c.state.step < n
    <3>1. LoggedUpTo(Directory, c.state.step) /\ c.state.step \in Nat
      BY <1>2, <1>4, <2>2, DirectoryTyped DEF DirBacked, Logged
    <3>2. SUFFICES ASSUME c.state.step >= n PROVE FALSE
      BY <1>2, <3>1
    <3>3. \E i \in DOMAIN m : m[i].step >= n
      BY <1>2, <1>4, <2>5, <3>1, <3>2 DEF LoggedUpTo
    <3>4. \A i \in DOMAIN m : m[i].step \in Nat
      BY <1>2, DirectoryTyped
    <3> QED BY <1>2, <1>7, <3>3, <3>4
  <2>6. \A c : Resumable(d, c) => Resumable(Directory, c)
    BY <1>6 DEF Grown, Resumable
  <2>7. Known(d, "logSummary", live) = live.val /\ Known(Directory, "log", live) = live.val
    BY DEF Known
  <2>8. Backed(d, live.val)
    BY <1>4, <2>2 DEF LiveBacked, Backed
  <2> QED BY <1>4, <2>2, <2>3, <2>4, <2>5, <2>6, <2>7, <2>8 DEF LiveBacked
<1> QED BY <1>1, <1>8, MovesFiles

\* Lines that say nothing of the scores, and writes beside the checkpoints.
LEMMA QuietFiles ==
  ASSUME AllInv,
         \/ LogStepSummary \/ PassValidation \/ TrackValidation \/ TrackValidationSummary
         \/ RegisterPeriodic \/ RegisterLatest \/ PublishReport \/ LogReport
  PROVE  FilesInv'
<1> DEFINE d == dirs'[job.run]
           m == Directory.metrics
           Kept(changed) ==
             /\ Moves(pc', changed) /\ live' = live
             /\ changed \subseteq {"metrics", "events", "summary", "evaluated"}
             /\ d.metrics = m \/ \E x \in Line : d.metrics = Append(m, x)
             /\ \A e \in d.events : e \in Directory.events \/ e.role # "best"
             /\ pc \notin {"log", "bestEvent"} /\ pc' \notin {"log", "bestEvent"}
             /\ pc' \in JustLogged => pc \in JustLogged
             /\ pc' \in TrainPlaces => pc \in TrainPlaces
<1>1. PICK changed : Kept(changed)
  <2>1. CASE LogStepSummary \/ TrackValidationSummary
    <3>1. Moves(pc', {"summary"}) /\ Same(Directory, d, {"summary"})
      BY <2>1, SummaryDoes DEF AllInv, LogStepSummary, TrackValidationSummary,
                               TrainPlaces, BeforeTracking, Moves
    <3>2. Kept({"summary"})
      BY <2>1, <3>1, SummaryDoes, SameFields
         DEF AllInv, LogStepSummary, TrackValidationSummary, AfterValidation,
             TrainPlaces, BeforeTracking, Moves, JustLogged
    <3> QED BY <3>2
  <2>2. CASE PassValidation
    <3>1. Kept({})
      BY <2>2, ValidationDoes DEF AllInv, PassValidation, AfterValidation, Write,
                                  TrainPlaces, BeforeTracking, JustLogged
    <3> QED BY <3>1
  <2>3. CASE TrackValidation
    <3> DEFINE line == Record("validation", live.step)
    <3>1. /\ Moves(pc', {"metrics"}) /\ d.metrics = Append(m, line)
          /\ pc = "track" /\ pc' = "trackSummary" /\ live' = live
          /\ Same(Directory, d, {"metrics"})
      BY <2>3, AppendDoes DEF AllInv, TrackValidation, TrainPlaces, BeforeTracking, Moves
    <3>2. line \in Line
      BY <3>1, Here DEF Line, Record
    <3>3. d.events = Directory.events
      BY <3>1, SameFields
    <3>4. Kept({"metrics"})
      BY <3>1, <3>2, <3>3 DEF TrainPlaces, BeforeTracking, JustLogged
    <3> QED BY <3>4
  <2>4. CASE RegisterPeriodic \/ RegisterLatest
    <3>1. PICK role \in {"periodic", "latest"} :
            /\ Moves(pc', {"events"}) /\ Same(Directory, d, {"events"})
            /\ d.events = Directory.events \cup {Event(role, live.step)}
      BY <2>4, RegisterDoes DEF AllInv, RegisterPeriodic, RegisterLatest, TrainPlaces,
                                BeforeTracking, Moves
    <3>2. d.metrics = m
      BY <3>1, SameFields
    <3>3. \A e \in d.events : e \in Directory.events \/ e.role # "best"
      BY <3>1 DEF Event
    <3>4. Kept({"events"})
      BY <2>4, <3>1, <3>2, <3>3 DEF RegisterPeriodic, RegisterLatest, Register, Write,
                                    TrainPlaces, BeforeTracking, JustLogged
    <3> QED BY <3>4
  <2>5. CASE PublishReport \/ LogReport
    <3> DEFINE record == Record("evaluation", Stepless)
    <3>1. /\ pc \in {"report", "reportEvent"} /\ pc' \in {"reportEvent", "finish"}
          /\ Moves(pc', {"metrics", "evaluated"}) /\ live' = live
          /\ d.metrics \in {m, Append(m, record)}
          /\ Same(Directory, d, {"metrics", "evaluated"})
      BY <2>5, ReportDoes DEF AllInv, Moves
    <3>2. record \in Line
      BY DEF Record, Line, Stepless
    <3>3. d.events = Directory.events
      BY <3>1, SameFields
    <3>4. Kept({"metrics", "evaluated"})
      BY <3>1, <3>2, <3>3 DEF TrainPlaces, BeforeTracking, JustLogged
    <3> QED BY <3>4
  <2> QED BY <2>1, <2>2, <2>3, <2>4, <2>5
<1>2. Same(Directory, d, changed) /\ pc # "idle"
  BY <1>1 DEF Moves
<1>3. /\ d.config = Directory.config /\ d.best = Directory.best
      /\ d.foreign = Directory.foreign /\ Installed(d) = Installed(Directory)
  BY <1>1, <1>2, SameFields DEF Installed
<1>4. \A i \in DOMAIN m : \E j \in DOMAIN d.metrics : d.metrics[j] = m[i]
  <2>1. CASE d.metrics = m
    BY <2>1
  <2>2. ASSUME NEW x \in Line, d.metrics = Append(m, x)
        PROVE  \A i \in DOMAIN m : \E j \in DOMAIN d.metrics : d.metrics[j] = m[i]
    <3>1. m \in Seq(Line)
      BY <1>2, Here DEF DirOK
    <3>2. /\ DOMAIN Append(m, x) = 1 .. Len(m) + 1 /\ DOMAIN m = 1 .. Len(m) /\ Len(m) \in Nat
          /\ \A i \in 1 .. Len(m) : Append(m, x)[i] = m[i]
      BY <3>1, AppendProperties
    <3> QED BY <2>2, <3>2
  <2> QED BY <1>1, <2>1, <2>2
<1>5. Grown(Directory, d)
  BY <1>1, <1>3, <1>4 DEF Grown
<1>6. SelfContained(d) => SelfContained(Directory)
  BY <1>3 DEF SelfContained
<1>7. SelfContained(d) => DirBacked(d)
  BY <1>2, <1>5, <1>6, Here, GrownBacked
<1>8. pc' \in TrainPlaces /\ SelfContained(d) => LiveBacked(d, pc', live')
  BY <1>1, <1>2, <1>5, <1>6, Here, GrownLive
<1> QED BY <1>1, <1>7, <1>8, MovesFiles

\* What a validation state remembers, in terms of the score of this step.
LEMMA Scores ==
  ASSUME AllInv, pc \in TrainPlaces \ {"train"}
  PROVE  /\ Scored(Candidate) /\ Candidate.minimum \in Nat /\ bpb[live.step] \in Nat
         /\ live.step >= 1
         /\ Improved => /\ Candidate.minimum = bpb[live.step]
                        /\ Scored(live.val) => Candidate.minimum < live.val.minimum
         /\ ~Improved => Scored(live.val) /\ Candidate.minimum = live.val.minimum
<1>1. /\ Candidate.step >= 1 /\ Candidate.step = live.step /\ Candidate.minimum \in Nat
      /\ bpb[live.step] \in Nat /\ Candidate.step \in Nat
  BY CandidateTyped, BoundsAssumption DEF AllInv, Steps
<1>2. Scored(Candidate)
  BY <1>1 DEF Scored, NoValidation
<1>3. live.val.minimum \in Nat
  BY Here DEF TrainPlaces, BeforeTracking
<1>4. Candidate.minimum = IF live.val = NoValidation \/ bpb[live.step] < live.val.minimum
                          THEN bpb[live.step] ELSE live.val.minimum
  BY DEF Candidate
<1> QED BY <1>1, <1>2, <1>3, <1>4 DEF Improved, Scored

\* A score that does not improve leaves the minimum.
LEMMA AcceptFiles == ASSUME AllInv, AcceptValidation PROVE FilesInv'
<1> DEFINE d == dirs'[job.run]
<1>1. /\ pc = "validate" /\ pc' = (IF Improved THEN "best" ELSE "track") /\ Moves(pc', {})
      /\ d = Directory /\ pc # "idle" /\ pc \in TrainPlaces \ {"train"}
      /\ live' = IF Improved THEN live ELSE [live EXCEPT !.val = Candidate]
  BY ValidationDoes DEF AllInv, AcceptValidation, Write, TrainPlaces, BeforeTracking
<1>2. live'.step = live.step /\ live'.val = IF Improved THEN live.val ELSE Candidate
  BY <1>1, CandidateTyped DEF AllInv
<1>3. /\ Scored(live'.val) <=> Scored(live.val)
      /\ Scored(live.val) => live'.val.minimum = live.val.minimum
  BY <1>1, <1>2, Scores
<1>4. \A w : /\ Knows(live.val, w) => Knows(live'.val, w)
             /\ Knows(w, live.val) => Knows(w, live'.val)
  BY <1>3 DEF Knows
<1>5. Backed(d, live.val) => Backed(d, live'.val)
  BY <1>3 DEF Backed
<1>6. ASSUME SelfContained(d) PROVE DirBacked(d) /\ LiveBacked(d, pc', live')
  <2>1. DirBacked(d) /\ LiveBacked(d, "validate", live)
    BY <1>1, <1>6, Here
  <2>2. Known(d, pc', live') = live'.val /\ Known(d, "validate", live) = live.val
    BY <1>1 DEF Known
  <2>3. LoggedUpTo(d, live'.step) /\ Backed(d, live'.val)
    BY <1>2, <1>5, <2>1 DEF LiveBacked
  <2>4. pc' \in JustLogged /\ live'.step % d.config.log = 0
          => \A c \in Installed(d) : c.state.step < live'.step
    BY <1>1, <1>2, <2>1 DEF LiveBacked, JustLogged
  <2>5. \A c \in Installed(d) : /\ Knows(live'.val, c.state.val)
                                /\ Resumable(d, c) => Knows(c.state.val, live'.val)
    BY <1>4, <2>1, <2>2 DEF LiveBacked
  <2>6. pc' # "log"
    BY <1>1
  <2> QED BY <2>1, <2>2, <2>3, <2>4, <2>5, <2>6 DEF LiveBacked
<1> QED BY <1>1, <1>6, MovesFiles

\* At "best" no other checkpoint of the directory can be resumed any more.
LEMMA OnlyBestResumable ==
  ASSUME AllInv, pc = "best", SelfContained(Directory)
  PROVE  \A c \in Installed(Directory) : c.state.step < live.step /\ ~Resumable(Directory, c)
<1>1. /\ pc # "idle" /\ pc \in TrainPlaces \ {"train"}
  BY DEF TrainPlaces, BeforeTracking
<1>2. /\ IsDirectory(Directory) /\ live.step \in Nat /\ Directory.config = job.config
      /\ job.config.log \in Nat \ {0} /\ job.config.eval \in Nat \ {0}
      /\ LiveBacked(Directory, "best", live) /\ live.step >= 1
  BY <1>1, Here, Scores
<1>3. live.step % job.config.eval = 0
  BY DEF AllInv, EventsInv, Registering
<1>4. job.config.eval % job.config.log = 0
  BY <1>2 DEF SelfContained
<1>5. live.step % Directory.config.log = 0
  BY <1>2, <1>3, <1>4, DividesTransitively
<1>6. \A c \in Installed(Directory) : c.state.step < live.step
  BY <1>2, <1>5 DEF LiveBacked, JustLogged
<1>7. LoggedUpTo(Directory, live.step)
  BY <1>2 DEF LiveBacked
<1>8. \E i \in DOMAIN Directory.metrics : Directory.metrics[i].step >= live.step
  BY <1>2, <1>5, <1>7 DEF LoggedUpTo
<1>9. ASSUME NEW c \in Installed(Directory) PROVE ~Resumable(Directory, c)
  <2>1. /\ c.state.step \in Nat
        /\ \A i \in DOMAIN Directory.metrics : Directory.metrics[i].step \in Nat
    BY <1>2, DirectoryTyped
  <2> QED BY <1>2, <1>6, <1>8, <2>1 DEF Resumable
<1> QED BY <1>6, <1>9

\* The new best.pt is better than anything a checkpoint here remembers, and the
\* only one to resume from until the next is saved.
LEMMA SaveBestFiles == ASSUME AllInv, SaveBest PROVE FilesInv'
<1> DEFINE d == dirs'[job.run]
           scored == [live EXCEPT !.val = Candidate]
           c == Snapshot(scored)
<1> HIDE DEF scored
<1>1. /\ pc = "best" /\ pc' = "bestEvent" /\ Moves(pc', {"best"}) /\ live' = live
      /\ d.best = c /\ pc # "idle" /\ pc \in TrainPlaces \ {"train"}
      /\ Same(Directory, d, {"best"})
  BY SaveBestDoes DEF AllInv, Moves, scored, TrainPlaces, BeforeTracking
<1>2. /\ IsDirectory(Directory) /\ live.step \in Nat /\ live.val.minimum \in Nat
      /\ job.run \in Runs
  BY <1>1, Here
<1>3. /\ scored \in States /\ scored.step = live.step /\ scored.val = Candidate
  BY <1>1, CandidateTyped DEF AllInv, scored
<1>4. c.state = scored /\ c # NoCheckpoint
  BY <1>2, RunsAssumption DEF Snapshot, Checkpoint, NoCheckpoint
<1> HIDE DEF c
<1>5. /\ d.config = Directory.config /\ d.metrics = Directory.metrics
      /\ d.events = Directory.events /\ d.foreign = Directory.foreign
      /\ d.periodic = Directory.periodic /\ d.last = Directory.last
  BY <1>1, SameFields
<1>6. /\ \A e \in Installed(d) : e \in Installed(Directory) \/ e = c
      /\ c \in Installed(d)
  BY <1>1, <1>4, <1>5 DEF Installed
<1>7. /\ Improved /\ Scored(Candidate) /\ Candidate.minimum = bpb[live.step]
      /\ Scored(live.val) => Candidate.minimum < live.val.minimum
      /\ Candidate.minimum \in Nat
  BY <1>1, Scores DEF AllInv, EventsInv, Registering
<1>8. ASSUME SelfContained(d) PROVE DirBacked(d) /\ LiveBacked(d, "bestEvent", live)
  <2>1. SelfContained(Directory)
    BY <1>5, <1>8 DEF SelfContained
  <2>2. DirBacked(Directory) /\ LiveBacked(Directory, "best", live)
    BY <1>1, <2>1, Here
  <2>3. \A e \in Installed(Directory) : e.state.step < live.step /\ ~Resumable(Directory, e)
    BY <1>1, <2>1, OnlyBestResumable
  <2>4. \A e : Resumable(d, e) <=> Resumable(Directory, e)
    BY <1>5 DEF Resumable
  <2>5. \A n : LoggedUpTo(d, n) <=> LoggedUpTo(Directory, n)
    BY <1>5 DEF LoggedUpTo
  <2>6. \A e \in Installed(d) : Resumable(d, e) => e = c
    BY <1>6, <2>3, <2>4
  <2>7. \A e \in Installed(d) : Knows(Candidate, e.state.val)
    <3>1. Known(Directory, "best", live) = live.val
      BY DEF Known
    <3>2. \A e \in Installed(Directory) : Knows(live.val, e.state.val)
      BY <2>2, <3>1 DEF LiveBacked
    <3>3. \A e \in Installed(Directory) : e.state.val.minimum \in Nat
      BY <1>2, DirectoryTyped
    <3>4. \A e \in Installed(Directory) : Knows(Candidate, e.state.val)
      BY <1>2, <1>7, <3>2, <3>3 DEF Knows
    <3> QED BY <1>3, <1>4, <1>6, <1>7, <3>4 DEF Knows
  <2>8. Logged(d)
    <3>1. LoggedUpTo(Directory, live.step)
      BY <2>2 DEF LiveBacked
    <3> QED BY <1>3, <1>4, <1>6, <2>2, <2>5, <3>1 DEF DirBacked, Logged
  <2>9. ScoresBacked(d)
    BY <1>1, <1>3, <1>4, <2>7 DEF ScoresBacked, Backed, Knows
  <2>10. BestScored(d)
    BY <1>1, <1>3, <1>4, <1>7 DEF BestScored
  <2>11. ResumableKnow(d)
    BY <1>3, <1>4, <2>6, <2>7 DEF ResumableKnow
  <2>12. BestRegistered(d)
    <3> SUFFICES ASSUME NEW e \in d.events, e.role = "best"
                 PROVE  d.best # NoCheckpoint /\ d.best.state.step >= e.step
      BY DEF BestRegistered
    <3>1. Directory.best # NoCheckpoint /\ Directory.best.state.step >= e.step
      BY <1>5, <2>2 DEF DirBacked, BestRegistered
    <3>2. Directory.best \in Installed(Directory) /\ e.step \in Nat
          /\ Directory.best.state.step \in Nat
      BY <1>2, <1>5, <3>1, DirectoryTyped
    <3> QED BY <1>1, <1>2, <1>3, <1>4, <2>3, <3>1, <3>2
  <2>13. DirBacked(d)
    BY <2>8, <2>9, <2>10, <2>11, <2>12 DEF DirBacked
  <2>14. Known(d, "bestEvent", live) = Candidate
    BY <1>1, <1>3, <1>4 DEF Known
  <2>15. LoggedUpTo(d, live.step)
    BY <2>2, <2>5 DEF LiveBacked
  <2>16. Backed(d, live.val)
    BY <1>1, <1>2, <1>3, <1>4, <1>7 DEF Backed
  <2>17. \A e \in Installed(d) : /\ Knows(Candidate, e.state.val)
                                 /\ Resumable(d, e) => Knows(e.state.val, Candidate)
    BY <1>3, <1>4, <1>7, <2>6, <2>7 DEF Knows
  <2> QED BY <2>13, <2>14, <2>15, <2>16, <2>17 DEF LiveBacked, JustLogged
<1> QED BY <1>1, <1>8, MovesFiles

\* The score that best.pt already carries becomes the live one.
LEMMA RegisterBestFiles == ASSUME AllInv, RegisterBest PROVE FilesInv'
<1> DEFINE d == dirs'[job.run]
<1>1. /\ pc = "bestEvent" /\ pc' = "track" /\ Moves(pc', {"events"})
      /\ live' = [live EXCEPT !.val = Candidate] /\ pc # "idle" /\ pc \in TrainPlaces \ {"train"}
      /\ d.events = Directory.events \cup {Event("best", live.step)}
      /\ Same(Directory, d, {"events"})
  BY RegisterDoes DEF AllInv, RegisterBest, TrainPlaces, BeforeTracking, Moves
<1>2. live'.step = live.step /\ live'.val = Candidate /\ live.step \in Nat
  BY <1>1, CandidateTyped, Here DEF AllInv
<1>3. /\ d.config = Directory.config /\ d.metrics = Directory.metrics
      /\ d.best = Directory.best /\ d.foreign = Directory.foreign
      /\ Installed(d) = Installed(Directory)
  BY <1>1, SameFields DEF Installed
<1>4. /\ Directory.best.state.val = Candidate /\ Directory.best.state.step = live.step
  <2>1. Directory.best.state = [live EXCEPT !.val = Candidate]
    BY <1>1 DEF AllInv, EventsInv, Registering
  <2> QED BY <1>1, <2>1, CandidateTyped DEF AllInv
<1>5. Directory.best # NoCheckpoint
  BY <1>1, <1>4, Scores DEF NoCheckpoint, Checkpoint, Untrained, Scored
<1>6. Grown(Directory, d)
  BY <1>1, <1>2, <1>3, <1>4, <1>5 DEF Grown, Event
<1>7. ASSUME SelfContained(d) PROVE DirBacked(d) /\ LiveBacked(d, "track", live')
  <2>1. SelfContained(Directory)
    BY <1>3, <1>7 DEF SelfContained
  <2>2. DirBacked(Directory) /\ LiveBacked(Directory, "bestEvent", live)
    BY <1>1, <2>1, Here
  <2>3. DirBacked(d)
    BY <1>6, <2>2, GrownBacked
  <2>4. Known(Directory, "bestEvent", live) = Candidate /\ Known(d, "track", live') = Candidate
    BY <1>2, <1>4 DEF Known
  <2>5. \A e : Resumable(d, e) <=> Resumable(Directory, e)
    BY <1>3 DEF Resumable
  <2>6. LoggedUpTo(d, live'.step)
    BY <1>2, <1>3, <2>2 DEF LiveBacked, LoggedUpTo
  <2>7. Backed(d, Candidate)
    <3>1. Candidate.minimum \in Nat
      BY <1>1, Scores
    <3> QED BY <1>3, <1>4, <1>5, <3>1 DEF Backed
  <2> QED BY <1>2, <1>3, <2>2, <2>3, <2>4, <2>5, <2>6, <2>7 DEF LiveBacked, JustLogged
<1> QED BY <1>1, <1>7, MovesFiles

\* A model whose scores are known to all that may be resumed joins them.
LEMMA JoinsFiles ==
  ASSUME NEW d, NEW e, NEW c, NEW s, NEW place, NEW next, IsDirectory(d), s \in States,
         e.config = d.config, e.metrics = d.metrics, e.events = d.events, e.best = d.best,
         \A x \in Installed(e) : x \in Installed(d) \/ x = c, c.state = s,
         DirBacked(d), LiveBacked(d, place, s), place \notin {"log", "bestEvent"},
         next \notin JustLogged \cup {"log", "bestEvent"}
  PROVE  DirBacked(e) /\ LiveBacked(e, next, s)
<1>1. \A x : Resumable(e, x) <=> Resumable(d, x)
  BY DEF Resumable
<1>2. \A n : LoggedUpTo(e, n) <=> LoggedUpTo(d, n)
  BY DEF LoggedUpTo
<1>3. \A v : Backed(e, v) <=> Backed(d, v)
  BY DEF Backed
<1>4. LoggedUpTo(d, s.step) /\ Backed(d, s.val)
  BY DEF LiveBacked
<1>5. s.val.minimum \in Nat /\ \A x \in Installed(e) : x.state.val.minimum \in Nat
  BY DirectoryTyped, StateTyped
<1>6. \A x \in Installed(e) : /\ Knows(s.val, x.state.val)
                              /\ Resumable(e, x) => Knows(x.state.val, s.val)
  <2>1. Known(d, place, s) = s.val
    BY DEF Known
  <2>2. Knows(s.val, s.val)
    BY <1>5 DEF Knows
  <2> QED BY <1>1, <2>1, <2>2 DEF LiveBacked
<1>7. Logged(e) /\ ScoresBacked(e)
  BY <1>2, <1>3, <1>4 DEF DirBacked, Logged, ScoresBacked
<1>8. BestScored(e) /\ BestRegistered(e)
  BY DEF DirBacked, BestScored, BestRegistered
<1>9. ResumableKnow(e)
  BY <1>5, <1>6 DEF ResumableKnow, Knows
<1>10. Known(e, next, s) = s.val
  BY DEF Known
<1>11. LiveBacked(e, next, s)
  BY <1>2, <1>3, <1>4, <1>6, <1>10 DEF LiveBacked
<1> QED BY <1>7, <1>8, <1>9, <1>11 DEF DirBacked

LEMMA SavesFiles == ASSUME AllInv, SavePeriodic \/ SaveLatest PROVE FilesInv'
<1> DEFINE d == dirs'[job.run]
           c == Snapshot(live)
<1>1. PICK changed :
        /\ Moves(pc', changed) /\ changed \subseteq {"periodic", "last"} /\ live' = live
        /\ pc \in TrainPlaces \ {"log", "bestEvent"}
        /\ pc' \in TrainPlaces \ (JustLogged \cup {"log", "bestEvent"})
        /\ d.periodic = Directory.periodic
             \/ d.periodic = {x \in Directory.periodic : x.state.step # live.step} \cup {c}
        /\ d.last = Directory.last \/ d.last = c
  <2>1. CASE SavePeriodic
    <3>1. Same(Directory, d, {"periodic"})
      BY <2>1, SavePeriodicDoes DEF AllInv, Moves
    <3>2. d.last = Directory.last
      BY <3>1, SameFields
    <3> QED BY <2>1, <3>2, SavePeriodicDoes
            DEF AllInv, Moves, TrainPlaces, BeforeTracking, JustLogged
  <2>2. CASE SaveLatest
    <3>1. Same(Directory, d, {"last"})
      BY <2>2, SaveLatestDoes DEF AllInv, Moves
    <3>2. d.periodic = Directory.periodic
      BY <3>1, SameFields
    <3> QED BY <2>2, <3>2, SaveLatestDoes
            DEF AllInv, Moves, TrainPlaces, BeforeTracking, JustLogged
  <2> QED BY <2>1, <2>2
<1>2. Same(Directory, d, changed) /\ pc # "idle"
  BY <1>1 DEF Moves
<1>3. /\ d.config = Directory.config /\ d.metrics = Directory.metrics
      /\ d.events = Directory.events /\ d.best = Directory.best
      /\ d.foreign = Directory.foreign
  BY <1>1, <1>2, SameFields
<1>4. c.state = live
  BY DEF Snapshot, Checkpoint
<1> HIDE DEF c
<1>5. \A x \in Installed(d) : x \in Installed(Directory) \/ x = c
  BY <1>1, <1>3 DEF Installed
<1>6. ASSUME SelfContained(d) PROVE DirBacked(d) /\ LiveBacked(d, pc', live)
  <2>1. SelfContained(Directory)
    BY <1>3, <1>6 DEF SelfContained
  <2>2. /\ DirBacked(Directory) /\ LiveBacked(Directory, pc, live)
        /\ IsDirectory(Directory) /\ live \in States
    BY <1>1, <1>2, <2>1, Here
  <2> QED BY <1>1, <1>3, <1>4, <1>5, <2>2, JoinsFiles
<1> QED BY <1>1, <1>6, MovesFiles

LEMMA StopsFiles == ASSUME AllInv, Stops PROVE FilesInv'
<1> DEFINE d == dirs'[job.run]
<1>1. /\ pc' = "idle" /\ bpb' = bpb /\ job.run \in Runs /\ pc # "idle"
      /\ Same(Directory, d, {"config", "status", "torn"})
      /\ \/ d.config = Directory.config
         \/ CanOpen(Directory) /\ d.config = job.config
      /\ \A r \in Runs : r # job.run => dirs'[r] = dirs[r]
  BY DEF Stops, oracles
<1>2. /\ d.metrics = Directory.metrics
      /\ d.events = Directory.events /\ d.best = Directory.best
      /\ d.foreign = Directory.foreign /\ Installed(d) = Installed(Directory)
  BY <1>1, SameFields DEF Installed
<1>3. ASSUME SelfContained(d), d.config = Directory.config PROVE DirBacked(d)
  <2>1. Grown(Directory, d) /\ (SelfContained(d) => SelfContained(Directory))
    BY <1>2, <1>3 DEF Grown, SelfContained
  <2> QED BY <1>1, <1>3, <2>1, Here, GrownBacked
<1>7. ASSUME d.config # Directory.config PROVE DirBacked(d)
  <2>1. Directory.config = NoConfig
    BY <1>1, <1>7 DEF CanOpen
  <2>2. Installed(d) = {} /\ d.events = {}
    BY <1>1, <1>2, <2>1, Here DEF Own
  <2>3. d.best = NoCheckpoint
    BY <2>2 DEF Installed
  <2> QED BY <2>2, <2>3 DEF DirBacked, Logged, ScoresBacked, BestScored, ResumableKnow,
                            BestRegistered
<1>4. SelfContained(d) => DirBacked(d)
  BY <1>3, <1>7
<1>5. \A r \in Runs : SelfContained(dirs'[r]) => DirBacked(dirs'[r])
  BY <1>1, <1>4 DEF AllInv, FilesInv
<1>6. (\A r \in Runs : SelfContained(dirs[r]) => DirBacked(dirs[r]))'
  BY <1>1, <1>5 DEF DirBacked, BestScored
<1> QED BY <1>1, <1>6 DEF FilesInv, TrainPlaces, BeforeTracking

LEMMA StepFiles == ASSUME AllInv, [Next]_vars PROVE FilesInv'
<1>1. CASE Step
  BY <1>1, OpenFiles, StartFiles, AttemptFiles, LogFiles, QuietFiles, AcceptFiles,
     SaveBestFiles, RegisterBestFiles, SavesFiles, StopsDo, StopsFiles DEF Step, AllInv
<1>2. CASE Fail \/ Kill
  BY <1>2, StopsDo, StopsFiles DEF AllInv
<1>3. ASSUME NEW r \in Runs, NEW c \in Configs, NEW request \in Jobs(r, c), Command(request)
      PROVE  FilesInv'
  BY <1>3 DEF Command, oracles, AllInv, FilesInv, DirBacked, BestScored, TrainPlaces,
              BeforeTracking
<1>4. CASE UNCHANGED vars
  BY <1>4 DEF vars, AllInv, FilesInv, DirBacked, BestScored, Directory
<1> QED BY <1>1, <1>2, <1>3, <1>4 DEF Next

LEMMA InitFiles == Init => FilesInv
<1> SUFFICES ASSUME Init PROVE FilesInv
  OBVIOUS
<1>1. \A r \in Runs : ~SelfContained(dirs[r])
  <2>1. NewDirectory.config = NoConfig
    BY DEF NewDirectory
  <2> QED BY <2>1 DEF Init, SelfContained
<1> QED BY <1>1 DEF Init, FilesInv, TrainPlaces, BeforeTracking

LEMMA AllInvAlways == Spec => []AllInv
<1>1. Init => AllInv
  BY InitOK, InitTyped, InitOwn, InitEvents, InitFiles DEF AllInv
<1>2. AllInv /\ [Next]_vars => AllInv'
  BY StepOK, StepTyped, StepOwn, StepEvents, StepFiles DEF AllInv
<1> QED BY <1>1, <1>2, PTL DEF Spec

\* The minimum any checkpoint of a self-contained directory remembers is that of
\* the best.pt beside it, and every registered checkpoint is there, at its step
\* or a later one (_save, _register_checkpoint, _restore_validation_state).
THEOREM FilesAreBackedHolds == Spec => []FilesAreBacked
<1>1. ASSUME AllInv PROVE FilesAreBacked
  <2>1. MinimumIsBacked
    BY <1>1 DEF AllInv, FilesInv, MinimumIsBacked, DirBacked, ScoresBacked, BestScored, Backed,
                Scored
  <2>2. RegisteredIsInstalled
    <3>1. ASSUME NEW r \in Runs, NEW e \in dirs[r].events
          PROVE  /\ e.role \in {"best", "periodic", "latest"}
                 /\ e.role = "periodic" => \E c \in dirs[r].periodic : c.state.step = e.step
                 /\ e.role = "latest" => dirs[r].last.state.step >= e.step
                 /\ e.role = "best" /\ SelfContained(dirs[r])
                      => dirs[r].best.state.step >= e.step
      BY <1>1, <3>1 DEF AllInv, TypeInv, TypeOK, IsDirectory, EventsInv, EventsBacked,
                        FilesInv, DirBacked, BestRegistered
    <3> QED BY <3>1 DEF RegisteredIsInstalled
  <2> QED BY <2>1, <2>2 DEF FilesAreBacked
<1> QED BY <1>1, AllInvAlways, PTL

\* Only SaveBest replaces best.pt, by a model better than any remembered.
LEMMA BestImproves ==
  ASSUME AllInv, [Next]_vars
  PROVE  \A r \in Runs :
           SelfContained(dirs'[r]) /\ dirs'[r].best # dirs[r].best
             /\ dirs[r].best # NoCheckpoint
               => bpb[dirs'[r].best.state.step] < bpb[dirs[r].best.state.step]
<1>1. CASE SaveBest
  <2> DEFINE d == dirs'[job.run]
             old == Directory.best
             scored == [live EXCEPT !.val = Candidate]
  <2> HIDE DEF scored
  <2>1. /\ pc = "best" /\ d.best = Snapshot(scored) /\ Same(Directory, d, {"best"})
        /\ \A r \in Runs : r # job.run => dirs'[r] = dirs[r]
        /\ pc # "idle" /\ pc \in TrainPlaces \ {"train"} /\ job.run \in Runs
    BY <1>1, SaveBestDoes DEF AllInv, Moves, scored, TrainPlaces, BeforeTracking
  <2>2. d.best.state.step = live.step
    <3>1. Snapshot(scored).state = scored /\ scored.step = live.step
      BY <2>1, CandidateTyped DEF AllInv, Snapshot, Checkpoint, scored
    <3> QED BY <2>1, <3>1
  <2>3. ASSUME SelfContained(d), old # NoCheckpoint
        PROVE  bpb[live.step] < bpb[old.state.step]
    <3>1. SelfContained(Directory)
      BY <2>1, <2>3, SameFields DEF SelfContained
    <3>2. DirBacked(Directory) /\ LiveBacked(Directory, "best", live) /\ IsDirectory(Directory)
      BY <2>1, <3>1, Here
    <3>3. /\ old \in Installed(Directory) /\ old.state.val.minimum \in Nat
      BY <2>3, <3>2, DirectoryTyped
    <3>4. Scored(old.state.val) /\ bpb[old.state.step] = old.state.val.minimum
      BY <2>3, <3>2 DEF DirBacked, BestScored
    <3>5. Scored(live.val) /\ live.val.minimum <= old.state.val.minimum
      BY <3>2, <3>3, <3>4 DEF LiveBacked, Known, Knows
    <3>6. Improved
      BY <2>1 DEF AllInv, EventsInv, Registering
    <3>7. bpb[live.step] < live.val.minimum /\ bpb[live.step] \in Nat /\ live.val.minimum \in Nat
      BY <2>1, <3>5, <3>6, Scores, Here
    <3> QED BY <3>3, <3>4, <3>5, <3>7
  <2> QED BY <2>1, <2>2, <2>3 DEF Directory
<1>2. CASE ~SaveBest
  BY <1>2, Replaced DEF AllInv
<1> QED BY <1>1, <1>2

\* No resumption takes a directory's checkpoints back: last.pt moves on, and
\* best.pt is replaced only by a strictly better one (README "Equal or worse
\* values ... leave best.pt untouched").
THEOREM CheckpointsOnlyAdvanceHolds == Spec => CheckpointsOnlyAdvance
<1>1. AllInv /\ [Next]_vars =>
        [\A r \in Runs : LET old == dirs[r].best  new == dirs'[r].best IN
           SelfContained(dirs'[r]) /\ new # old /\ old # NoCheckpoint
             => bpb[new.state.step] < bpb[old.state.step]]_vars
  BY BestImproves
<1>2. Spec => BestOnlyImproves
  BY <1>1, AllInvAlways, PTL DEF Spec, BestOnlyImproves
<1> QED BY <1>2, LastNeverRegressesHolds DEF CheckpointsOnlyAdvance

-----------------------------------------------------------------------------
(***************************************************************************)
(* Completion.  The target step, where it is logged, reaches the summary   *)
(* before anything is saved at it; only the registration of the final      *)
(* last.pt leads a training command to its end.                            *)
(***************************************************************************)
Final == live.step = job.config.target /\ job.config.target % job.config.log = 0

CompletedInv ==
  /\ pc \in TrainPlaces /\ Final => pc \in {"log", "logSummary"} \/ Directory.summary >= live.step
  /\ pc = "finalEvent" => live.step = job.config.target
  /\ pc \in {"report", "reportEvent"} => job.kind \notin Training
  /\ pc = "finish" /\ job.kind \in Training =>
       /\ Directory.last.state.step = job.config.target
       /\ Event("latest", job.config.target) \in Directory.events
       /\ \A i \in DOMAIN Directory.metrics : Directory.metrics[i].step <= job.config.target
       /\ job.config.target % job.config.log = 0 => Directory.summary >= job.config.target

\* Between the target step and the end, the model and the summary stay.
LEMMA MovesCompleted ==
  ASSUME AllInv, CompletedInv, NEW changed, Moves(pc', changed),
         pc' \in TrainPlaces \ {"log", "logSummary", "finalEvent"},
         pc \in TrainPlaces \ {"log"}, live'.step = live.step,
         \/ pc # "logSummary" /\ "summary" \notin changed
         \/ dirs'[job.run].summary = live.step
  PROVE  CompletedInv'
<1>1. job' = job /\ Same(Directory, dirs'[job.run], changed) /\ pc # "idle"
  BY DEF Moves
<1>2. live.step \in Nat
  BY <1>1, Here
<1>3. Final => dirs'[job.run].summary >= live.step
  BY <1>1, <1>2, SameFields DEF CompletedInv
<1>4. pc' \notin {"finish", "report", "reportEvent", "finalEvent"}
  BY DEF TrainPlaces, BeforeTracking
<1> QED BY <1>1, <1>3, <1>4 DEF CompletedInv, Final, Directory

LEMMA TrainCompleted ==
  ASSUME AllInv, CompletedInv,
         \/ LogStepSummary \/ PassValidation \/ AcceptValidation \/ SaveBest
         \/ RegisterBest \/ TrackValidation \/ TrackValidationSummary \/ SavePeriodic
         \/ RegisterPeriodic \/ (SaveLatest /\ pc = "latest")
         \/ (RegisterLatest /\ pc = "latestEvent")
  PROVE  CompletedInv'
<1> DEFINE d == dirs'[job.run]
           Kept(changed) ==
             /\ Moves(pc', changed)
             /\ pc' \in TrainPlaces \ {"log", "logSummary", "finalEvent"}
             /\ pc \in TrainPlaces \ {"log", "train"}
             /\ live' \in {live, [live EXCEPT !.val = Candidate]}
             /\ \/ pc # "logSummary" /\ "summary" \notin changed
                \/ d.summary = live.step
<1>1. PICK changed : Kept(changed)
  <2>1. CASE LogStepSummary \/ TrackValidationSummary
    <3>1. Kept({"summary"})
      BY <2>1, SummaryDoes DEF AllInv, LogStepSummary, TrackValidationSummary, AfterValidation,
                               TrainPlaces, BeforeTracking, Moves
    <3> QED BY <3>1
  <2>2. CASE PassValidation \/ AcceptValidation
    <3>1. Kept({})
      BY <2>2, ValidationDoes DEF AllInv, PassValidation, AcceptValidation, AfterValidation,
                                  Write, TrainPlaces, BeforeTracking
    <3> QED BY <3>1
  <2>3. CASE TrackValidation
    <3>1. Kept({"metrics"})
      BY <2>3, AppendDoes DEF AllInv, TrackValidation, TrainPlaces, BeforeTracking, Moves
    <3> QED BY <3>1
  <2>4. CASE RegisterBest \/ RegisterPeriodic \/ (RegisterLatest /\ pc = "latestEvent")
    <3>1. Kept({"events"})
      BY <2>4, RegisterDoes DEF AllInv, RegisterBest, RegisterPeriodic, RegisterLatest,
                                TrainPlaces, BeforeTracking, Moves
    <3> QED BY <3>1
  <2>5. CASE SaveBest \/ SavePeriodic \/ (SaveLatest /\ pc = "latest")
    <3>1. /\ pc \in {"best", "periodic", "latest"} /\ live' = live
          /\ pc' \in {"bestEvent", "periodicEvent", "latestEvent"}
      BY <2>5 DEF SaveBest, SavePeriodic, SaveLatest, Write
    <3>2. PICK changed : Moves(pc', changed) /\ changed \subseteq {"periodic", "best", "last"}
      BY <2>5, SavesInstall DEF AllInv
    <3>3. Kept(changed)
      BY <3>1, <3>2 DEF TrainPlaces, BeforeTracking
    <3> QED BY <3>3
  <2> QED BY <2>1, <2>2, <2>3, <2>4, <2>5
<1>2. live'.step = live.step
  BY <1>1, CandidateTyped DEF AllInv
<1> QED BY <1>1, <1>2, MovesCompleted

LEMMA OthersCompleted ==
  ASSUME AllInv, CompletedInv,
         \/ OpenTracker \/ StartTraining \/ ApplyStep \/ SkipStep \/ LogStep
         \/ (SaveLatest /\ pc = "train") \/ (RegisterLatest /\ pc = "finalEvent")
         \/ PublishReport \/ LogReport
  PROVE  CompletedInv'
<1> DEFINE d == dirs'[job.run]
<1>1. CASE OpenTracker
  <2>1. /\ pc' \in {"finish", "report", "check"} /\ job' = job
        /\ pc' = "finish" => job.kind = "dry"
        /\ pc' = "report" => job.kind = "eval"
    BY <1>1, OpenTrackerDoes DEF AllInv, Moves
  <2> QED BY <2>1 DEF CompletedInv, Training, TrainPlaces, BeforeTracking
<1>2. CASE StartTraining
  <2>1. /\ pc' = "train" /\ job' = job /\ live' = job.source.state /\ pc # "idle"
        /\ job.source.state.step < job.config.target
    BY <1>2, StartTrainingDoes, StartsFrom DEF AllInv, Moves
  <2>2. job.source.state.step \in Nat /\ job.config.target \in Nat
    BY <2>1, Typed, StateTyped DEF AllInv, Checkpoints
  <2>3. ~Final'
    BY <2>1, <2>2 DEF Final
  <2> QED BY <2>1, <2>3 DEF CompletedInv
<1>3. CASE ApplyStep
  <2>1. /\ job' = job /\ pc # "idle"
        /\ pc' = IF live'.step % job.config.log = 0 THEN "log" ELSE "validate"
    BY <1>3 DEF ApplyStep, Attempting, Write
  <2>2. Final' => pc' = "log"
    BY <2>1 DEF Final
  <2> QED BY <2>1, <2>2 DEF CompletedInv
<1>4. CASE SkipStep
  <2>1. /\ job' = job /\ pc' = "train" /\ pc # "idle" /\ live.step < job.config.target
        /\ live' = [live EXCEPT !.pos = NextPosition]
    BY <1>4 DEF SkipStep, Attempting, Write
  <2>2. live \in States /\ live.step \in Nat /\ job.config.target \in Nat
    BY <2>1, Here, Typed DEF AllInv
  <2>3. live'.step = live.step
    BY <2>1, <2>2 DEF States
  <2>4. ~Final'
    BY <2>1, <2>2, <2>3 DEF Final
  <2> QED BY <2>1, <2>4 DEF CompletedInv
<1>5. CASE LogStep
  BY <1>5 DEF LogStep, AppendMetrics, Write, CompletedInv
<1>6. CASE SaveLatest /\ pc = "train"
  <2>1. /\ pc' = "finalEvent" /\ live.step = job.config.target /\ live' = live /\ job' = job
        /\ Same(Directory, d, {"last"})
    BY <1>6, SaveLatestDoes DEF AllInv, Moves
  <2>2. d.summary = Directory.summary
    BY <2>1, SameFields
  <2>3. Final => d.summary >= live.step
    BY <1>6, <2>2 DEF CompletedInv, TrainPlaces
  <2> QED BY <2>1, <2>3 DEF CompletedInv, Final, Directory
<1>7. CASE RegisterLatest /\ pc = "finalEvent"
  <2>1. /\ pc' = "finish" /\ live' = live /\ job' = job /\ Same(Directory, d, {"events"})
        /\ d.events = Directory.events \cup {Event("latest", live.step)}
    BY <1>7, RegisterDoes DEF AllInv, RegisterLatest, Moves, TrainPlaces, BeforeTracking
  <2>2. /\ d.summary = Directory.summary /\ d.last = Directory.last
        /\ d.metrics = Directory.metrics
    BY <2>1, SameFields
  <2>3. live.step = job.config.target /\ Directory.last.state.step = live.step
    BY <1>7 DEF CompletedInv, AllInv, EventsInv, Registering
  <2>4. NotNewer(Directory, "finalEvent", live.step)
    BY <1>7, Found DEF AllInv, TrainPlaces
  <2>5. job.config.target % job.config.log = 0 => Directory.summary >= job.config.target
    BY <1>7, <2>3 DEF CompletedInv, Final, TrainPlaces
  <2> QED BY <2>1, <2>2, <2>3, <2>4, <2>5
          DEF CompletedInv, NotNewer, Directory, TrainPlaces, BeforeTracking
<1>8. CASE PublishReport \/ LogReport
  <2>1. /\ pc \in {"report", "reportEvent"} /\ pc' \in {"reportEvent", "finish"} /\ job' = job
    BY <1>8, ReportDoes DEF AllInv, Moves
  <2> QED BY <2>1 DEF CompletedInv, TrainPlaces, BeforeTracking
<1> QED BY <1>1, <1>2, <1>3, <1>4, <1>5, <1>6, <1>7, <1>8

LEMMA StepCompleted == ASSUME AllInv, CompletedInv, [Next]_vars PROVE CompletedInv'
<1>1. CASE pc' \in {"idle", "open"}
  BY <1>1 DEF CompletedInv, TrainPlaces, BeforeTracking
<1>2. CASE Step
  <2>1. SaveLatest => pc \in {"train", "latest"}
    BY DEF SaveLatest
  <2>2. RegisterLatest => pc \in {"latestEvent", "finalEvent"}
    BY DEF RegisterLatest, Register
  <2>3. \/ RefuseToOpen \/ RefuseToTrain \/ GiveUp \/ RefuseReport \/ Finish
        => CompletedInv'
    BY <1>1, StopsDo DEF AllInv, Stops
  <2> QED BY <1>2, <2>1, <2>2, <2>3, TrainCompleted, OthersCompleted DEF Step
<1>3. CASE Fail \/ Kill
  BY <1>1, <1>3, StopsDo DEF AllInv, Stops
<1>4. ASSUME NEW r \in Runs, NEW c \in Configs, NEW request \in Jobs(r, c), Command(request)
      PROVE  CompletedInv'
  BY <1>1, <1>4 DEF Command
<1>5. CASE UNCHANGED vars
  BY <1>5 DEF vars, CompletedInv, Final, Directory
<1> QED BY <1>2, <1>3, <1>4, <1>5 DEF Next

LEMMA CompletedAlways == Spec => [](AllInv /\ CompletedInv)
<1>1. Init => AllInv /\ CompletedInv
  <2>1. Init => CompletedInv
    BY DEF Init, CompletedInv, TrainPlaces, BeforeTracking
  <2> QED BY <2>1, InitOK, InitTyped, InitOwn, InitEvents, InitFiles DEF AllInv
<1>2. AllInv /\ CompletedInv /\ [Next]_vars => (AllInv /\ CompletedInv)'
  BY StepOK, StepTyped, StepOwn, StepEvents, StepFiles, StepCompleted DEF AllInv
<1> QED BY <1>1, <1>2, PTL DEF Spec

\* A training command that reports success leaves last.pt at the configured
\* step, registered, and, where that step is logged, a summary that agrees with
\* the metrics (_CheckpointLifecycle.finalize, RunTracker.finish).
THEOREM CompletedIsCompleteHolds == Spec => []CompletedIsComplete
<1>1. ASSUME AllInv, CompletedInv PROVE CompletedIsComplete
  <2> SUFFICES ASSUME pc = "finish", job.kind \in Training,
                      job.config.target % job.config.log = 0,
                      NEW i \in DOMAIN Directory.metrics
               PROVE  Directory.metrics[i].step <= Directory.summary
    BY <1>1 DEF CompletedInv, CompletedIsComplete
  <2>1. IsDirectory(Directory) /\ job.config.target \in Nat
    BY <1>1, Here, Typed DEF AllInv
  <2>2. Directory.summary \in Nat
    BY <2>1, BoundsAssumption DEF IsDirectory, Steps
  <2>3. Directory.metrics[i].step \in Nat
    BY <2>1, DirectoryTyped
  <2> QED BY <1>1, <2>1, <2>2, <2>3 DEF CompletedInv
<1> QED BY <1>1, CompletedAlways, PTL
=============================================================================
