--------------------------- MODULE MetricsProofs ----------------------------
(***************************************************************************)
(* Theorems about Metrics, for every host, every period in the job's       *)
(* environment, every length of a turn and any number of faults.           *)
(***************************************************************************)
EXTENDS Metrics, SequenceTheorems, WellFoundedInduction, TLAPS

(* What holds whatever the clock does.                                     *)
BaseInv ==
    /\ cfg.sample \in Int /\ cfg.report \in Int
    /\ cfg.report > 0 => cfg.sample <= cfg.report
    /\ now \in Nat \ {0} /\ lastSample \in Nat /\ window.start \in Nat
    /\ \E S : reports \in Seq(S)

(* As long as it runs on, a sample is not older than its period, nor a     *)
(* window, at its last sample, than a report.                              *)
TimeInv ==
    "clock" \notin faults =>
        /\ window.start <= lastSample /\ lastSample <= now
        /\ window.start = 0 => lastSample = 0
        /\ On /\ pc = "run" => /\ lastSample > 0 => now - lastSample < cfg.sample
                               /\ lastSample - window.start < cfg.report
        /\ \A i \in 1 .. Len(reports) : reports[i].ms < 2 * cfg.report + MaxTurn

CpuWindow(w) ==
    /\ w.cpuN \in Nat /\ w.cpuSum \in Nat /\ w.cpuMax \in 0 .. Full
    /\ w.cpuSum <= w.cpuN * w.cpuMax

(* The job has not used more since cpu.stat was read than the processors   *)
(* gave since the last sample; the two are the same as long as it can be   *)
(* read.                                                                   *)
CpuInv ==
    {"unread", "clock"} \cap faults = {} =>
        /\ usage \in Nat /\ lastUsage \in Nat /\ lastUsage <= usage
        /\ baseline \in BOOLEAN
        /\ baseline => /\ v2
                       /\ lastSample > 0
                       /\ usage - lastUsage <= (now - lastSample) * Ncpus
        /\ CpuWindow(window)
        /\ \A i \in 1 .. Len(reports) :
               reports[i].cpu <= reports[i].cpuMax /\ reports[i].cpuMax <= Full

IInv == BaseInv /\ TimeInv /\ CpuInv
-----------------------------------------------------------------------------
(***************************************************************************)
(* Arithmetic.                                                             *)
(***************************************************************************)
LEMMA TimesMonotone ==
    ASSUME NEW a \in Int, NEW b \in Int, NEW n \in Nat, a <= b
    PROVE  n * a <= n * b /\ n * a \in Int /\ n * b \in Int
  OBVIOUS

LEMMA Difference ==
    ASSUME NEW a \in Nat, NEW b \in Nat, b <= a
    PROVE  a - b \in Nat /\ a - a = 0 /\ a <= a
  OBVIOUS

(* A share is not more than the whole (cpu_percent).                       *)
LEMMA ShareIsPart ==
    ASSUME NEW x \in Nat, NEW y \in Nat \ {0}, x <= y
    PROVE  (Full * x) \div y \in 0 .. Full
  <1> DEFINE q == (Full * x) \div y
  <1>1. q \in Int /\ y * q <= Full * x /\ Full * x < y * q + y BY DEF Full
  <1> HIDE DEF q
  <1>2. Full * x <= Full * y BY DEF Full
  <1>3. q <= Full
    <2> SUFFICES ASSUME q >= Full + 1 PROVE FALSE BY <1>1 DEF Full
    <2>1. y * (Full + 1) <= y * q BY <1>1, TimesMonotone DEF Full
    <2>2. y * (Full + 1) = Full * y + y BY DEF Full
    <2> QED BY <1>1, <1>2, <2>1, <2>2 DEF Full
  <1>4. q >= 0
    <2> SUFFICES ASSUME q <= -1 PROVE FALSE BY <1>1
    <2>1. y * q <= y * (-1) BY <1>1, TimesMonotone
    <2>2. y * (-1) = -y OBVIOUS
    <2> QED BY <1>1, <2>1, <2>2 DEF Full
  <1> QED BY <1>1, <1>3, <1>4 DEF q, Full

(* A mean is not more than the largest (llround).                          *)
LEMMA MeanIsPart ==
    ASSUME NEW sum \in Nat, NEW n \in Nat \ {0}, NEW max \in Nat, sum <= n * max
    PROVE  (2 * sum + n) \div (2 * n) <= max
  <1> DEFINE q == (2 * sum + n) \div (2 * n)
  <1>1. q \in Int /\ (2 * n) * q <= 2 * sum + n
    <2>1. 2 * n \in Nat \ {0} /\ 2 * sum + n \in Nat OBVIOUS
    <2> DEFINE a == 2 * sum + n
               b == 2 * n
    <2> HIDE DEF a, b
    <2>2. a \div b \in Int /\ b * (a \div b) <= a BY <2>1 DEF a, b
    <2> QED BY <2>2 DEF a, b
  <1> HIDE DEF q
  <1>2. q <= max
    <2> SUFFICES ASSUME q >= max + 1 PROVE FALSE BY <1>1
    <2>1. (2 * n) * (max + 1) <= (2 * n) * q BY <1>1, TimesMonotone
    <2>2. (2 * n) * (max + 1) = 2 * (n * max) + 2 * n OBVIOUS
    <2>3. n * max \in Nat OBVIOUS
    <2> QED BY <1>1, <2>1, <2>2, <2>3
  <1> QED BY <1>2 DEF q
-----------------------------------------------------------------------------
(***************************************************************************)
(* Windows and reports.                                                    *)
(***************************************************************************)

(* A sample changes what is in a window, not when it began.                *)
LEMMA AddKeepsStart == ASSUME NEW w, NEW s PROVE Add(w, s).start = w.start
  BY DEF Add

LEMMA AddCpu ==
    ASSUME NEW w, NEW s, CpuWindow(w), s.cpu \in {None} \cup 0 .. Full
    PROVE  CpuWindow(Add(w, s))
  <1>1. CASE ~AnyValue(s) BY <1>1 DEF Add
  <1>2. CASE AnyValue(s)
    <2> DEFINE a == Add(w, s)
    <2>1. /\ a.cpuN = One(w.cpuN, s.cpu) /\ a.cpuSum = Sum(w.cpuSum, s.cpu)
          /\ a.cpuMax = Larger(w.cpuMax, s.cpu)
      BY <1>2 DEF Add
    <2> HIDE DEF a
    <2>2. CASE s.cpu = None
      <3>1. a.cpuN = w.cpuN /\ a.cpuSum = w.cpuSum BY <2>1, <2>2 DEF One, Sum
      <3>2. a.cpuMax = w.cpuMax BY <2>1, <2>2 DEF Larger, None, CpuWindow
      <3> QED BY <3>1, <3>2 DEF CpuWindow, a
    <2>3. CASE s.cpu # None
      <3>1. a.cpuN = w.cpuN + 1 /\ a.cpuSum = w.cpuSum + s.cpu BY <2>1, <2>3 DEF One, Sum
      <3>2. a.cpuMax \in 0 .. Full /\ a.cpuMax >= w.cpuMax /\ a.cpuMax >= s.cpu
        BY <2>1, <2>3 DEF Larger, CpuWindow, Full, None
      <3>3. s.cpu \in Nat /\ w.cpuMax \in Nat /\ a.cpuMax \in Nat /\ w.cpuN \in Nat
            /\ w.cpuSum \in Nat
        BY <2>3, <3>2 DEF CpuWindow, Full, None
      <3>4. w.cpuN * w.cpuMax <= w.cpuN * a.cpuMax BY <3>2, <3>3, TimesMonotone
      <3>5. (w.cpuN + 1) * a.cpuMax = w.cpuN * a.cpuMax + a.cpuMax BY <3>3
      <3>6. w.cpuN * w.cpuMax \in Nat /\ w.cpuN * a.cpuMax \in Nat BY <3>3
      <3>7. w.cpuSum <= w.cpuN * w.cpuMax BY DEF CpuWindow
      <3>8. a.cpuSum <= a.cpuN * a.cpuMax BY <3>1, <3>2, <3>3, <3>4, <3>5, <3>6, <3>7
      <3> QED BY <3>1, <3>2, <3>3, <3>8 DEF CpuWindow, a
    <2> QED BY <2>2, <2>3
  <1> QED BY <1>1, <1>2

LEMMA EmptyWindow ==
    ASSUME NEW t PROVE Empty(t).start = t /\ Empty(t).samples = 0 /\ CpuWindow(Empty(t))
  BY DEF Empty, CpuWindow, Full

(* What a report says of a window (send_aggregated_metrics).               *)
LEMMA ReportCpu ==
    ASSUME NEW w, NEW t, CpuWindow(w)
    PROVE  Report(w, t).cpu <= Report(w, t).cpuMax /\ Report(w, t).cpuMax <= Full
  <1> DEFINE r == Report(w, t)
  <1>1. r.cpu = Mean(w.cpuSum, w.cpuN) /\ r.cpuMax = Seen(w.cpuN, w.cpuMax) BY DEF Report
  <1> HIDE DEF r
  <1>2. CASE w.cpuN = 0 BY <1>1, <1>2 DEF Mean, Seen, None, Full, r
  <1>3. CASE w.cpuN # 0
    <2>1. r.cpu = (2 * w.cpuSum + w.cpuN) \div (2 * w.cpuN) /\ r.cpuMax = w.cpuMax
      BY <1>1, <1>3 DEF Mean, Seen
    <2>2. /\ w.cpuSum \in Nat /\ w.cpuN \in Nat \ {0} /\ w.cpuMax \in Nat
          /\ w.cpuMax <= Full /\ w.cpuSum <= w.cpuN * w.cpuMax
      BY <1>3 DEF CpuWindow, Full
    <2> QED BY <2>1, <2>2, MeanIsPart DEF r
  <1> QED BY <1>2, <1>3

LEMMA ReportMs == ASSUME NEW w, NEW t PROVE Report(w, t).ms = Larger(0, t - w.start)
  BY DEF Report

(* flush_window starts the next window or keeps this one.                  *)
LEMMA FlushOutcome ==
    ASSUME NEW w, NEW t, NEW sent, FlushWindow(w, t, sent)
    PROVE  /\ window' = Empty(t) \/ (window' = w /\ ~sent)
           /\ reports' = reports \/ reports' = Append(reports, Report(w, t))
  <1>1. CASE w.samples = 0 BY <1>1 DEF FlushWindow
  <1>2. CASE w.samples # 0 /\ sent BY <1>2 DEF FlushWindow
  <1>3. CASE w.samples # 0 /\ ~sent BY <1>3 DEF FlushWindow
  <1> QED BY <1>1, <1>2, <1>3

LEMMA ReportsGrow ==
    ASSUME NEW S, reports \in Seq(S), NEW r, reports' = Append(reports, r)
    PROVE  /\ \E T : reports' \in Seq(T)
           /\ \A i \in 1 .. Len(reports') :
                reports'[i] = r \/ (i \in 1 .. Len(reports) /\ reports'[i] = reports[i])
  <1> DEFINE T == S \cup {r}
  <1>1. reports \in Seq(T) BY SeqMonotonic
  <1>2. /\ Append(reports, r) \in Seq(T) /\ Len(Append(reports, r)) = Len(reports) + 1
        /\ Len(reports) \in Nat
        /\ \A i \in 1 .. Len(reports) : Append(reports, r)[i] = reports[i]
        /\ Append(reports, r)[Len(reports) + 1] = r
    BY <1>1, AppendProperties, LenProperties
  <1>3. reports' \in Seq(T) /\ Len(reports') = Len(reports) + 1 BY <1>2
  <1>4. ASSUME NEW i \in 1 .. Len(reports')
        PROVE  reports'[i] = r \/ (i \in 1 .. Len(reports) /\ reports'[i] = reports[i])
    <2>1. i \in 1 .. Len(reports) \/ i = Len(reports) + 1 BY <1>2, <1>3
    <2> QED BY <1>2, <2>1
  <1> QED BY <1>3, <1>4
-----------------------------------------------------------------------------
(***************************************************************************)
(* Turns.  A turn samples or it does not; either way Porter may end.       *)
(***************************************************************************)

(* What a turn with a sample does to the window and the reports: w is the  *)
(* window with the sample, which is written, kept or thrown away.          *)
Sampled(fault, s, w, t) ==
    /\ On /\ fault \in {"none", "unread", "unsent"}
    /\ (fault = "none" /\ faults' = faults) \/ faults' = faults \cup {fault}
    /\ w = Add(Started(t), s)
    /\ s.cpu = IF v2 /\ fault # "unread" THEN CpuPercent(t, usage') ELSE None
    /\ SampleTaken(t, usage', fault # "unread")
    /\ \/ window' = Empty(t)
       \/ window' = w /\ (pc' # "run" \/ ~Ready(w, t))
    /\ reports' = reports \/ reports' = Append(reports, Report(w, t))

LEMMA TurnOutcome ==
    ASSUME NEW d \in 1 .. MaxTurn, Turn(d)
    PROVE  /\ now' = now + d /\ pc = "run" /\ UNCHANGED <<cfg, v2>>
           /\ \E u \in 0 .. d * Ncpus : usage' = usage + u
           /\ \/ /\ UNCHANGED <<state, reports, faults>>
                 /\ \/ ~On \/ (lastSample # 0 /\ now' - lastSample < cfg.sample)
                    \/ pc' # "run"
              \/ \E fault, s, w : Sampled(fault, s, w, now')
  <1>1. now' = now + d /\ pc = "run" /\ UNCHANGED <<cfg, v2>> BY DEF Turn
  <1>2. \E u \in 0 .. d * Ncpus : usage' = usage + u BY DEF Turn
  <1>3. ASSUME MaybeSend(now', usage')
        PROVE  \/ /\ UNCHANGED <<state, reports, faults>>
                  /\ ~On \/ (lastSample # 0 /\ now' - lastSample < cfg.sample)
               \/ \E fault, s, w : Sampled(fault, s, w, now')
    <2>1. CASE ~On \/ (lastSample # 0 /\ now' - lastSample < cfg.sample)
      BY <1>3, <2>1 DEF MaybeSend
    <2>2. CASE ~(~On \/ (lastSample # 0 /\ now' - lastSample < cfg.sample))
      <3>1. PICK fault \in {"none", "unread", "unsent"}, m \in Memory, f \in GpuReadings :
              LET s == Sample(now', usage', fault # "unread", m, f)
                  w == Add(Started(now'), s)
              IN  /\ IF fault = "none" THEN UNCHANGED faults ELSE Happens(fault)
                  /\ fault = "unsent" => Ready(w, now') /\ w.samples > 0
                  /\ SampleTaken(now', usage', fault # "unread")
                  /\ taken' = IF AnyValue(s) THEN taken + 1 ELSE taken
                  /\ IF Ready(w, now') THEN FlushWindow(w, now', fault # "unsent")
                     ELSE window' = w /\ UNCHANGED reports
                  /\ pc' = IF fault = "unsent" THEN "done" ELSE pc
        BY <1>3, <2>2 DEF MaybeSend
      <3> DEFINE s == Sample(now', usage', fault # "unread", m, f)
                 w == Add(Started(now'), s)
      <3>2. s.cpu = IF v2 /\ fault # "unread" THEN CpuPercent(now', usage') ELSE None
        BY DEF Sample
      <3>3. (fault = "none" /\ faults' = faults) \/ faults' = faults \cup {fault}
        BY <3>1 DEF Happens
      <3> HIDE DEF s
      <3>4. /\ IF Ready(w, now') THEN FlushWindow(w, now', fault # "unsent")
               ELSE window' = w /\ UNCHANGED reports
            /\ SampleTaken(now', usage', fault # "unread")
            /\ pc' = IF fault = "unsent" THEN "done" ELSE pc
        BY <3>1 DEF s
      <3> HIDE DEF w
      <3>5. /\ window' = Empty(now') \/ (window' = w /\ (pc' # "run" \/ ~Ready(w, now')))
            /\ reports' = reports \/ reports' = Append(reports, Report(w, now'))
        BY <3>4, FlushOutcome
      <3>6. Sampled(fault, s, w, now') BY <2>2, <3>2, <3>3, <3>4, <3>5 DEF Sampled, w
      <3> QED BY <3>6
    <2> QED BY <2>1, <2>2
  <1>4. ASSUME Flush(now', usage')
        PROVE  \/ UNCHANGED <<state, reports, faults>> /\ pc' # "run"
               \/ \E fault, s, w : Sampled(fault, s, w, now')
    <2>1. CASE ~On BY <1>4, <2>1 DEF Flush
    <2>2. CASE On
      <3>1. PICK fault \in {"none", "unread"}, m \in Memory, f \in GpuReadings :
              LET s == Sample(now', usage', fault = "none", m, f)
              IN  /\ IF fault = "none" THEN UNCHANGED faults ELSE Happens(fault)
                  /\ SampleTaken(now', usage', fault = "none")
                  /\ taken' = IF AnyValue(s) THEN taken + 1 ELSE taken
                  /\ FlushWindow(Add(Started(now'), s), now', TRUE)
        BY <1>4, <2>2 DEF Flush
      <3> DEFINE s == Sample(now', usage', fault = "none", m, f)
                 w == Add(Started(now'), s)
      <3>2. s.cpu = IF v2 /\ fault # "unread" THEN CpuPercent(now', usage') ELSE None
        BY DEF Sample
      <3>3. (fault = "none" /\ faults' = faults) \/ faults' = faults \cup {fault}
        BY <3>1 DEF Happens
      <3>4. FlushWindow(w, now', TRUE) /\ SampleTaken(now', usage', fault = "none") BY <3>1
      <3>40. (fault = "none") = (fault # "unread") OBVIOUS
      <3>41. SampleTaken(now', usage', fault # "unread") BY <3>4, <3>40
      <3> HIDE DEF s, w
      <3>5. /\ window' = Empty(now')
            /\ reports' = reports \/ reports' = Append(reports, Report(w, now'))
        BY <3>4, FlushOutcome
      <3>6. Sampled(fault, s, w, now') BY <2>2, <3>2, <3>3, <3>41, <3>5 DEF Sampled, w
      <3> QED BY <3>6
    <2> QED BY <2>1, <2>2
  <1>5. MaybeSend(now', usage') \/ Flush(now', usage') BY DEF Turn
  <1> QED BY <1>1, <1>2, <1>3, <1>4, <1>5

-----------------------------------------------------------------------------
(***************************************************************************)
(* The invariant.                                                          *)
(***************************************************************************)
LEMMA InitIInv == ASSUME MetricsAssumption, Init PROVE IInv
  <1>1. \A s, r, g : Config(s, r, g) = [sample |-> IF r > 0 /\ s > r THEN r ELSE s,
                                        report |-> r, gpu |-> g]
    BY DEF Config
  <1>2. /\ cfg.sample \in Int /\ cfg.report \in Int
        /\ cfg.report > 0 => cfg.sample <= cfg.report
    BY <1>1 DEF Init, MetricsAssumption
  <1>3. window.start = 0 /\ CpuWindow(window) BY EmptyWindow DEF Init
  <1>4. reports \in Seq({}) /\ Len(reports) = 0 BY EmptySeq DEF Init
  <1>5. BaseInv BY <1>2, <1>3, <1>4 DEF BaseInv, Init
  <1>6. TimeInv BY <1>3, <1>4 DEF TimeInv, Init, On
  <1>7. CpuInv
    <2>1. usage = 0 /\ lastUsage = 0 /\ baseline = FALSE BY DEF Init
    <2>2. \A i \in 1 .. Len(reports) :
             reports[i].cpu <= reports[i].cpuMax /\ reports[i].cpuMax <= Full
      BY <1>4
    <2>3. usage \in Nat /\ lastUsage \in Nat /\ lastUsage <= usage BY <2>1
    <2>4. ~baseline /\ baseline \in BOOLEAN BY <2>1
    <2> QED BY <1>3, <2>2, <2>3, <2>4 DEF CpuInv
  <1> QED BY <1>5, <1>6, <1>7 DEF IInv

(* A window is begun by the first sample in it.                            *)
LEMMA StartOf ==
    ASSUME NEW s, NEW t
    PROVE  Add(Started(t), s).start = IF window.start = 0 THEN t ELSE window.start
  BY AddKeepsStart, EmptyWindow DEF Started

LEMMA TurnBase ==
    ASSUME MetricsAssumption, IInv, NEW d \in 1 .. MaxTurn, Turn(d)
    PROVE  BaseInv'
  <1>1. now' \in Nat \ {0} /\ UNCHANGED cfg
    BY TurnOutcome DEF MetricsAssumption, IInv, BaseInv
  <1>2. CASE UNCHANGED <<state, reports, faults>>
    BY <1>1, <1>2 DEF IInv, BaseInv, state
  <1>3. ASSUME NEW fault, NEW s, NEW w, Sampled(fault, s, w, now')
        PROVE  BaseInv'
    <2>1. lastSample' = now' BY <1>3 DEF Sampled, SampleTaken
    <2>2. w.start \in Nat BY <1>1, <1>3, StartOf DEF Sampled, IInv, BaseInv
    <2>3. window'.start \in Nat BY <1>1, <1>3, <2>2, EmptyWindow DEF Sampled
    <2>4. \E S : reports' \in Seq(S)
      <3>1. PICK S : reports \in Seq(S) BY DEF IInv, BaseInv
      <3>2. CASE reports' = reports BY <3>1, <3>2
      <3>3. CASE reports' = Append(reports, Report(w, now')) BY <3>1, <3>3, ReportsGrow
      <3> QED BY <1>3, <3>2, <3>3 DEF Sampled
    <2> QED BY <1>1, <2>1, <2>3, <2>4 DEF IInv, BaseInv
  <1> QED BY <1>2, <1>3, TurnOutcome

(* What holds of every report holds of the reports of the next state if it *)
(* holds of the one that is written.                                       *)
LEMMA ReportsAfter ==
    ASSUME BaseInv, NEW fault, NEW s, NEW w, NEW t, Sampled(fault, s, w, t)
    PROVE  \A i \in 1 .. Len(reports') :
               \/ reports'[i] = Report(w, t)
               \/ i \in 1 .. Len(reports) /\ reports'[i] = reports[i]
  <1>1. PICK S : reports \in Seq(S) BY DEF BaseInv
  <1>2. CASE reports' = reports BY <1>2
  <1>3. CASE reports' = Append(reports, Report(w, t)) BY <1>1, <1>3, ReportsGrow
  <1> QED BY <1>2, <1>3 DEF Sampled

LEMMA TurnTime ==
    ASSUME MetricsAssumption, IInv, NEW d \in 1 .. MaxTurn, Turn(d)
    PROVE  TimeInv'
  <1> SUFFICES ASSUME "clock" \notin faults' PROVE TimeInv' BY DEF TimeInv
  <1>1. /\ now' = now + d /\ pc = "run" /\ cfg' = cfg /\ (On' <=> On)
        /\ d \in Nat \ {0} /\ d <= MaxTurn /\ MaxTurn \in Nat
    BY TurnOutcome DEF On, MetricsAssumption
  <1>2. CASE /\ UNCHANGED <<state, reports, faults>>
             /\ \/ ~On \/ (lastSample # 0 /\ now' - lastSample < cfg.sample)
                \/ pc' # "run"
    <2>1. UNCHANGED <<lastSample, window, reports, faults>> BY <1>2 DEF state
    <2>2. TimeInv /\ now \in Nat /\ lastSample \in Nat /\ "clock" \notin faults
      BY <2>1 DEF IInv, BaseInv
    <2> QED BY <1>1, <1>2, <2>1, <2>2 DEF TimeInv
  <1>3. ASSUME NEW fault, NEW s, NEW w, Sampled(fault, s, w, now')
        PROVE  TimeInv'
    <2>1. "clock" \notin faults BY <1>3 DEF Sampled
    <2>2. /\ now \in Nat \ {0} /\ lastSample \in Nat /\ window.start \in Nat
          /\ cfg.sample \in Int /\ cfg.report \in Int /\ cfg.sample > 0 /\ cfg.report > 0
          /\ cfg.sample <= cfg.report
      BY <1>3 DEF IInv, BaseInv, Sampled, On
    <2>3. /\ window.start <= lastSample /\ lastSample <= now
          /\ lastSample > 0 => now - lastSample < cfg.sample
          /\ lastSample - window.start < cfg.report
          /\ \A i \in 1 .. Len(reports) : reports[i].ms < 2 * cfg.report + MaxTurn
      BY <1>1, <1>3, <2>1 DEF IInv, TimeInv, Sampled
    <2>4. w.start = IF window.start = 0 THEN now' ELSE window.start
      BY <1>3, StartOf DEF Sampled
    <2>5. now' - w.start < 2 * cfg.report + MaxTurn /\ w.start \in Nat \ {0} /\ w.start <= now'
      <3>1. CASE window.start = 0 BY <1>1, <2>2, <2>4, <3>1
      <3>2. CASE window.start # 0
        <4>1. w.start = window.start BY <2>4, <3>2
        <4>2. w.start \in Nat \ {0} /\ w.start <= now' BY <1>1, <2>2, <2>3, <3>2, <4>1
        <4>3. now' - w.start < 2 * cfg.report + MaxTurn
          BY <1>1, <2>2, <2>3, <4>1, <4>2
        <4> QED BY <4>2, <4>3
      <3> QED BY <3>1, <3>2
    <2>6. lastSample' = now' BY <1>3 DEF Sampled, SampleTaken
    <2>7. /\ window'.start <= now' /\ window'.start # 0
          /\ pc' = "run" => now' - window'.start < cfg.report
      <3>1. CASE window' = Empty(now') BY <1>1, <2>2, <3>1, EmptyWindow
      <3>2. CASE window' = w /\ (pc' # "run" \/ ~Ready(w, now'))
        BY <1>1, <2>2, <2>5, <3>2 DEF Ready
      <3> QED BY <1>3, <3>1, <3>2 DEF Sampled
    <2>8. ASSUME NEW i \in 1 .. Len(reports')
          PROVE  reports'[i].ms < 2 * cfg.report + MaxTurn
      <3>1. CASE reports'[i] = Report(w, now')
        BY <1>1, <2>2, <2>5, <3>1, ReportMs DEF Larger
      <3>2. CASE i \in 1 .. Len(reports) /\ reports'[i] = reports[i] BY <2>3, <3>2
      <3> QED BY <1>3, <3>1, <3>2, ReportsAfter DEF IInv
    <2> QED BY <1>1, <2>2, <2>6, <2>7, <2>8 DEF TimeInv
  <1> QED BY <1>2, <1>3, TurnOutcome

LEMMA TurnCpu ==
    ASSUME MetricsAssumption, IInv, NEW d \in 1 .. MaxTurn, Turn(d)
    PROVE  CpuInv'
  <1> SUFFICES ASSUME {"unread", "clock"} \cap faults' = {} PROVE CpuInv' BY DEF CpuInv
  <1>1. PICK u : u \in 0 .. d * Ncpus /\ usage' = usage + u BY TurnOutcome
  <1>2. /\ now' = now + d /\ v2' = v2 /\ d \in Nat \ {0} /\ Ncpus \in Nat \ {0}
        /\ now \in Nat \ {0} /\ lastSample \in Nat
    BY TurnOutcome DEF MetricsAssumption, IInv, BaseInv
  <1>3. "clock" \notin faults /\ "unread" \notin faults
    <2>1. faults' = faults \/ \E fault : faults' = faults \cup {fault}
      BY TurnOutcome DEF Sampled
    <2> QED BY <2>1
  <1>4. /\ usage \in Nat /\ lastUsage \in Nat /\ lastUsage <= usage /\ baseline \in BOOLEAN
        /\ baseline => v2 /\ lastSample > 0 /\ usage - lastUsage <= (now - lastSample) * Ncpus
        /\ CpuWindow(window)
        /\ \A i \in 1 .. Len(reports) :
               reports[i].cpu <= reports[i].cpuMax /\ reports[i].cpuMax <= Full
    BY <1>3 DEF IInv, CpuInv
  <1>5. lastSample <= now BY <1>3 DEF IInv, TimeInv
  <1>6. /\ usage' \in Nat /\ lastUsage <= usage'
        /\ baseline => usage' - lastUsage <= (now' - lastSample) * Ncpus
    <2>1. d * Ncpus \in Nat BY <1>2
    <2>2. u \in Nat /\ u <= d * Ncpus BY <1>1, <2>1
    <2>3. (now' - lastSample) * Ncpus = (now - lastSample) * Ncpus + d * Ncpus
      <3> DEFINE a == now - lastSample
      <3>1. a \in Int /\ now' - lastSample = a + d BY <1>2
      <3> HIDE DEF a
      <3>2. (a + d) * Ncpus = a * Ncpus + d * Ncpus BY <1>2, <3>1
      <3> QED BY <3>1, <3>2 DEF a
    <2>4. (now - lastSample) * Ncpus \in Int BY <1>2
    <2> QED BY <1>1, <1>4, <2>1, <2>2, <2>3, <2>4
  <1>7. CASE UNCHANGED <<state, reports, faults>>
    <2>1. UNCHANGED <<lastUsage, lastSample, baseline, window, reports>> BY <1>7 DEF state
    <2> QED BY <1>2, <1>4, <1>6, <2>1 DEF CpuInv
  <1>8. ASSUME NEW fault, NEW s, NEW w, Sampled(fault, s, w, now')
        PROVE  CpuInv'
    <2>1. fault # "unread" BY <1>8 DEF Sampled
    <2>2. s.cpu \in {None} \cup 0 .. Full
      <3>1. s.cpu = None \/ (v2 /\ s.cpu = CpuPercent(now', usage')) BY <1>8 DEF Sampled
      <3>2. CASE /\ baseline
                 /\ s.cpu = (Full * (usage' - lastUsage)) \div ((now' - lastSample) * Ncpus)
        <4> DEFINE x == usage' - lastUsage
                   y == (now' - lastSample) * Ncpus
        <4>1. x \in Nat /\ x <= y
          <5>1. x \in Nat
            <6>1. lastUsage \in Nat BY <1>4
            <6>2. usage' \in Nat /\ lastUsage <= usage' BY <1>6
            <6> QED BY <6>1, <6>2, Difference
          <5>2. x <= y BY <1>6, <3>2
          <5> QED BY <5>1, <5>2
        <4>2. y \in Nat \ {0}
          <5>1. now' - lastSample \in Nat \ {0} BY <1>2, <1>5
          <5> QED BY <1>2, <5>1
        <4>3. s.cpu = (Full * x) \div y BY <3>2
        <4> HIDE DEF x, y
        <4> QED BY <4>1, <4>2, <4>3, ShareIsPart
      <3> QED BY <3>1, <3>2 DEF CpuPercent
    <2>3. CpuWindow(w)
      <3>1. CpuWindow(Started(now')) BY <1>4, EmptyWindow DEF Started
      <3> QED BY <1>8, <2>2, <3>1, AddCpu DEF Sampled
    <2>4. CpuWindow(window') BY <1>8, <2>3, EmptyWindow DEF Sampled
    <2>5. ASSUME NEW i \in 1 .. Len(reports')
          PROVE  reports'[i].cpu <= reports'[i].cpuMax /\ reports'[i].cpuMax <= Full
      <3>1. CASE reports'[i] = Report(w, now') BY <2>3, <3>1, ReportCpu
      <3>2. CASE i \in 1 .. Len(reports) /\ reports'[i] = reports[i] BY <1>4, <3>2
      <3> QED BY <1>8, <3>1, <3>2, ReportsAfter DEF IInv
    <2>6. /\ lastSample' = now'
          /\ lastUsage' = IF v2 THEN usage' ELSE lastUsage
          /\ baseline' = (baseline \/ v2)
      BY <1>8, <2>1 DEF Sampled, SampleTaken
    <2>7. /\ lastUsage' \in Nat /\ lastUsage' <= usage' /\ baseline' \in BOOLEAN
          /\ baseline' => /\ v2' /\ lastSample' > 0
                          /\ usage' - lastUsage' <= (now' - lastSample') * Ncpus
      <3>1. CASE v2
        <4>1. lastUsage' = usage' /\ baseline' = TRUE BY <2>6, <3>1
        <4>2. (now' - lastSample') * Ncpus = 0 BY <1>2, <2>6
        <4>3. usage' - lastUsage' = 0 /\ lastUsage' <= usage'
          <5>1. usage' \in Nat /\ usage' - usage' = 0 /\ usage' <= usage'
            BY <1>4, <1>6, Difference
          <5> QED BY <4>1, <5>1
        <4>4. v2' /\ lastSample' > 0 BY <1>2, <2>6, <3>1
        <4> QED BY <1>6, <4>1, <4>2, <4>3, <4>4
      <3>2. CASE ~v2
        <4>1. lastUsage' = lastUsage /\ baseline' = FALSE BY <1>4, <2>6, <3>2
        <4> QED BY <1>4, <1>6, <4>1
      <3> QED BY <3>1, <3>2
    <2>8. CpuWindow(window)' BY <2>4 DEF CpuWindow
    <2> QED BY <1>6, <2>5, <2>7, <2>8 DEF CpuInv
  <1> QED BY <1>7, <1>8, TurnOutcome

LEMMA NextIInv == ASSUME MetricsAssumption, IInv, [Next]_vars PROVE IInv'
  <1>1. ASSUME NEW d \in 1 .. MaxTurn, Turn(d) PROVE IInv'
    BY <1>1, TurnBase, TurnTime, TurnCpu DEF IInv
  <1>2. CASE SetClock
    <2>1. /\ "clock" \in faults' /\ now' \in Nat \ {0}
          /\ UNCHANGED <<cfg, lastSample, window, reports>>
      BY <1>2 DEF SetClock, Happens, state, IInv, BaseInv
    <2> QED BY <2>1 DEF IInv, BaseInv, TimeInv, CpuInv
  <1>3. CASE UNCHANGED vars
    <2>1. UNCHANGED <<pc, cfg, v2, usage, now, lastUsage, lastSample, baseline, window,
                      reports, faults>>
      BY <1>3 DEF vars, state
    <2>2. BaseInv' BY <2>1 DEF IInv, BaseInv
    <2>3. TimeInv' BY <2>1 DEF IInv, TimeInv, On
    <2>4. CpuInv' BY <2>1 DEF IInv, CpuInv, CpuWindow
    <2> QED BY <2>2, <2>3, <2>4 DEF IInv
  <1> QED BY <1>1, <1>2, <1>3 DEF Next

LEMMA Invariance == Spec => []IInv
  <1>1. Init => IInv BY InitIInv, MetricsAssumption
  <1>2. IInv /\ [Next]_vars => IInv' BY NextIInv, MetricsAssumption
  <1> QED BY <1>1, <1>2, PTL DEF Spec

(* No report covers more than two report periods and a turn of the loop,   *)
(* whatever periods the job's environment asks for, as long as the clock   *)
(* is not set back (maybe_send, flush_window).                             *)
THEOREM ReportsInTime == Spec => []ReportsOnTime
  <1>1. IInv => ReportsOnTime
    <2> SUFFICES ASSUME IInv, "clock" \notin faults
                 PROVE  /\ \A i \in DOMAIN reports : reports[i].ms < 2 * cfg.report + MaxTurn
                        /\ On /\ pc = "run" /\ window.start > 0 =>
                               now - window.start < 2 * cfg.report + MaxTurn
      BY DEF ReportsOnTime
    <2>1. PICK S : reports \in Seq(S) BY DEF IInv, BaseInv
    <2>2. DOMAIN reports = 1 .. Len(reports) BY <2>1, LenProperties
    <2>3. MaxTurn \in Nat BY MetricsAssumption DEF MetricsAssumption
    <2>4. ASSUME On, pc = "run", window.start > 0
          PROVE  now - window.start < 2 * cfg.report + MaxTurn
      BY <2>3, <2>4 DEF IInv, BaseInv, TimeInv, On
    <2> QED BY <2>2, <2>4 DEF IInv, TimeInv
  <1> QED BY <1>1, Invariance, PTL

(* No sample, mean or maximum says that the job used more than all the     *)
(* processors of the host, as long as cpu.stat can be read and the clock   *)
(* is not set back (take_sample, send_aggregated_metrics).                 *)
THEOREM CpuInCapacity == Spec => []CpuWithinCapacity
  <1>1. IInv => CpuWithinCapacity
    <2> SUFFICES ASSUME IInv, {"unread", "clock"} \cap faults = {}
                 PROVE  /\ window.cpuMax <= Full
                        /\ \A i \in DOMAIN reports :
                               reports[i].cpu <= reports[i].cpuMax /\ reports[i].cpuMax <= Full
      BY DEF CpuWithinCapacity
    <2>1. PICK S : reports \in Seq(S) BY DEF IInv, BaseInv
    <2>2. DOMAIN reports = 1 .. Len(reports) BY <2>1, LenProperties
    <2>3. window.cpuMax <= Full
      <3>1. window.cpuMax \in 0 .. Full BY DEF IInv, CpuInv, CpuWindow
      <3> QED BY <3>1 DEF Full
    <2> QED BY <2>2, <2>3 DEF IInv, CpuInv
  <1> QED BY <1>1, Invariance, PTL
-----------------------------------------------------------------------------
(***************************************************************************)
(* Every sample is in one report.  SamplesIn adds up a sequence of any     *)
(* length; what one more report adds to it is proved by induction on the   *)
(* length, with sets of numbers in the place of predicates.                *)
(***************************************************************************)
LEMMA NatLeast ==
    ASSUME NEW S \in SUBSET Nat, S # {}
    PROVE  \E n \in S : \A m \in S : n <= m
  <1>1. IsWellFoundedOn(OpToRel(<, Nat), Nat) BY NatLessThanWellFounded
  <1>2. PICK n \in S : \A m \in S : ~(<<m, n>> \in OpToRel(<, Nat)) BY <1>1, WFMin
  <1>3. \A m \in S : ~(m < n) BY <1>2 DEF OpToRel
  <1> QED BY <1>3

LEMMA NatSet ==
    ASSUME NEW S \in SUBSET Nat, 0 \in S, \A n \in S : n + 1 \in S
    PROVE  S = Nat
  <1> SUFFICES ASSUME Nat \ S # {} PROVE FALSE OBVIOUS
  <1>1. PICK n \in Nat \ S : \A m \in Nat \ S : n <= m BY NatLeast
  <1>2. n # 0 /\ n - 1 \in S BY <1>1
  <1> QED BY <1>1, <1>2

(* A sum of the samples of the first n reports, and of fewer.              *)
SumTo(r, n, f) == f = [i \in 0 .. n |-> IF i = 0 THEN 0 ELSE f[i - 1] + r[i].samples]

LEMMA SumGrows ==
    ASSUME NEW r, NEW n \in Nat, NEW f, SumTo(r, n, f)
    PROVE  \E g : SumTo(r, n + 1, g)
  <1> DEFINE g == [i \in 0 .. n + 1 |-> IF i = n + 1 THEN f[n] + r[n + 1].samples ELSE f[i]]
  <1>1. ASSUME NEW i \in 0 .. n + 1
        PROVE  g[i] = IF i = 0 THEN 0 ELSE g[i - 1] + r[i].samples
    <2>1. CASE i = n + 1
      <3>1. g[i] = f[n] + r[i].samples /\ g[i - 1] = f[n] /\ i # 0 BY <2>1
      <3> QED BY <3>1
    <2>2. CASE i # n + 1
      <3>1. i \in 0 .. n /\ g[i] = f[i] BY <2>2
      <3>2. f[i] = IF i = 0 THEN 0 ELSE f[i - 1] + r[i].samples BY <3>1 DEF SumTo
      <3>3. i # 0 => g[i - 1] = f[i - 1] BY <3>1
      <3> QED BY <3>1, <3>2, <3>3
    <2> QED BY <2>1, <2>2
  <1>2. g = [i \in 0 .. n + 1 |-> g[i]] OBVIOUS
  <1> HIDE DEF g
  <1>3. SumTo(r, n + 1, g) BY <1>1, <1>2 DEF SumTo
  <1> QED BY <1>3

LEMMA SumExists == ASSUME NEW r, NEW n \in Nat PROVE \E f : SumTo(r, n, f)
  <1> DEFINE S == {m \in Nat : \E f : SumTo(r, m, f)}
  <1>1. 0 \in S
    <2> DEFINE f == [i \in 0 .. 0 |-> 0]
    <2>1. SumTo(r, 0, f) BY DEF SumTo
    <2> QED BY <2>1
  <1>2. \A m \in S : m + 1 \in S BY SumGrows
  <1> HIDE DEF S
  <1>3. S = Nat
    <2>1. S \in SUBSET Nat BY DEF S
    <2> QED BY <1>1, <1>2, <2>1, NatSet
  <1> QED BY <1>3 DEF S

LEMMA SumStep ==
    ASSUME NEW r, NEW n \in Nat, NEW f, SumTo(r, n, f), NEW i \in 0 .. n
    PROVE  f[i] = IF i = 0 THEN 0 ELSE f[i - 1] + r[i].samples
  BY DEF SumTo

(* Two sequences of reports that begin with the same n have the same sums. *)
LEMMA SumUnique ==
    ASSUME NEW r, NEW s, NEW n \in Nat, NEW m \in Nat, NEW k \in Nat, k <= n, k <= m,
           \A i \in 1 .. k : r[i] = s[i],
           NEW f, SumTo(r, n, f), NEW g, SumTo(s, m, g)
    PROVE  f[k] = g[k]
  <1> DEFINE S == {i \in Nat : i <= k => f[i] = g[i]}
  <1>1. 0 \in S
    <2>1. 0 \in 0 .. n /\ 0 \in 0 .. m OBVIOUS
    <2>2. f[0] = 0 BY <2>1 DEF SumTo
    <2>3. g[0] = 0 BY <2>1 DEF SumTo
    <2> QED BY <2>2, <2>3
  <1>2. ASSUME NEW i \in S PROVE i + 1 \in S
    <2> SUFFICES ASSUME i + 1 <= k PROVE f[i + 1] = g[i + 1] BY <1>2
    <2>1. i \in Nat /\ f[i] = g[i] BY <1>2
    <2>2. f[i + 1] = f[i] + r[i + 1].samples
      <3>1. i + 1 \in 0 .. n /\ i + 1 # 0 /\ (i + 1) - 1 = i BY <2>1
      <3> QED BY <3>1, SumStep
    <2>3. g[i + 1] = g[i] + s[i + 1].samples
      <3>1. i + 1 \in 0 .. m /\ i + 1 # 0 /\ (i + 1) - 1 = i BY <2>1
      <3> QED BY <3>1, SumStep
    <2>4. r[i + 1] = s[i + 1] BY <2>1
    <2> QED BY <2>1, <2>2, <2>3, <2>4
  <1> HIDE DEF S
  <1>3. S = Nat
    <2>1. S \in SUBSET Nat BY DEF S
    <2> QED BY <1>1, <1>2, <2>1, NatSet
  <1> QED BY <1>3 DEF S

LEMMA SamplesInIs ==
    ASSUME NEW r, Len(r) \in Nat
    PROVE  \E f : SumTo(r, Len(r), f) /\ SamplesIn(r) = f[Len(r)]
  <1> DEFINE f == CHOOSE g : SumTo(r, Len(r), g)
  <1>1. SamplesIn(r) = f[Len(r)] BY Zenon DEF SamplesIn, SumTo
  <1>2. \E g : SumTo(r, Len(r), g) BY SumExists
  <1>3. SumTo(r, Len(r), f) BY <1>2, Zenon
  <1> HIDE DEF f
  <1> QED BY <1>1, <1>3

LEMMA NoSamples == SamplesIn(<<>>) = 0
  <1>1. Len(<<>>) = 0 OBVIOUS
  <1>2. PICK f : SumTo(<<>>, 0, f) /\ SamplesIn(<<>>) = f[0] BY <1>1, SamplesInIs
  <1> QED BY <1>2, SumStep

LEMMA OneMoreReport ==
    ASSUME NEW S, NEW r \in Seq(S), NEW x
    PROVE  SamplesIn(Append(r, x)) = SamplesIn(r) + x.samples
  <1> DEFINE n == Len(r)
             s == Append(r, x)
  <1>1. /\ n \in Nat /\ Len(s) = n + 1 /\ s[n + 1] = x
        /\ \A i \in 1 .. n : r[i] = s[i]
    <2> DEFINE T == S \cup {x}
    <2>1. r \in Seq(T) /\ x \in T BY SeqMonotonic
    <2> HIDE DEF T
    <2> QED BY <2>1, AppendProperties, LenProperties
  <1> HIDE DEF n, s
  <1>2. PICK f : SumTo(r, n, f) /\ SamplesIn(r) = f[n] BY <1>1, SamplesInIs DEF n
  <1>3. PICK g : SumTo(s, n + 1, g) /\ SamplesIn(s) = g[n + 1]
    <2>1. Len(s) \in Nat BY <1>1
    <2> QED BY <1>1, <2>1, SamplesInIs
  <1>4. g[n + 1] = g[n] + x.samples
    <2>1. n + 1 \in Nat /\ n + 1 \in 0 .. n + 1 /\ n + 1 # 0 /\ (n + 1) - 1 = n BY <1>1
    <2> QED BY <1>1, <1>3, <2>1, SumStep
  <1>5. f[n] = g[n]
    <2>1. n <= n /\ n <= n + 1 /\ n + 1 \in Nat BY <1>1
    <2>2. n \in 0 .. n BY <1>1
    <2> QED BY <1>1, <1>2, <1>3, <2>1, <2>2, SumUnique, SMTT(30)
  <1> QED BY <1>2, <1>3, <1>4, <1>5 DEF s

(* What a turn does to the samples: s is the sample, w the window with it. *)
Counted(s, w, t) ==
    /\ On /\ w = Add(Started(t), s)
    /\ taken' = IF AnyValue(s) THEN taken + 1 ELSE taken
    /\ \/ FlushWindow(w, t, TRUE)
       \/ window' = w /\ reports' = reports /\ (pc' = "done" => "unsent" \in faults')

(* The samples taken are those in the reports and those in the window.     *)
CountInv ==
    /\ window.start \in Nat /\ window.samples \in Nat /\ taken \in Int /\ Reported \in Nat
    /\ window.start = 0 \/ ~On => window.samples = 0
    /\ \E S : reports \in Seq(S)
    /\ EverySampleOnce

LEMMA TurnCounts ==
    ASSUME NEW d \in 1 .. MaxTurn, Turn(d)
    PROVE  /\ now' = now + d /\ pc = "run" /\ UNCHANGED cfg
           /\ faults \subseteq faults'
           /\ \/ /\ UNCHANGED <<window, reports, taken>>
                 /\ pc' = "run" \/ ~On
              \/ \E s, w : Counted(s, w, now')
  <1>1. now' = now + d /\ pc = "run" /\ UNCHANGED cfg BY DEF Turn
  <1>2. ASSUME MaybeSend(now', usage')
        PROVE  /\ faults \subseteq faults'
               /\ \/ UNCHANGED <<window, reports, taken>> /\ pc' = "run"
                  \/ \E s, w : Counted(s, w, now')
    <2>1. CASE ~On \/ (lastSample # 0 /\ now' - lastSample < cfg.sample)
      BY <1>1, <1>2, <2>1 DEF MaybeSend, state
    <2>2. CASE ~(~On \/ (lastSample # 0 /\ now' - lastSample < cfg.sample))
      <3>1. PICK fault \in {"none", "unread", "unsent"}, m \in Memory, f \in GpuReadings :
              LET s == Sample(now', usage', fault # "unread", m, f)
                  w == Add(Started(now'), s)
              IN  /\ IF fault = "none" THEN UNCHANGED faults ELSE Happens(fault)
                  /\ fault = "unsent" => Ready(w, now') /\ w.samples > 0
                  /\ SampleTaken(now', usage', fault # "unread")
                  /\ taken' = IF AnyValue(s) THEN taken + 1 ELSE taken
                  /\ IF Ready(w, now') THEN FlushWindow(w, now', fault # "unsent")
                     ELSE window' = w /\ UNCHANGED reports
                  /\ pc' = IF fault = "unsent" THEN "done" ELSE pc
        BY <1>2, <2>2 DEF MaybeSend
      <3> DEFINE s == Sample(now', usage', fault # "unread", m, f)
                 w == Add(Started(now'), s)
      <3> HIDE DEF s
      <3>2. /\ IF fault = "none" THEN UNCHANGED faults ELSE Happens(fault)
            /\ fault = "unsent" => Ready(w, now') /\ w.samples > 0
            /\ taken' = IF AnyValue(s) THEN taken + 1 ELSE taken
            /\ IF Ready(w, now') THEN FlushWindow(w, now', fault # "unsent")
               ELSE window' = w /\ UNCHANGED reports
            /\ pc' = IF fault = "unsent" THEN "done" ELSE pc
        BY <3>1 DEF s
      <3>3. w = Add(Started(now'), s) OBVIOUS
      <3> HIDE DEF w
      <3>4. faults \subseteq faults' /\ (fault # "none" => fault \in faults') BY <3>2 DEF Happens
      <3>5. CASE fault = "unsent"
        <4>1. FlushWindow(w, now', FALSE) /\ w.samples # 0
          <5>1. w.samples > 0 /\ (w.samples > 0 => w.samples # 0) BY <3>2, <3>5
          <5>2. (fault # "unsent") = FALSE BY <3>5
          <5> QED BY <3>2, <3>5, <5>1, <5>2
        <4>2. window' = w /\ reports' = reports BY <4>1 DEF FlushWindow
        <4>3. Counted(s, w, now') BY <2>2, <3>2, <3>3, <3>4, <3>5, <4>2 DEF Counted
        <4> QED BY <3>4, <4>3
      <3>6. CASE fault # "unsent"
        <4>1. pc' = "run" BY <1>1, <3>2, <3>6
        <4>2. (fault # "unsent") = TRUE BY <3>6
        <4>3. FlushWindow(w, now', TRUE) \/ (window' = w /\ reports' = reports) BY <3>2, <4>2
        <4>4. Counted(s, w, now') BY <2>2, <3>2, <3>3, <4>1, <4>3 DEF Counted
        <4> QED BY <3>4, <4>4
      <3> QED BY <3>5, <3>6
    <2> QED BY <2>1, <2>2
  <1>3. ASSUME Flush(now', usage')
        PROVE  /\ faults \subseteq faults'
               /\ \/ UNCHANGED <<window, reports, taken>> /\ ~On
                  \/ \E s, w : Counted(s, w, now')
    <2>1. CASE ~On BY <1>3, <2>1 DEF Flush, state
    <2>2. CASE On
      <3>1. PICK fault \in {"none", "unread"}, m \in Memory, f \in GpuReadings :
              LET s == Sample(now', usage', fault = "none", m, f)
              IN  /\ IF fault = "none" THEN UNCHANGED faults ELSE Happens(fault)
                  /\ SampleTaken(now', usage', fault = "none")
                  /\ taken' = IF AnyValue(s) THEN taken + 1 ELSE taken
                  /\ FlushWindow(Add(Started(now'), s), now', TRUE)
        BY <1>3, <2>2 DEF Flush
      <3> DEFINE s == Sample(now', usage', fault = "none", m, f)
      <3> HIDE DEF s
      <3>2. /\ IF fault = "none" THEN UNCHANGED faults ELSE Happens(fault)
            /\ taken' = IF AnyValue(s) THEN taken + 1 ELSE taken
            /\ FlushWindow(Add(Started(now'), s), now', TRUE)
        BY <3>1 DEF s
      <3>3. Counted(s, Add(Started(now'), s), now') BY <2>2, <3>2 DEF Counted
      <3>4. faults \subseteq faults' BY <3>2 DEF Happens
      <3> QED BY <3>3, <3>4
    <2> QED BY <2>1, <2>2
  <1>4. MaybeSend(now', usage') \/ Flush(now', usage') BY DEF Turn
  <1> QED BY <1>1, <1>2, <1>3, <1>4

LEMMA AddCounts ==
    ASSUME NEW w, NEW s
    PROVE  Add(w, s).samples = IF AnyValue(s) THEN w.samples + 1 ELSE w.samples
  BY DEF Add

LEMMA InitCountInv == Init => CountInv
  <1> SUFFICES ASSUME Init PROVE CountInv OBVIOUS
  <1>1. window.start = 0 /\ window.samples = 0 BY EmptyWindow DEF Init
  <1>2. reports = <<>> /\ taken = 0 /\ pc = "run" BY DEF Init
  <1>3. reports \in Seq({}) BY <1>2, EmptySeq
  <1>4. Reported = 0 BY <1>2, NoSamples DEF Reported
  <1>5. EverySampleOnce BY <1>1, <1>2, <1>4 DEF EverySampleOnce
  <1> QED BY <1>1, <1>2, <1>3, <1>4, <1>5 DEF CountInv

LEMMA CountedKeeps ==
    ASSUME CountInv, NEW s, NEW w, NEW t \in Nat \ {0}, Counted(s, w, t), UNCHANGED cfg
    PROVE  CountInv'
  <1>1. On' = On /\ On BY DEF On, Counted
  <1>2. PICK S : reports \in Seq(S) BY DEF CountInv
  <1>3. /\ w.samples \in Nat /\ w.start \in Nat \ {0} /\ taken' \in Int /\ Reported \in Nat
        /\ Reported + w.samples = taken'
    <2>1. Started(t).start \in Nat \ {0} /\ Started(t).samples = window.samples
      BY EmptyWindow DEF Started, CountInv
    <2>2. w.start \in Nat \ {0} BY <2>1, AddKeepsStart DEF Counted
    <2>3. w.samples = IF AnyValue(s) THEN window.samples + 1 ELSE window.samples
      BY <2>1, AddCounts DEF Counted
    <2>4. taken' = IF AnyValue(s) THEN taken + 1 ELSE taken BY DEF Counted
    <2>5. Reported + window.samples = taken /\ window.samples \in Nat /\ taken \in Int
      BY DEF CountInv, EverySampleOnce
    <2>6. Reported \in Nat BY DEF CountInv
    <2> QED BY <2>2, <2>3, <2>4, <2>5, <2>6
  <1>4. CASE window' = Empty(t) /\ reports' = reports /\ w.samples = 0
    <2>1. window'.start = t /\ window'.samples = 0 BY <1>4, EmptyWindow
    <2>2. Reported' = Reported BY <1>4 DEF Reported
    <2>3. EverySampleOnce' BY <1>3, <1>4, <2>1, <2>2 DEF EverySampleOnce
    <2> QED BY <1>1, <1>2, <1>3, <1>4, <2>1, <2>2, <2>3 DEF CountInv
  <1>5. CASE window' = Empty(t) /\ reports' = Append(reports, Report(w, t))
    <2>1. window'.start = t /\ window'.samples = 0 BY <1>5, EmptyWindow
    <2>2. Report(w, t).samples = w.samples BY DEF Report
    <2>3. Reported' = Reported + w.samples BY <1>2, <1>5, <2>2, OneMoreReport DEF Reported
    <2>4. EverySampleOnce' BY <1>3, <2>1, <2>3 DEF EverySampleOnce
    <2>5. \E T : reports' \in Seq(T) BY <1>2, <1>5, ReportsGrow
    <2> QED BY <1>1, <1>3, <2>1, <2>3, <2>4, <2>5 DEF CountInv
  <1>6. CASE window' = w /\ reports' = reports /\ (pc' = "done" => "unsent" \in faults')
    <2>1. Reported' = Reported BY <1>6 DEF Reported
    <2>2. EverySampleOnce' BY <1>3, <1>6, <2>1 DEF EverySampleOnce
    <2> QED BY <1>1, <1>2, <1>3, <1>6, <2>1, <2>2 DEF CountInv
  <1>7. FlushWindow(w, t, TRUE) =>
            \/ window' = Empty(t) /\ reports' = reports /\ w.samples = 0
            \/ window' = Empty(t) /\ reports' = Append(reports, Report(w, t))
    BY DEF FlushWindow
  <1> QED BY <1>4, <1>5, <1>6, <1>7 DEF Counted

LEMMA NextCountInv == ASSUME MetricsAssumption, IInv, CountInv, [Next]_vars PROVE CountInv'
  <1>1. ASSUME UNCHANGED <<cfg, window, reports, taken>>, faults \subseteq faults',
               pc' = "done" => pc = "done" \/ ~On
        PROVE  CountInv'
    <2>1. On' = On /\ Reported' = Reported BY <1>1 DEF On, Reported
    <2>2. EverySampleOnce' BY <1>1, <2>1 DEF CountInv, EverySampleOnce
    <2> QED BY <1>1, <2>1, <2>2 DEF CountInv
  <1>2. ASSUME NEW d \in 1 .. MaxTurn, Turn(d) PROVE CountInv'
    <2>1. now' \in Nat \ {0} BY <1>2, TurnCounts DEF MetricsAssumption, IInv, BaseInv
    <2>2. CASE UNCHANGED <<window, reports, taken>> /\ (pc' = "run" \/ ~On)
      BY <1>1, <1>2, <2>2, TurnCounts
    <2>3. ASSUME NEW s, NEW w, Counted(s, w, now') PROVE CountInv'
      BY <1>2, <2>1, <2>3, TurnCounts, CountedKeeps
    <2> QED BY <1>2, <2>2, <2>3, TurnCounts
  <1>3. CASE SetClock BY <1>1, <1>3 DEF SetClock, Happens, state
  <1>4. CASE UNCHANGED vars BY <1>1, <1>4 DEF vars, state
  <1> QED BY <1>2, <1>3, <1>4 DEF Next

(* Every sample that had a value is in exactly one report, the last        *)
(* partial window included, unless that could not be sent (maybe_send,     *)
(* flush_window, porter_metrics_flush).                                    *)
THEOREM SamplesReportedOnce == Spec => []EverySampleOnce
  <1>1. IInv /\ CountInv /\ [Next]_vars => CountInv' BY NextCountInv, MetricsAssumption
  <1>2. CountInv => EverySampleOnce BY DEF CountInv
  <1> QED BY <1>1, <1>2, InitCountInv, Invariance, PTL DEF Spec
=============================================================================
