---------------------------- MODULE UploadProofs ----------------------------
(***************************************************************************)
(* The upload, for every number of runs and commands: however late the     *)
(* target is, and wherever a run breaks off, no hook leads nowhere.        *)
(***************************************************************************)
EXTENDS Upload, SequenceTheorems, TLAPS

What == {"version", "product", "main", "preloader", "debugger", "patch",
         "payload", "keytest", "oem", "attach", "read", "call"}
Hook == {"payload", "keytest", "oem"}
Data == {"preloader", "debugger", "patch"}

Asking   == [op : {"getvar", "download", "oem"}, what : What]
Request_ == [n : Nat, asks : Asking]
Contents == Data \cup {"nothing"}
Target_  == [version : {"vision", "HACK"}, buffer : Contents,
             oem : Contents \cup {"hboot"}, keytest : Contents \cup {"hboot"},
             payload : Contents]

UploadTypeOK ==
  /\ requests \in Seq(Request_) /\ sent \in Nat
  /\ script \in -1 .. 12 /\ target \in Target_ /\ refused \in BOOLEAN

Plain == {"product", "main", "DATA", "OKAY", "FAIL", "success", "not found",
          "attach", "read", "block", "unknown"}
Text  == Plain \cup {"vision", "HACK"}

(* Nothing on its way says "HACK" unless it is true.                       *)
Telling == {p \in [to : Nat, says : Text] :
              p.says = "HACK" => target.version = "HACK"}
NoLies ==
  /\ outgoing \in Seq(Telling) /\ replies \in Seq(Telling)
  /\ client \in [until : {"ready", "one read", "silence"}, got : Seq(Telling), clean : BOOLEAN]
  /\ answer \in [to : Nat, got : Seq(Telling), until : {"ready", "one read", "silence"},
                 clean : BOOLEAN, early : BOOLEAN]
  /\ script > 5 => target.version = "HACK"

-----------------------------------------------------------------------------
(***************************************************************************)
(* The queue: a copy follows the download of what it copies, and the       *)
(* copies come in the order of the script, of this run and of those        *)
(* before.                                                                 *)
(***************************************************************************)
DataOf(dest)    == IF dest = "payload" THEN "debugger" ELSE "patch"
Copy(dest)      == Step("oem", dest)
Before(k, dest) == \E j \in 1 .. k - 1 : requests[j].asks = Copy(dest)
Pending(dest)   == \E j \in 1 .. Len(requests) : requests[j].asks = Copy(dest)

Whole == \A k \in 1 .. Len(requests), dest \in Hook :
  requests[k].asks = Copy(dest) =>
    IF k = 1 THEN target.buffer = DataOf(dest)
    ELSE requests[k - 1].asks = Step("download", DataOf(dest))

PayloadFirst == \A k \in 1 .. Len(requests) :
  requests[k].asks = Copy("keytest") => target.payload = "debugger" \/ Before(k, "payload")
KeytestFirst == \A k \in 1 .. Len(requests) :
  requests[k].asks = Copy("oem") => target.keytest = "patch" \/ Before(k, "keytest")

(* What the script relies on for its next requests.                        *)
Downloaded == script \in {6, 8, 10} =>
  IF Len(requests) = 0 THEN Step("download", target.buffer) = main[script]
  ELSE requests[Len(requests)].asks = main[script]
PayloadAsked == script >= 7  => target.payload = "debugger" \/ Pending("payload")
KeytestAsked == script >= 9  => target.keytest = "patch" \/ Pending("keytest")
OemAsked     == script >= 11 =>
  \/ /\ target.oem = "patch"
     /\ \A j \in 1 .. Len(requests) : requests[j].asks # Step("getvar", "main")
  \/ \E k \in 1 .. Len(requests) :
       /\ requests[k].asks = Copy("oem")
       /\ \A j \in k + 1 .. Len(requests) : requests[j].asks # Step("getvar", "main")

Hooks ==
  /\ target.keytest \in {"hboot", "patch"} /\ target.oem \in {"hboot", "preloader", "patch"}
  /\ target.keytest = "patch" => target.payload = "debugger"
  /\ target.oem = "patch" => target.keytest = "patch"

Orderly == Whole /\ PayloadFirst /\ KeytestFirst /\ Downloaded
           /\ PayloadAsked /\ KeytestAsked /\ OemAsked /\ Hooks
UploadInv == UploadTypeOK /\ NoLies /\ (~refused => Orderly)

-----------------------------------------------------------------------------
(***************************************************************************)
(* What happens to the queue.                                              *)
(***************************************************************************)
Appended(step) ==
  /\ requests' \in Seq(Request_) /\ Len(requests') = Len(requests) + 1
  /\ \A k \in 1 .. Len(requests) : requests'[k] = requests[k]
  /\ requests'[Len(requests) + 1].asks = step
Taken ==
  /\ requests' \in Seq(Request_) /\ Len(requests) > 0 /\ Len(requests') = Len(requests) - 1
  /\ \A k \in 1 .. Len(requests) - 1 : requests'[k] = requests[k + 1]

LEMMA MainSteps ==
  /\ Len(main) = 11 /\ \A k \in 1 .. 11 : main[k] \in Asking
  /\ main[6] = Step("download", "debugger") /\ main[7] = Copy("payload")
  /\ main[8] = Step("download", "patch") /\ main[9] = Copy("keytest")
  /\ main[10] = Step("download", "patch") /\ main[11] = Copy("oem")
  /\ \A k \in 1 .. 5, dest \in Hook : main[k] # Copy(dest)
<1>1. /\ Len(main) = 11
      /\ main[1] = Step("getvar", "version") /\ main[2] = Step("getvar", "product")
      /\ main[3] = Step("download", "preloader")
      /\ main[4] = Step("getvar", "main") /\ main[5] = Step("getvar", "version")
      /\ main[6] = Step("download", "debugger") /\ main[7] = Copy("payload")
      /\ main[8] = Step("download", "patch") /\ main[9] = Copy("keytest")
      /\ main[10] = Step("download", "patch") /\ main[11] = Copy("oem")
  BY DEF main, Copy
<1>2. \A k \in 1 .. 11 : main[k] \in Asking
  BY <1>1 DEF Step, Copy, Asking, What
<1>3. \A k \in 1 .. 5, dest \in Hook : main[k] # Copy(dest)
  BY <1>1 DEF Step, Copy
<1> QED
  BY <1>1, <1>2, <1>3

LEMMA AskAppends ==
  ASSUME UploadTypeOK, NEW step \in Asking, NEW until, Ask(step, until)
  PROVE  Appended(step) /\ sent' \in Nat
<1>1. [n |-> sent + 1, asks |-> step] \in Request_
  BY DEF UploadTypeOK, Request_
<1> QED
  BY <1>1, AppendProperties DEF UploadTypeOK, Ask, Appended

LEMMA TakeUpTakes ==
  ASSUME UploadTypeOK, NEW contents, TakeUp(contents)
  PROVE  Taken /\ Head(requests) = requests[1]
  BY HeadTailProperties DEF UploadTypeOK, TakeUp, Taken

(***************************************************************************)
(* A request taken up, with what may come of it.                           *)
(***************************************************************************)
Served ==
  /\ Taken /\ script' = script /\ Hooks'
  /\ \A d \in Data : requests[1].asks = Step("download", d) => target'.buffer = d
  /\ target.payload = "debugger" \/ requests[1].asks = Copy("payload") =>
       target'.payload = "debugger"
  /\ target.keytest = "patch" \/ requests[1].asks = Copy("keytest") =>
       target'.keytest = "patch"
  /\ \/ target.oem = "patch" /\ requests[1].asks # Step("getvar", "main")
     \/ requests[1].asks = Copy("oem")
     => target'.oem = "patch"

LEMMA ServedPending ==
  ASSUME Taken, NEW dest, NEW n \in Nat, n <= Len(requests),
         \E j \in 1 .. n : requests[j].asks = Copy(dest)
  PROVE  \/ requests[1].asks = Copy(dest)
         \/ \E j \in 1 .. n - 1 : requests'[j].asks = Copy(dest)
<1>1. PICK j \in 1 .. n : requests[j].asks = Copy(dest)
  OBVIOUS
<1>2. CASE j # 1
  <2>1. j - 1 \in 1 .. n - 1 /\ j - 1 \in 1 .. Len(requests) - 1 /\ j - 1 + 1 = j
    BY <1>2 DEF Taken
  <2>2. requests'[j - 1] = requests[j]
    BY <2>1 DEF Taken
  <2> QED
    BY <1>1, <2>1, <2>2
<1> QED
  BY <1>1, <1>2

LEMMA ServedOrderly ==
  ASSUME UploadTypeOK, Orderly, Served
  PROVE  Orderly'
<1> DEFINE q == Len(requests)
<1>1. /\ q \in Nat /\ q > 0 /\ Len(requests') = q - 1 /\ Len(requests)' = q - 1
      /\ \A k \in 1 .. q - 1 : requests'[k] = requests[k + 1] /\ k + 1 \in 1 .. q
  BY DEF UploadTypeOK, Served, Taken
<1>2. Whole'
  <2> SUFFICES ASSUME NEW k \in 1 .. q - 1, NEW dest \in Hook, requests'[k].asks = Copy(dest)
               PROVE  IF k = 1 THEN target'.buffer = DataOf(dest)
                      ELSE requests'[k - 1].asks = Step("download", DataOf(dest))
    BY <1>1 DEF Whole, Copy, DataOf
  <2>1. requests[k].asks = Step("download", DataOf(dest))
    <3>1. requests[k + 1].asks = Copy(dest) /\ k + 1 \in 1 .. Len(requests)
          /\ k + 1 # 1 /\ k + 1 - 1 = k
      BY <1>1
    <3> QED
      BY <3>1 DEF Whole, Orderly
  <2>2. CASE k = 1
    BY <2>1, <2>2 DEF Served, Data, DataOf
  <2>3. CASE k # 1
    <3>1. k - 1 \in 1 .. q - 1 /\ k - 1 + 1 = k
      BY <1>1, <2>3
    <3> QED
      BY <1>1, <2>1, <2>3, <3>1
  <2> QED
    BY <2>2, <2>3
<1>3. PayloadFirst'
  <2> SUFFICES ASSUME NEW k \in 1 .. q - 1, requests'[k].asks = Copy("keytest")
               PROVE  target'.payload = "debugger"
                      \/ \E j \in 1 .. k - 1 : requests'[j].asks = Copy("payload")
    BY <1>1 DEF PayloadFirst, Before, Copy
  <2>1. target.payload = "debugger" \/ \E j \in 1 .. k : requests[j].asks = Copy("payload")
    <3>1. requests[k + 1].asks = Copy("keytest") /\ k + 1 \in 1 .. Len(requests) /\ k + 1 - 1 = k
      BY <1>1
    <3> QED
      BY <3>1 DEF PayloadFirst, Before, Orderly
  <2>2. k \in Nat /\ k <= Len(requests)
    BY <1>1
  <2> QED
    BY <2>1, <2>2, ServedPending DEF Served
<1>4. KeytestFirst'
  <2> SUFFICES ASSUME NEW k \in 1 .. q - 1, requests'[k].asks = Copy("oem")
               PROVE  target'.keytest = "patch"
                      \/ \E j \in 1 .. k - 1 : requests'[j].asks = Copy("keytest")
    BY <1>1 DEF KeytestFirst, Before, Copy
  <2>1. target.keytest = "patch" \/ \E j \in 1 .. k : requests[j].asks = Copy("keytest")
    <3>1. requests[k + 1].asks = Copy("oem") /\ k + 1 \in 1 .. Len(requests) /\ k + 1 - 1 = k
      BY <1>1
    <3> QED
      BY <3>1 DEF KeytestFirst, Before, Orderly
  <2>2. k \in Nat /\ k <= Len(requests)
    BY <1>1
  <2> QED
    BY <2>1, <2>2, ServedPending DEF Served
<1>5. Downloaded'
  <2> SUFFICES ASSUME script \in {6, 8, 10}
               PROVE  IF q - 1 = 0 THEN Step("download", target'.buffer) = main[script]
                      ELSE requests'[q - 1].asks = main[script]
    BY <1>1 DEF Downloaded, Step, Served, main
  <2>1. requests[q].asks = main[script]
    BY <1>1 DEF Downloaded, Orderly
  <2>2. CASE q - 1 = 0
    <3>1. PICK d \in Data : main[script] = Step("download", d)
      BY MainSteps DEF Data
    <3>2. q = 1
      <4>1. \A n \in Nat : n - 1 = 0 => n = 1
        OBVIOUS
      <4>2. q \in Nat
        BY <1>1
      <4> QED
        BY <2>2, <4>1, <4>2, Zenon
    <3> QED
      BY <2>1, <2>2, <3>1, <3>2 DEF Served
  <2>3. CASE q - 1 # 0
    <3>1. q - 1 \in 1 .. q - 1 /\ q - 1 + 1 = q
      BY <1>1, <2>3
    <3> QED
      BY <1>1, <2>1, <2>3, <3>1
  <2> QED
    BY <2>2, <2>3
<1>6. PayloadAsked'
  <2> SUFFICES ASSUME script >= 7
               PROVE  target'.payload = "debugger"
                      \/ \E j \in 1 .. q - 1 : requests'[j].asks = Copy("payload")
    BY <1>1 DEF PayloadAsked, Pending, Copy, Served
  <2>1. target.payload = "debugger" \/ \E j \in 1 .. q : requests[j].asks = Copy("payload")
    BY DEF PayloadAsked, Pending, Orderly
  <2>2. q \in Nat /\ q <= Len(requests)
    BY <1>1
  <2> QED
    BY <2>1, <2>2, ServedPending DEF Served
<1>7. KeytestAsked'
  <2> SUFFICES ASSUME script >= 9
               PROVE  target'.keytest = "patch"
                      \/ \E j \in 1 .. q - 1 : requests'[j].asks = Copy("keytest")
    BY <1>1 DEF KeytestAsked, Pending, Copy, Served
  <2>1. target.keytest = "patch" \/ \E j \in 1 .. q : requests[j].asks = Copy("keytest")
    BY DEF KeytestAsked, Pending, Orderly
  <2>2. q \in Nat /\ q <= Len(requests)
    BY <1>1
  <2> QED
    BY <2>1, <2>2, ServedPending DEF Served
<1>8. OemAsked'
  <2> DEFINE asksMain(r) == r.asks = Step("getvar", "main")
  <2> SUFFICES ASSUME script >= 11
               PROVE  \/ target'.oem = "patch" /\ \A j \in 1 .. q - 1 : ~asksMain(requests'[j])
                      \/ \E k \in 1 .. q - 1 :
                           /\ requests'[k].asks = Copy("oem")
                           /\ \A j \in k + 1 .. q - 1 : ~asksMain(requests'[j])
    BY <1>1 DEF OemAsked, Step, Copy, Served
  <2>1. \/ target.oem = "patch" /\ \A j \in 1 .. q : ~asksMain(requests[j])
        \/ \E k \in 1 .. q : /\ requests[k].asks = Copy("oem")
                             /\ \A j \in k + 1 .. q : ~asksMain(requests[j])
    BY DEF OemAsked, Orderly
  <2>2. CASE target.oem = "patch" /\ \A j \in 1 .. q : ~asksMain(requests[j])
    <3>1. 1 \in 1 .. q
      BY <1>1
    <3>2. \A j \in 1 .. q - 1 : ~asksMain(requests'[j])
      BY <1>1, <2>2
    <3> QED
      BY <2>2, <3>1, <3>2 DEF Served
  <2>3. ASSUME NEW k \in 1 .. q, requests[k].asks = Copy("oem"),
               \A j \in k + 1 .. q : ~asksMain(requests[j])
        PROVE  \/ target'.oem = "patch" /\ \A j \in 1 .. q - 1 : ~asksMain(requests'[j])
               \/ \E i \in 1 .. q - 1 :
                    /\ requests'[i].asks = Copy("oem")
                    /\ \A j \in i + 1 .. q - 1 : ~asksMain(requests'[j])
    <3>1. \A j \in k .. q - 1 : j \in 1 .. q - 1 /\ j + 1 \in k + 1 .. q
      BY <1>1
    <3>2. \A j \in k .. q - 1 : ~asksMain(requests'[j])
      BY <1>1, <2>3, <3>1
    <3>3. CASE k = 1
      BY <2>3, <3>2, <3>3 DEF Served
    <3>4. CASE k # 1
      <4>1. k - 1 \in 1 .. q - 1 /\ k - 1 + 1 = k
        BY <1>1, <3>4
      <4>2. requests'[k - 1].asks = Copy("oem")
        BY <1>1, <2>3, <4>1
      <4> QED
        BY <3>2, <4>1, <4>2
    <3> QED
      BY <3>3, <3>4
  <2> QED
    BY <2>1, <2>2, <2>3
<1> QED
  BY <1>2, <1>3, <1>4, <1>5, <1>6, <1>7, <1>8 DEF Orderly, Served

(***************************************************************************)
(* A request made: the next one of the script, or a command after it.      *)
(***************************************************************************)
Asks(step) ==
  /\ Appended(step) /\ target' = target
  /\ \/ script \in 0 .. 10 /\ step = main[script + 1] /\ script' = script + 1
     \/ script = 12 /\ script' = 12 /\ step.op = "oem" /\ step.what \in Commands

LEMMA AsksOrderly ==
  ASSUME UploadTypeOK, Orderly, NEW step \in Asking, Asks(step)
  PROVE  Orderly'
<1> DEFINE q == Len(requests)
<1>1. /\ q \in Nat /\ Len(requests') = q + 1
      /\ \A k \in 1 .. q : requests'[k] = requests[k]
      /\ requests'[q + 1].asks = step
      /\ \A k \in 1 .. q + 1 : k \in 1 .. q \/ k = q + 1
  BY DEF UploadTypeOK, Asks, Appended
<1>2. ASSUME NEW dest \in Hook, step = Copy(dest)
      PROVE  \/ script = 6 /\ dest = "payload"
             \/ script = 8 /\ dest = "keytest"
             \/ script = 10 /\ dest = "oem"
  <2>1. CASE script \in 0 .. 10 /\ step = main[script + 1]
    <3>1. script + 1 \in 1 .. 11
      BY <2>1
    <3>2. script + 1 \notin 1 .. 5
      BY <1>2, <2>1, MainSteps
    <3>3. script \in {5, 6, 7, 8, 9, 10}
      BY <3>1, <3>2, <2>1
    <3> QED
      BY <1>2, <2>1, <3>3, MainSteps DEF Step, Copy, Hook
  <2>2. CASE script = 12 /\ step.op = "oem" /\ step.what \in Commands
    BY <1>2, <2>2, UploadAssumption DEF Step, Copy, Hook
  <2> QED
    BY <2>1, <2>2 DEF Asks
<1>3. \A dest : Pending(dest) => \E j \in 1 .. q + 1 : requests'[j].asks = Copy(dest)
  <2> SUFFICES ASSUME NEW dest, NEW j \in 1 .. q, requests[j].asks = Copy(dest)
               PROVE  \E i \in 1 .. q + 1 : requests'[i].asks = Copy(dest)
    BY DEF Pending
  <2> QED
    BY <1>1
<1>4. Whole'
  <2> SUFFICES ASSUME NEW k \in 1 .. q + 1, NEW dest \in Hook, requests'[k].asks = Copy(dest)
               PROVE  IF k = 1 THEN target.buffer = DataOf(dest)
                      ELSE requests'[k - 1].asks = Step("download", DataOf(dest))
    BY <1>1 DEF Whole, Copy, DataOf, Asks
  <2>1. CASE k \in 1 .. q
    <3>1. k # 1 => k - 1 \in 1 .. q
      BY <2>1
    <3>2. IF k = 1 THEN target.buffer = DataOf(dest)
          ELSE requests[k - 1].asks = Step("download", DataOf(dest))
      BY <1>1, <2>1 DEF Whole, Orderly
    <3> QED
      BY <1>1, <3>1, <3>2
  <2>2. CASE k = q + 1
    <3>1. step = Copy(dest)
      BY <1>1, <2>2
    <3>2. /\ script \in {6, 8, 10}
          /\ main[script] = Step("download", DataOf(dest))
      BY <1>2, <3>1, MainSteps DEF DataOf
    <3>3. CASE q = 0
      <4>1. Step("download", target.buffer) = Step("download", DataOf(dest))
        BY <3>2, <3>3 DEF Downloaded, Orderly
      <4>2. target.buffer = DataOf(dest)
        BY <4>1 DEF Step
      <4> QED
        BY <2>2, <3>3, <4>2
    <3>4. CASE q # 0
      <4>1. k # 1 /\ k - 1 = q /\ q \in 1 .. q
        BY <1>1, <2>2, <3>4
      <4>2. requests[q].asks = Step("download", DataOf(dest))
        BY <3>2, <3>4 DEF Downloaded, Orderly
      <4> QED
        BY <1>1, <4>1, <4>2
    <3> QED
      BY <3>3, <3>4
  <2> QED
    BY <1>1, <2>1, <2>2
<1>5. PayloadFirst'
  <2> SUFFICES ASSUME NEW k \in 1 .. q + 1, requests'[k].asks = Copy("keytest")
               PROVE  target.payload = "debugger"
                      \/ \E j \in 1 .. k - 1 : requests'[j].asks = Copy("payload")
    BY <1>1 DEF PayloadFirst, Before, Copy, Asks
  <2>1. target.payload = "debugger" \/ \E j \in 1 .. k - 1 : requests[j].asks = Copy("payload")
    <3>1. CASE k \in 1 .. q
      BY <1>1, <3>1 DEF PayloadFirst, Before, Orderly
    <3>2. CASE k = q + 1
      <4>1. script = 8 /\ k - 1 = q
        BY <1>1, <1>2, <3>2 DEF Hook
      <4> QED
        BY <4>1 DEF PayloadAsked, Pending, Orderly
    <3> QED
      BY <1>1, <3>1, <3>2
  <2>2. \A j \in 1 .. k - 1 : j \in 1 .. q
    BY <1>1
  <2> QED
    BY <1>1, <2>1, <2>2
<1>6. KeytestFirst'
  <2> SUFFICES ASSUME NEW k \in 1 .. q + 1, requests'[k].asks = Copy("oem")
               PROVE  target.keytest = "patch"
                      \/ \E j \in 1 .. k - 1 : requests'[j].asks = Copy("keytest")
    BY <1>1 DEF KeytestFirst, Before, Copy, Asks
  <2>1. target.keytest = "patch" \/ \E j \in 1 .. k - 1 : requests[j].asks = Copy("keytest")
    <3>1. CASE k \in 1 .. q
      BY <1>1, <3>1 DEF KeytestFirst, Before, Orderly
    <3>2. CASE k = q + 1
      <4>1. script = 10 /\ k - 1 = q
        BY <1>1, <1>2, <3>2 DEF Hook
      <4> QED
        BY <4>1 DEF KeytestAsked, Pending, Orderly
    <3> QED
      BY <1>1, <3>1, <3>2
  <2>2. \A j \in 1 .. k - 1 : j \in 1 .. q
    BY <1>1
  <2> QED
    BY <1>1, <2>1, <2>2
<1>7. Downloaded'
  <2> SUFFICES ASSUME script' \in {6, 8, 10}
               PROVE  requests'[q + 1].asks = main[script']
    BY <1>1 DEF Downloaded, main, Step
  <2> QED
    BY <1>1 DEF Asks
<1>8. PayloadAsked'
  <2> SUFFICES ASSUME script' >= 7
               PROVE  target.payload = "debugger"
                      \/ \E j \in 1 .. q + 1 : requests'[j].asks = Copy("payload")
    BY <1>1 DEF PayloadAsked, Pending, Copy, Asks
  <2>1. CASE script = 6
    <3>1. step = Copy("payload") /\ q + 1 \in 1 .. q + 1
      BY <1>1, <2>1, MainSteps DEF Asks
    <3> QED
      BY <1>1, <3>1
  <2>2. CASE script >= 7
    BY <1>3, <2>2 DEF PayloadAsked, Orderly
  <2> QED
    BY <2>1, <2>2 DEF Asks, UploadTypeOK
<1>9. KeytestAsked'
  <2> SUFFICES ASSUME script' >= 9
               PROVE  target.keytest = "patch"
                      \/ \E j \in 1 .. q + 1 : requests'[j].asks = Copy("keytest")
    BY <1>1 DEF KeytestAsked, Pending, Copy, Asks
  <2>1. CASE script = 8
    <3>1. step = Copy("keytest") /\ q + 1 \in 1 .. q + 1
      BY <1>1, <2>1, MainSteps DEF Asks
    <3> QED
      BY <1>1, <3>1
  <2>2. CASE script >= 9
    BY <1>3, <2>2 DEF KeytestAsked, Orderly
  <2> QED
    BY <2>1, <2>2 DEF Asks, UploadTypeOK
<1>10. OemAsked'
  <2> DEFINE asksMain(r) == r.asks = Step("getvar", "main")
  <2> SUFFICES ASSUME script' >= 11
               PROVE  \/ target.oem = "patch" /\ \A j \in 1 .. q + 1 : ~asksMain(requests'[j])
                      \/ \E k \in 1 .. q + 1 :
                           /\ requests'[k].asks = Copy("oem")
                           /\ \A j \in k + 1 .. q + 1 : ~asksMain(requests'[j])
    BY <1>1 DEF OemAsked, Step, Copy, Asks
  <2>1. CASE script = 10
    <3>1. step = Copy("oem") /\ q + 1 \in 1 .. q + 1 /\ \A j \in q + 1 + 1 .. q + 1 : FALSE
      BY <1>1, <2>1, MainSteps DEF Asks
    <3> QED
      BY <1>1, <3>1
  <2>2. CASE script = 12 /\ step.op = "oem"
    <3>1. \A k \in 1 .. q + 1 : asksMain(requests'[k]) => k \in 1 .. q /\ asksMain(requests[k])
      BY <1>1, <2>2 DEF Step
    <3>2. \/ target.oem = "patch" /\ \A j \in 1 .. q : ~asksMain(requests[j])
          \/ \E k \in 1 .. q : /\ requests[k].asks = Copy("oem")
                               /\ \A j \in k + 1 .. q : ~asksMain(requests[j])
      BY <2>2 DEF OemAsked, Orderly
    <3>3. ASSUME NEW k \in 1 .. q, requests[k].asks = Copy("oem"),
                 \A j \in k + 1 .. q : ~asksMain(requests[j])
          PROVE  \E i \in 1 .. q + 1 :
                   /\ requests'[i].asks = Copy("oem")
                   /\ \A j \in i + 1 .. q + 1 : ~asksMain(requests'[j])
      <4>1. requests'[k].asks = Copy("oem") /\ k \in 1 .. q + 1
        BY <1>1, <3>3
      <4>2. \A j \in k + 1 .. q + 1 : j \in 1 .. q + 1 /\ (j \in 1 .. q => j \in k + 1 .. q)
        BY <1>1
      <4> QED
        BY <3>1, <3>3, <4>1, <4>2
    <3> QED
      BY <3>1, <3>2, <3>3
  <2> QED
    BY <2>1, <2>2 DEF Asks, UploadTypeOK
<1>11. Hooks'
  BY DEF Hooks, Orderly, Asks
<1> QED
  BY <1>4, <1>5, <1>6, <1>7, <1>8, <1>9, <1>10, <1>11 DEF Orderly

-----------------------------------------------------------------------------
(***************************************************************************)
(* What the target does with a request.                                    *)
(***************************************************************************)
OnTarget ==
  \/ GetVersion \/ GetProduct \/ GetMain \/ entrypoint_preloader
  \/ \E data \in {"preloader", "debugger", "patch"} : Download(data)
  \/ \E what \in {"payload", "keytest", "oem"} \cup Commands :
       my_fb_cmd_oem_dbg(what) \/ OemOfDebugger(what)

LEMMA AskedIs ==
  ASSUME UploadTypeOK, NEW op, NEW what, Asked(op, what)
  PROVE  requests[1].asks = Step(op, what)
<1>1. requests # <<>> /\ Head(requests) = requests[1] /\ requests[1] \in Request_
  BY HeadTailProperties DEF UploadTypeOK, Asked
<1> QED
  BY <1>1 DEF Asked, Step, Request_, Asking

LEMMA TargetServes ==
  ASSUME UploadTypeOK, Orderly, OnTarget, ~refused'
  PROVE  Served
<1> USE DEF Handle
<1>1. Taken /\ script' = script
  BY TakeUpTakes, Zenon
     DEF OnTarget, GetVersion, GetProduct, GetMain, entrypoint_preloader, Download,
         my_fb_cmd_oem_dbg, cmd_write_memory, cmd_default, OemOfDebugger
<1>2. ASSUME NEW what, requests[1].asks = Step("getvar", what), target' = target
      PROVE  Served
  BY <1>1, <1>2 DEF Served, Orderly, Hooks, Step, Copy, Data
<1>3. CASE GetVersion \/ GetProduct \/ GetMain
  BY <1>2, <1>3, AskedIs DEF GetVersion, GetProduct, GetMain
<1>4. CASE entrypoint_preloader
  <2>1. /\ requests[1].asks = Step("getvar", "main")
        /\ target' = [target EXCEPT !.version = "HACK", !.oem = "preloader"]
    BY <1>4, AskedIs
       DEF entrypoint_preloader, hook_fb_cmd_oem, copy_preloader_functions, replace_version,
           UploadTypeOK, Target_
  <2> QED
    BY <1>1, <2>1 DEF Served, Orderly, Hooks, Step, Copy, Data, UploadTypeOK, Target_
<1>5. ASSUME NEW data \in {"preloader", "debugger", "patch"}, Download(data)
      PROVE  Served
  <2>1. requests[1].asks = Step("download", data) /\ target' = [target EXCEPT !.buffer = data]
    BY <1>5, AskedIs DEF Download
  <2> QED
    BY <1>1, <2>1 DEF Served, Orderly, Hooks, Step, Copy, Data, UploadTypeOK, Target_
<1>6. ASSUME NEW what \in {"payload", "keytest", "oem"} \cup Commands, my_fb_cmd_oem_dbg(what)
      PROVE  Served
  <2>1. requests[1].asks = Copy(what)
    BY <1>6, AskedIs DEF my_fb_cmd_oem_dbg, Copy
  <2>2. CASE cmd_default(what)
    <3>1. requests[1].asks = Step("oem", what) /\ target' = target /\ what \in Commands
      BY <2>1, <2>2 DEF cmd_default, Copy
    <3> QED
      BY <1>1, <3>1, UploadAssumption DEF Served, Orderly, Hooks, Step, Copy, Data
  <2>3. CASE cmd_write_memory(what)
    <3>1. what \in Hook /\ target' = [target EXCEPT ![what] = target.buffer]
      BY <2>3 DEF cmd_write_memory, Hook
    <3>2. target.buffer = DataOf(what)
      <4>1. 1 \in 1 .. Len(requests)
        BY <1>1 DEF Taken, UploadTypeOK
      <4> QED
        BY <2>1, <3>1, <4>1 DEF Orderly, Whole
    <3>3. what = "keytest" => target.payload = "debugger"
      <4>1. 1 \in 1 .. Len(requests) /\ \A j \in 1 .. 1 - 1 : FALSE
        BY <1>1 DEF Taken, UploadTypeOK
      <4> QED
        BY <2>1, <4>1 DEF Orderly, PayloadFirst, Before
    <3>4. what = "oem" => target.keytest = "patch"
      <4>1. 1 \in 1 .. Len(requests) /\ \A j \in 1 .. 1 - 1 : FALSE
        BY <1>1 DEF Taken, UploadTypeOK
      <4> QED
        BY <2>1, <4>1 DEF Orderly, KeytestFirst, Before
    <3>5. CASE what = "payload"
      BY <1>1, <2>1, <3>1, <3>2, <3>5
         DEF Served, Orderly, Hooks, Step, Copy, Data, DataOf, UploadTypeOK, Target_
    <3>6. CASE what = "keytest"
      BY <1>1, <2>1, <3>1, <3>2, <3>3, <3>6
         DEF Served, Orderly, Hooks, Step, Copy, Data, DataOf, UploadTypeOK, Target_
    <3>7. CASE what = "oem"
      BY <1>1, <2>1, <3>1, <3>2, <3>4, <3>7
         DEF Served, Orderly, Hooks, Step, Copy, Data, DataOf, UploadTypeOK, Target_
    <3> QED
      BY <3>1, <3>5, <3>6, <3>7 DEF Hook
  <2> QED
    BY <1>6, <2>2, <2>3 DEF my_fb_cmd_oem_dbg
<1>7. ASSUME NEW what \in {"payload", "keytest", "oem"} \cup Commands, OemOfDebugger(what)
      PROVE  Served
  <2>1. requests[1].asks = Copy(what) /\ target' = target /\ target.oem = "patch"
    BY <1>7, AskedIs DEF OemOfDebugger, Copy
  <2> QED
    BY <1>1, <2>1 DEF Served, Orderly, Hooks, Step, Copy, Data
<1> QED
  BY <1>3, <1>4, <1>5, <1>6, <1>7 DEF OnTarget

-----------------------------------------------------------------------------
(***************************************************************************)
(* What is on the line.                                                    *)
(***************************************************************************)
TellsOn ==
  /\ outgoing \in Seq(Telling') /\ replies \in Seq(Telling')
  /\ client \in [until : {"ready", "one read", "silence"}, got : Seq(Telling'), clean : BOOLEAN]
  /\ answer \in [to : Nat, got : Seq(Telling'), until : {"ready", "one read", "silence"},
                 clean : BOOLEAN, early : BOOLEAN]

LEMMA StillTelling ==
  ASSUME NoLies, target.version = "HACK" => target'.version = "HACK"
  PROVE  TellsOn
<1>1. Telling \subseteq Telling'
  BY DEF Telling
<1>2. ASSUME NEW s \in Seq(Telling)
      PROVE  s \in Seq(Telling')
  BY <1>1, <1>2
<1> QED
  BY <1>2 DEF NoLies, TellsOn

LEMMA ReplyTells ==
  ASSUME NEW n \in Nat, NEW c \in Seq(Text),
         \A k \in 1 .. Len(c) : c[k] = "HACK" => target'.version = "HACK"
  PROVE  Reply(n, c) \in Seq(Telling')
<1>1. \A k \in 1 .. Len(c) : Part(n, c[k]) \in Telling'
  BY DEF Part, Telling
<1>2. DOMAIN c = 1 .. Len(c) /\ Len(c) \in Nat
  OBVIOUS
<1> QED
  BY <1>1, <1>2 DEF Reply

LEMMA TakeUpTells ==
  ASSUME UploadTypeOK, NoLies, NEW c \in Seq(Text), TakeUp(c), script' = script,
         \A k \in 1 .. Len(c) : c[k] = "HACK" => target'.version = "HACK",
         target.version = "HACK" => target'.version = "HACK"
  PROVE  NoLies'
<1>1. Head(requests).n \in Nat
  <2>1. requests # <<>> /\ Head(requests) \in Request_
    BY HeadTailProperties DEF UploadTypeOK, TakeUp
  <2> QED
    BY <2>1 DEF Request_
<1>2. Reply(Head(requests).n, c) \in Seq(Telling')
  BY <1>1, ReplyTells
<1> QED
  BY <1>2, StillTelling DEF TellsOn, NoLies, TakeUp

LEMMA PlainReplies ==
  /\ <<>> \in Seq(Plain)
  /\ <<"product">> \in Seq(Plain) /\ <<"main">> \in Seq(Plain)
  /\ <<"DATA", "OKAY">> \in Seq(Plain) /\ <<"FAIL">> \in Seq(Plain)
  /\ <<"success">> \in Seq(Plain) /\ <<"not found">> \in Seq(Plain)
  /\ <<"attach">> \in Seq(Plain) /\ <<"read", "block">> \in Seq(Plain)
  /\ <<"unknown">> \in Seq(Plain)
  BY DEF Plain

LEMMA PlainTells ==
  ASSUME UploadTypeOK, NoLies, NEW c \in Seq(Plain), TakeUp(c), script' = script,
         target.version = "HACK" => target'.version = "HACK"
  PROVE  NoLies'
<1>1. c \in Seq(Text) /\ \A k \in 1 .. Len(c) : c[k] # "HACK"
  <2>1. Plain \subseteq Text /\ "HACK" \notin Plain
    BY DEF Plain, Text
  <2> QED
    BY <2>1
<1> QED
  BY <1>1, TakeUpTells

LEMMA TargetTells ==
  ASSUME UploadTypeOK, NoLies, OnTarget
  PROVE  NoLies' /\ target' \in Target_ /\ refused' \in BOOLEAN
<1> USE DEF Handle
<1>1. CASE GetVersion
  <2>1. /\ <<target.version>> \in Seq(Text) /\ TakeUp(<<target.version>>)
        /\ target' = target /\ script' = script /\ refused' = refused
        /\ \A k \in 1 .. Len(<<target.version>>) :
             <<target.version>>[k] = "HACK" => target'.version = "HACK"
    BY <1>1 DEF GetVersion, UploadTypeOK, Target_, Text
  <2> QED
    BY <2>1, TakeUpTells DEF UploadTypeOK
<1>2. CASE GetProduct \/ GetMain
  <2>1. PICK c \in {<<"product">>, <<"main">>} : TakeUp(c)
    BY <1>2 DEF GetProduct, GetMain
  <2>2. c \in Seq(Plain)
    BY <2>1, PlainReplies
  <2> QED
    BY <1>2, <2>1, <2>2, PlainTells DEF GetProduct, GetMain, UploadTypeOK
<1>3. CASE entrypoint_preloader
  <2>1. /\ target' = [target EXCEPT !.version = "HACK", !.oem = "preloader"]
        /\ script' = script /\ refused' = refused
    BY <1>3 DEF entrypoint_preloader, hook_fb_cmd_oem, copy_preloader_functions,
                replace_version, UploadTypeOK, Target_
  <2>2. target' \in Target_ /\ target'.version = "HACK"
    BY <2>1 DEF UploadTypeOK, Target_, Contents, Data
  <2>3. PICK c \in {<<>>, <<"main">>} : TakeUp(c)
    BY <1>3 DEF entrypoint_preloader
  <2>4. c \in Seq(Plain)
    BY <2>3, PlainReplies
  <2> QED
    BY <2>1, <2>2, <2>3, <2>4, PlainTells DEF UploadTypeOK
<1>4. ASSUME NEW data \in {"preloader", "debugger", "patch"}, Download(data)
      PROVE  NoLies' /\ target' \in Target_ /\ refused' \in BOOLEAN
  <2>1. PICK c \in {<<"DATA", "OKAY">>, <<"FAIL">>} : TakeUp(c)
    BY <1>4 DEF Download
  <2>2. c \in Seq(Plain)
    BY <2>1, PlainReplies
  <2>3. /\ target' \in {target, [target EXCEPT !.buffer = data]}
        /\ script' = script /\ refused' \in {refused, TRUE}
    BY <1>4 DEF Download
  <2>4. target' \in Target_ /\ target'.version = target.version
    BY <2>3 DEF UploadTypeOK, Target_, Contents, Data
  <2> QED
    BY <2>1, <2>2, <2>3, <2>4, PlainTells DEF UploadTypeOK
<1>5. ASSUME NEW what \in {"payload", "keytest", "oem"} \cup Commands, my_fb_cmd_oem_dbg(what)
      PROVE  NoLies' /\ target' \in Target_ /\ refused' \in BOOLEAN
  <2>1. PICK c \in {<<"success">>, <<"not found">>} : TakeUp(c)
    BY <1>5 DEF my_fb_cmd_oem_dbg, cmd_write_memory, cmd_default
  <2>2. c \in Seq(Plain)
    BY <2>1, PlainReplies
  <2>3. /\ script' = script /\ refused' = refused
        /\ \/ target' = target
           \/ \E dest \in {"payload", "keytest", "oem"} :
                target' = [target EXCEPT ![dest] = target.buffer]
    BY <1>5 DEF my_fb_cmd_oem_dbg, cmd_write_memory, cmd_default
  <2>4. target' \in Target_ /\ target'.version = target.version
    BY <2>3 DEF UploadTypeOK, Target_, Contents, Data
  <2> QED
    BY <2>1, <2>2, <2>3, <2>4, PlainTells DEF UploadTypeOK
<1>6. ASSUME NEW what \in {"payload", "keytest", "oem"} \cup Commands, OemOfDebugger(what)
      PROVE  NoLies' /\ target' \in Target_ /\ refused' \in BOOLEAN
  <2>1. PICK c \in {<<"attach">>, <<"read", "block">>, <<>>, <<"unknown">>} : TakeUp(c)
    BY <1>6, UploadAssumption DEF OemOfDebugger, Says
  <2>2. c \in Seq(Plain)
    BY <2>1, PlainReplies
  <2>3. target' = target /\ script' = script /\ refused' = refused
    BY <1>6 DEF OemOfDebugger
  <2> QED
    BY <2>1, <2>2, <2>3, PlainTells DEF UploadTypeOK
<1> QED
  BY <1>1, <1>2, <1>3, <1>4, <1>5, <1>6 DEF OnTarget

-----------------------------------------------------------------------------
(***************************************************************************)
(* The host, and the line.                                                 *)
(***************************************************************************)
Waits == {"ready", "one read", "silence"}

LEMMA AskTells ==
  ASSUME UploadTypeOK, NoLies, NEW step, NEW until \in Waits, Ask(step, until),
         target' = target, script' > 5 => target.version = "HACK"
  PROVE  NoLies'
<1>1. TellsOn
  BY StillTelling
<1>2. <<>> \in Seq(Telling') /\ (Quiet /\ replies = <<>>) \in BOOLEAN
  OBVIOUS
<1>3. /\ client' \in [until : Waits, got : Seq(Telling'), clean : BOOLEAN]
      /\ answer' \in [to : Nat, got : Seq(Telling'), until : Waits,
                      clean : BOOLEAN, early : BOOLEAN]
  BY <1>2 DEF Ask, NoAnswer, Waits
<1> QED
  BY <1>1, <1>3 DEF Ask, NoLies, TellsOn, Waits

LEMMA NextStepAsks ==
  ASSUME UploadTypeOK, NextStep
  PROVE  /\ script + 1 \in 1 .. 11 /\ main[script + 1] \in Asking
         /\ \E until \in Waits : Ask(main[script + 1], until)
         /\ script' = script + 1 /\ target' = target /\ refused' = refused
<1>1. script + 1 \in 1 .. 11 /\ main[script + 1] \in Asking
  BY MainSteps DEF NextStep
<1>2. ASSUME NEW step \in Asking, Request(step)
      PROVE  \E until \in Waits : Ask(step, until)
  <2>1. step = [op |-> step.op, what |-> step.what]
    BY DEF Asking
  <2> QED
    BY <1>2, <2>1 DEF Request, getvar, download_data, preloader, Waits
<1> QED
  BY <1>1, <1>2 DEF NextStep

LEMMA NextStepTells ==
  ASSUME UploadTypeOK, NoLies, NextStep
  PROVE  NoLies'
<1>1. PICK until \in Waits : Ask(main[script + 1], until)
  BY NextStepAsks
<1>2. ASSUME script = 5
      PROVE  target.version = "HACK"
  <2>1. Texts(answer.got) = <<"HACK">> /\ answer.got \in Seq(Telling)
    BY <1>2 DEF NextStep, Accepts, check_exploit_result, NoLies
  <2>2. 1 \in DOMAIN answer.got /\ answer.got[1].says = "HACK"
    <3>1. DOMAIN Texts(answer.got) = DOMAIN answer.got /\ DOMAIN <<"HACK">> = 1 .. 1
      BY DEF Texts
    <3>2. 1 \in DOMAIN answer.got
      BY <2>1, <3>1
    <3> QED
      BY <2>1, <3>2 DEF Texts
  <2>3. answer.got[1] \in Telling
    BY <2>1, <2>2
  <2> QED
    BY <2>2, <2>3 DEF Telling
<1>3. script' > 5 => target.version = "HACK"
  <2>1. script' = script + 1 /\ script \in Int
    BY NextStepAsks DEF UploadTypeOK
  <2>2. script > 5 => target.version = "HACK"
    BY DEF NoLies
  <2> QED
    BY <1>2, <2>1, <2>2
<1> QED
  BY <1>1, <1>3, AskTells, NextStepAsks

LEMMA DebugAsks ==
  ASSUME UploadTypeOK, NEW cmd \in Commands, Debug(cmd)
  PROVE  /\ Ask(Step("oem", cmd), "silence") /\ Step("oem", cmd) \in Asking
         /\ script = 12 /\ script' = 12 /\ target' = target /\ refused' = refused
<1>1. script = 12
  BY MainSteps DEF Debug, Done
<1> QED
  BY <1>1, UploadAssumption DEF Debug, hbootdbg, Step, Asking, What

LEMMA ReadsTell ==
  ASSUME NoLies, ReadSome \/ ReadNothing, target' = target, script' = script, sent \in Nat
  PROVE  NoLies'
<1>1. Telling' = Telling
  BY DEF Telling
<1>2. ASSUME NEW got \in Seq(Telling), Return(got)
      PROVE  /\ client' \in [until : Waits, got : Seq(Telling), clean : BOOLEAN]
             /\ answer' \in [to : Nat, got : Seq(Telling), until : Waits,
                             clean : BOOLEAN, early : BOOLEAN]
  <2>1. (~Quiet) \in BOOLEAN /\ <<>> \in Seq(Telling)
    OBVIOUS
  <2> QED
    BY <1>2, <2>1 DEF Return, Ready, NoLies, Waits
<1>3. CASE ReadNothing
  BY <1>1, <1>2, <1>3 DEF ReadNothing, NoLies, Waits
<1>4. CASE ReadSome
  <2>1. PICK k \in 1 .. Len(replies) :
          LET got == client.got \o SubSeq(replies, 1, k)
          IN /\ replies' = SubSeq(replies, k + 1, Len(replies))
             /\ IF EndsWithRead(client.until) THEN Return(got)
                ELSE client' = [client EXCEPT !.got = got] /\ UNCHANGED answer
    BY <1>4 DEF ReadSome
  <2> DEFINE head == SubSeq(replies, 1, k)
             got  == client.got \o head
  <2>2. head \in Seq(Telling) /\ replies' \in Seq(Telling)
    <3>1. replies \in Seq(Telling) /\ Len(replies) \in Nat
      <4>1. replies \in Seq(Telling)
        BY DEF NoLies
      <4> QED
        BY <4>1
    <3>2. /\ \A i \in 1 .. k : replies[i] \in Telling
          /\ \A i \in k + 1 .. Len(replies) : replies[i] \in Telling
      BY <3>1
    <3> QED
      BY <2>1, <3>1, <3>2, SubSeqProperties
  <2>3. got \in Seq(Telling)
    <3>1. client.got \in Seq(Telling)
      BY DEF NoLies
    <3> HIDE DEF head
    <3> QED
      BY <2>2, <3>1, ConcatProperties, Zenon
  <2> HIDE DEF got
  <2>4. CASE Return(got)
    BY <1>1, <1>2, <1>4, <2>2, <2>3, <2>4 DEF ReadSome, NoLies, Waits
  <2>5. CASE client' = [client EXCEPT !.got = got] /\ UNCHANGED answer
    BY <1>1, <1>4, <2>2, <2>3, <2>5 DEF ReadSome, NoLies
  <2> QED
    BY <2>1, <2>4, <2>5 DEF got, head
<1> QED
  BY <1>3, <1>4

LEMMA SendTells ==
  ASSUME NoLies, SendPart, target' = target, script' = script
  PROVE  NoLies'
<1>1. Telling' = Telling
  BY DEF Telling
<1>2. Head(outgoing) \in Telling /\ outgoing' \in Seq(Telling)
  BY HeadTailProperties DEF SendPart, NoLies
<1>3. replies' \in Seq(Telling)
  BY <1>2, AppendProperties DEF SendPart, NoLies
<1> QED
  BY <1>1, <1>2, <1>3 DEF SendPart, NoLies

-----------------------------------------------------------------------------
(***************************************************************************)
(* The invariant.                                                          *)
(***************************************************************************)
LEMMA OrderlyUnchanged ==
  ASSUME Orderly, UNCHANGED <<requests, target>>,
         script' \in {script, -1, 0} \/ (script = 11 /\ script' = 12)
  PROVE  Orderly'
<1>1. Whole' /\ PayloadFirst' /\ KeytestFirst' /\ Hooks'
  BY DEF Orderly, Whole, PayloadFirst, KeytestFirst, Hooks, Before, Copy, Step
<1>2. Downloaded'
  BY DEF Orderly, Downloaded, Step, main
<1>3. PayloadAsked' /\ KeytestAsked'
  BY DEF Orderly, PayloadAsked, KeytestAsked, Pending, Copy, Step
<1>4. OemAsked'
  BY DEF Orderly, OemAsked, Copy, Step
<1> QED
  BY <1>1, <1>2, <1>3, <1>4 DEF Orderly

Empty ==
  /\ requests = <<>> /\ outgoing = <<>> /\ replies = <<>> /\ client = Ready /\ answer = NoAnswer
  /\ target = Fresh /\ script = Gone /\ sent = 0 /\ refused = FALSE

LEMMA EmptyInv == Empty => UploadInv
<1> SUFFICES ASSUME Empty PROVE UploadInv
  OBVIOUS
<1> USE DEF Empty
<1>1. UploadTypeOK
  <2>1. target \in Target_
    BY DEF Target_, Fresh, Contents
  <2>2. requests \in Seq(Request_) /\ sent \in Nat /\ script \in -1 .. 12
    BY DEF Gone
  <2>3. refused \in BOOLEAN
    BY Zenon
  <2> QED
    BY <2>1, <2>2, <2>3 DEF UploadTypeOK
<1>2. NoLies
  BY DEF NoLies, Ready, NoAnswer, Gone
<1>3. Len(requests) = 0 /\ \A k \in 1 .. Len(requests) : FALSE
  OBVIOUS
<1>4. Orderly
  BY <1>3 DEF Orderly, Whole, PayloadFirst, KeytestFirst, Downloaded, PayloadAsked, KeytestAsked,
              OemAsked, Hooks, Fresh, Gone
<1> QED
  BY <1>1, <1>2, <1>4 DEF UploadInv

LEMMA UploadStep ==
  ASSUME UploadInv, UploadNext \/ UNCHANGED uploadVars
  PROVE  UploadInv'
<1> USE DEF UploadInv
<1>1. CASE OnTarget
  <2>1. UploadTypeOK'
    <3>1. Taken /\ script' = script /\ sent' = sent
      BY <1>1, TakeUpTakes
         DEF OnTarget, GetVersion, GetProduct, GetMain, entrypoint_preloader, Download, Handle,
             my_fb_cmd_oem_dbg, cmd_write_memory, cmd_default, OemOfDebugger, TakeUp
    <3> QED
      BY <1>1, <3>1, TargetTells DEF UploadTypeOK, Taken
  <2>2. ~refused' => ~refused
    BY <1>1 DEF OnTarget, GetVersion, GetProduct, GetMain, entrypoint_preloader, Download,
                my_fb_cmd_oem_dbg, OemOfDebugger, UploadTypeOK
  <2> QED
    BY <1>1, <2>1, <2>2, TargetTells, TargetServes, ServedOrderly
<1>2. CASE NextStep
  <2>1. PICK until \in Waits : Ask(main[script + 1], until)
    BY <1>2, NextStepAsks
  <2>2. /\ main[script + 1] \in Asking /\ script \in 0 .. 10
        /\ script' = script + 1 /\ target' = target /\ refused' = refused
    BY <1>2, NextStepAsks DEF UploadTypeOK
  <2>3. Appended(main[script + 1]) /\ sent' \in Nat
    BY <2>1, <2>2, AskAppends
  <2>4. UploadTypeOK'
    BY <2>2, <2>3 DEF UploadTypeOK, Appended
  <2>5. ~refused => Orderly'
    <3>1. Asks(main[script + 1])
      BY <2>2, <2>3 DEF Asks
    <3> QED
      BY <2>2, <3>1, AsksOrderly
  <2> QED
    BY <1>2, <2>2, <2>4, <2>5, NextStepTells
<1>3. ASSUME NEW cmd \in Commands, Debug(cmd)
      PROVE  UploadInv'
  <2>1. /\ Ask(Step("oem", cmd), "silence") /\ Step("oem", cmd) \in Asking
        /\ script = 12 /\ script' = 12 /\ target' = target /\ refused' = refused
    BY <1>3, DebugAsks
  <2>2. Appended(Step("oem", cmd)) /\ sent' \in Nat
    BY <2>1, AskAppends
  <2>3. UploadTypeOK'
    BY <2>1, <2>2 DEF UploadTypeOK, Appended
  <2>4. NoLies'
    BY <2>1, AskTells DEF NoLies, Waits
  <2>5. ~refused => Orderly'
    <3>1. Asks(Step("oem", cmd))
      BY <2>1, <2>2 DEF Asks, Step
    <3> QED
      BY <2>1, <3>1, AsksOrderly
  <2> QED
    BY <2>1, <2>3, <2>4, <2>5
<1>4. CASE EndOfScript
  <2>1. /\ UNCHANGED <<linkVars, target, refused>>
        /\ script' = -1 \/ (script = 11 /\ script' = 12)
    BY <1>4, MainSteps DEF EndOfScript, Done, Gone, Running
  <2>2. UploadTypeOK'
    BY <2>1 DEF UploadTypeOK, linkVars
  <2>3. NoLies'
    <3>1. TellsOn
      BY <2>1, StillTelling
    <3>2. script > 5 => target.version = "HACK"
      BY DEF NoLies
    <3>3. script' > 5 => target'.version = "HACK"
      BY <2>1, <3>2
    <3> QED
      BY <2>1, <3>1, <3>3 DEF NoLies, TellsOn, linkVars
  <2> QED
    BY <2>1, <2>2, <2>3, OrderlyUnchanged DEF linkVars
<1>5. CASE StartScript
  <2>1. /\ UNCHANGED <<requests, outgoing, client, sent, target, refused>>
        /\ script' = 0 /\ answer' = NoAnswer /\ (replies' = <<>> \/ replies' = replies)
    BY <1>5 DEF StartScript
  <2>2. UploadTypeOK'
    BY <2>1 DEF UploadTypeOK
  <2>3. NoLies'
    <3>1. TellsOn
      BY <2>1, StillTelling
    <3>2. <<>> \in Seq(Telling')
      OBVIOUS
    <3>3. NoAnswer \in [to : Nat, got : Seq(Telling'), until : Waits,
                       clean : BOOLEAN, early : BOOLEAN]
      BY <3>2 DEF NoAnswer, Waits
    <3>4. replies' \in Seq(Telling')
      BY <2>1, <3>1, <3>2, Zenon DEF TellsOn
    <3>5. ~(script' > 5)
      <4>1. script' = 0
        BY <2>1
      <4> QED
        BY <4>1
    <3> QED
      BY <2>1, <3>1, <3>3, <3>4, <3>5 DEF NoLies, TellsOn, Waits
  <2> QED
    BY <2>1, <2>2, <2>3, OrderlyUnchanged
<1>6. CASE Reads \/ Sends
  <2>1. UNCHANGED <<requests, sent, script, target, refused>>
    BY <1>6 DEF Reads, Sends, ReadSome, ReadNothing, SendPart
  <2>2. NoLies'
    BY <1>6, <2>1, ReadsTell, SendTells DEF Reads, Sends, UploadTypeOK
  <2>3. UploadTypeOK'
    BY <2>1 DEF UploadTypeOK
  <2> QED
    BY <2>1, <2>2, <2>3, OrderlyUnchanged
<1>7. CASE PowerCycle
  <2>1. Empty'
    BY <1>7 DEF PowerCycle, Empty, Fresh, Ready, NoAnswer, Gone
  <2>2. Empty' => UploadInv'
    BY EmptyInv, PTL
  <2> QED
    BY <2>1, <2>2
<1>8. CASE UNCHANGED uploadVars
  <2>1. UNCHANGED <<requests, outgoing, replies, client, answer, sent, target, script, refused>>
    BY <1>8 DEF uploadVars, linkVars
  <2>2. UploadTypeOK' /\ NoLies'
    <3>1. NoLies'
      BY <2>1, StillTelling DEF NoLies, TellsOn
    <3> QED
      BY <2>1, <3>1 DEF UploadTypeOK
  <2> QED
    BY <2>1, <2>2, OrderlyUnchanged
<1> QED
  BY <1>1, <1>2, <1>3, <1>4, <1>5, <1>6, <1>7, <1>8 DEF UploadNext, Host, OnTarget

(* The invariant holds always.                                             *)
THEOREM UploadSafe == UploadSpec => []UploadInv
<1>1. UploadInit => UploadInv
  <2>1. UploadInit => Empty
    BY DEF UploadInit, LinkInit, Empty
  <2> QED
    BY <2>1, EmptyInv
<1>2. UploadInv /\ [UploadNext]_uploadVars => UploadInv'
  BY UploadStep
<1> QED
  BY <1>1, <1>2, PTL DEF UploadSpec

(* Of a target that takes every download, a hook that has been patched     *)
(* leads to the debugger, at every moment of every run of the script.      *)
THEOREM UploadHooks == UploadSpec => []HooksLeadToDebugger
<1>1. UploadInv => HooksLeadToDebugger
  BY DEF UploadInv, Orderly, Hooks, HooksLeadToDebugger
<1> QED
  BY <1>1, UploadSafe, PTL

(* A script that goes on has the preloader to talk to, and one that has    *)
(* come to its end has installed the debugger.                             *)
THEOREM UploadDone == UploadSpec => []DoneMeansInstalled
<1>1. UploadInv => DoneMeansInstalled
  <2>1. UploadInv => (script > 5 => target.version = "HACK")
    BY DEF UploadInv, NoLies
  <2>2. ASSUME UploadInv, script = Done, requests = <<>>, ~refused
        PROVE  target.oem = "patch" /\ target.keytest = "patch" /\ target.payload = "debugger"
    <3>1. script = 12 /\ 1 .. Len(requests) = {}
      BY <2>2, MainSteps DEF Done
    <3>2. target.oem = "patch"
      BY <2>2, <3>1 DEF UploadInv, Orderly, OemAsked
    <3> QED
      BY <2>2, <3>2 DEF UploadInv, Orderly, Hooks
  <2> QED
    BY <2>1, <2>2 DEF DoneMeansInstalled
<1> QED
  BY <1>1, UploadSafe, PTL

-----------------------------------------------------------------------------
(***************************************************************************)
(* The client and the target in step: requests are taken up in the order   *)
(* of their numbers, so what is on the line for a client that waits is     *)
(* what it has read, what has arrived and what the target has still to     *)
(* send, and ends in the reply to its own request once that is taken up.   *)
(***************************************************************************)
AnyPart == [to : Nat, says : Text]
TakenUp == sent - Len(requests)
Numbered ==
  Len(requests) <= sent /\ \A k \in 1 .. Len(requests) : requests[k].n = TakenUp + k

OfTaken(s) == \A k \in 1 .. Len(s) : s[k].to <= TakenUp
Stream     == client.got \o (replies \o outgoing)
EndsIn(own, s, n) ==
  /\ Len(own) <= Len(s)
  /\ \A k \in 1 .. Len(own) : s[Len(s) - Len(own) + k] = own[k]
  /\ \A k \in 1 .. Len(s) - Len(own) : s[k].to < n

AllTaken  == OfTaken(client.got) /\ OfTaken(replies) /\ OfTaken(outgoing)
SaidLater == said \in Seq(AnyPart) /\ (requests # <<>> => said = <<>>)
WaitsFor  == Waiting =>
  /\ EndsIn(said, Stream, sent)
  /\ client.clean => Stream = said /\ Len(requests) <= 1
HasGot ==
  answer.until = "silence" /\ ~answer.early =>
    /\ Quiet
    /\ EndsIn(said, answer.got, answer.to)
    /\ answer.clean => answer.got = said

InStep == Numbered /\ AllTaken /\ SaidLater /\ WaitsFor /\ HasGot

-----------------------------------------------------------------------------
(***************************************************************************)
(* What happens on the line: parts move on, and stay in order.             *)
(***************************************************************************)
LEMMA SendingKeepsOrder ==
  ASSUME NEW S, NEW a \in Seq(S), NEW b \in Seq(S), b # <<>>
  PROVE  Append(a, Head(b)) \o Tail(b) = a \o b
<1> DEFINE h == Head(b)
           t == Tail(b)
           one == <<h>>
<1>1. h \in S /\ t \in Seq(S)
  BY HeadTailProperties
<1>2. one \in Seq(S)
  BY <1>1
<1>3. one \o t = b
  <2>1. SubSeq(b, 1, Len(b)) = b /\ 1 \in 1 .. Len(b) /\ Len(b) \in 1 .. Len(b)
    BY SubSeqFull
  <2>2. b = <<b[1]>> \o SubSeq(b, 2, Len(b))
    BY <2>1, SubSeqRecursiveFirst
  <2>3. b[1] = h /\ SubSeq(b, 2, Len(b)) = t
    BY TailIsSubSeq
  <2> QED
    BY <2>2, <2>3
<1>4. Append(a, h) = a \o one
  BY <1>1, AppendIsConcat
<1> HIDE DEF one, h, t
<1>5. (a \o one) \o t = a \o (one \o t)
  BY <1>1, <1>2, ConcatAssociative
<1> QED
  BY <1>3, <1>4, <1>5 DEF h, t

Associate(x, y, z) == (x \o y) \o z = x \o (y \o z)

LEMMA Associates ==
  ASSUME NEW S, NEW x \in Seq(S), NEW y \in Seq(S), NEW z \in Seq(S)
  PROVE  Associate(x, y, z) /\ y \o z \in Seq(S)
  BY ConcatAssociative, ConcatProperties DEF Associate

MovesOn(g, r, o, k) ==
  (g \o SubSeq(r, 1, k)) \o (SubSeq(r, k + 1, Len(r)) \o o) = g \o (r \o o)

LEMMA ReadingKeepsOrder ==
  ASSUME NEW S, NEW g \in Seq(S), NEW r \in Seq(S), NEW o \in Seq(S), NEW k \in 1 .. Len(r)
  PROVE  MovesOn(g, r, o, k)
<1> DEFINE h  == SubSeq(r, 1, k)
           t  == SubSeq(r, k + 1, Len(r))
           to == t \o o
<1>1. h \in Seq(S) /\ t \in Seq(S)
  <2>1. /\ \A i \in 1 .. k : r[i] \in S
        /\ \A i \in k + 1 .. Len(r) : r[i] \in S
    OBVIOUS
  <2> QED
    BY <2>1, SubSeqProperties
<1>2. h \o t = r
  <2>1. k \in 1 - 1 .. Len(r) /\ Len(r) \in k .. Len(r) /\ 1 \in 1 .. Len(r) + 1
    OBVIOUS
  <2> QED
    BY <2>1, ConcatAdjacentSubSeq, SubSeqFull
<1> HIDE DEF h, t
<1>3. Associate(h, t, o) /\ to \in Seq(S)
  BY <1>1, Associates
<1> HIDE DEF to
<1>4. Associate(g, h, to)
  BY <1>1, <1>3, Associates
<1>5. (g \o h) \o to = g \o (h \o to)
  BY <1>4 DEF Associate
<1>6. h \o to = r \o o
  BY <1>2, <1>3 DEF Associate, to
<1> QED
  BY <1>5, <1>6 DEF MovesOn, h, t, to

LEMMA EndsInItself ==
  ASSUME NEW s \in Seq(AnyPart), NEW own \in Seq(AnyPart), NEW n \in Nat,
         \A k \in 1 .. Len(s) : s[k].to < n
  PROVE  EndsIn(own, s \o own, n) /\ EndsIn(<<>>, s, n)
<1> DEFINE t == s \o own
<1>1. /\ Len(t) = Len(s) + Len(own) /\ Len(s) \in Nat /\ Len(own) \in Nat
      /\ \A i \in 1 .. Len(s) + Len(own) : t[i] = IF i <= Len(s) THEN s[i] ELSE own[i - Len(s)]
  BY ConcatProperties
<1> HIDE DEF t
<1>2. EndsIn(own, t, n)
  <2>1. Len(own) <= Len(t) /\ Len(t) - Len(own) = Len(s)
    BY <1>1
  <2>2. \A k \in 1 .. Len(own) : t[Len(s) + k] = own[k]
    <3> SUFFICES ASSUME NEW k \in 1 .. Len(own) PROVE t[Len(s) + k] = own[k]
      OBVIOUS
    <3>1. /\ Len(s) + k \in 1 .. Len(s) + Len(own) /\ ~(Len(s) + k <= Len(s))
          /\ Len(s) + k - Len(s) = k
      BY <1>1
    <3> QED
      BY <1>1, <3>1
  <2>3. \A k \in 1 .. Len(s) : t[k] = s[k]
    BY <1>1
  <2> QED
    BY <2>1, <2>2, <2>3 DEF EndsIn
<1>3. EndsIn(<<>>, s, n)
  BY DEF EndsIn
<1> QED
  BY <1>2, <1>3 DEF t

LEMMA EndsInSuffix ==
  ASSUME NEW s \in Seq(AnyPart), NEW own \in Seq(AnyPart), NEW n, EndsIn(own, s, n)
  PROVE  IsSuffix(own, s)
<1> DEFINE r == Reverse(own)
           t == Reverse(s)
           m == Len(own)
<1>1. /\ Len(r) = m /\ Len(t) = Len(s) /\ m \in Nat /\ Len(s) \in Nat /\ m <= Len(s)
      /\ \A i \in 1 .. m : r[i] = own[m - i + 1]
      /\ \A i \in 1 .. Len(s) : t[i] = s[Len(s) - i + 1]
  BY DEF Reverse, EndsIn
<1>2. \A i \in 1 .. m : r[i] = t[i] /\ r[i] \in AnyPart /\ t[i] \in AnyPart
  <2> SUFFICES ASSUME NEW i \in 1 .. m
               PROVE  r[i] = t[i] /\ r[i] \in AnyPart
    OBVIOUS
  <2>1. m - i + 1 \in 1 .. m /\ Len(s) - m + (m - i + 1) = Len(s) - i + 1
    BY <1>1
  <2>2. s[Len(s) - m + (m - i + 1)] = own[m - i + 1]
    BY <2>1 DEF EndsIn
  <2>3. i \in 1 .. Len(s)
    BY <1>1
  <2>4. r[i] = t[i]
    BY <1>1, <2>1, <2>2, <2>3
  <2>5. own[m - i + 1] \in AnyPart
    BY <2>1
  <2> QED
    BY <1>1, <2>4, <2>5
<1> HIDE DEF r, t, m
<1>3. SubSeq(r, 1, m) = SubSeq(t, 1, m)
  <2>1. /\ SubSeq(r, 1, m) \in Seq(AnyPart) /\ SubSeq(t, 1, m) \in Seq(AnyPart)
        /\ Len(SubSeq(r, 1, m)) = m /\ Len(SubSeq(t, 1, m)) = m
        /\ \A i \in 1 .. m : SubSeq(r, 1, m)[i] = r[i] /\ SubSeq(t, 1, m)[i] = t[i]
    <3>1. /\ \A i \in 1 .. m : r[i] \in AnyPart
          /\ \A i \in 1 .. m : t[i] \in AnyPart
          /\ m \in Int /\ (IF 1 <= m THEN m - 1 + 1 ELSE 0) = m
          /\ m - 1 + 1 = m /\ \A i \in 1 .. m : 1 + i - 1 = i
      BY <1>1, <1>2
    <3>2. /\ SubSeq(r, 1, m) \in Seq(AnyPart) /\ Len(SubSeq(r, 1, m)) = m
          /\ \A i \in 1 .. m : SubSeq(r, 1, m)[i] = r[i]
      BY <3>1, SubSeqProperties
    <3>3. /\ SubSeq(t, 1, m) \in Seq(AnyPart) /\ Len(SubSeq(t, 1, m)) = m
          /\ \A i \in 1 .. m : SubSeq(t, 1, m)[i] = t[i]
      BY <3>1, SubSeqProperties
    <3> QED
      BY <3>2, <3>3
  <2> DEFINE a == SubSeq(r, 1, m)
             b == SubSeq(t, 1, m)
  <2> HIDE DEF a, b
  <2>2. a \in Seq(AnyPart) /\ b \in Seq(AnyPart) /\ Len(a) = Len(b) /\ \A i \in 1 .. Len(a) : a[i] = b[i]
    BY <1>2, <2>1 DEF a, b
  <2>3. a = b
    BY <2>2
  <2> QED
    BY <2>3 DEF a, b
<1> QED
  BY <1>1, <1>3 DEF IsSuffix, IsPrefix, r, t, m

(* What NoLies says of the types, without what the parts tell.             *)
LinkTypes ==
  /\ requests \in Seq(Request_) /\ sent \in Nat
  /\ outgoing \in Seq(AnyPart) /\ replies \in Seq(AnyPart) /\ client.got \in Seq(AnyPart)
  /\ client \in [until : Waits, got : Seq(AnyPart), clean : BOOLEAN]
  /\ answer.got \in Seq(AnyPart)

LEMMA TypesOfLink == UploadInv => LinkTypes
<1> SUFFICES ASSUME UploadInv PROVE LinkTypes
  OBVIOUS
<1>1. Telling \subseteq AnyPart
  BY DEF Telling, AnyPart
<1>2. \A s \in Seq(Telling) : s \in Seq(AnyPart)
  BY <1>1
<1>3. /\ outgoing \in Seq(Telling) /\ replies \in Seq(Telling) /\ answer.got \in Seq(Telling)
      /\ client \in [until : Waits, got : Seq(Telling), clean : BOOLEAN]
  BY DEF UploadInv, NoLies, Waits
<1>4. client \in [until : Waits, got : Seq(AnyPart), clean : BOOLEAN]
  BY <1>2, <1>3
<1> QED
  BY <1>2, <1>3, <1>4 DEF LinkTypes, UploadInv, UploadTypeOK

LEMMA OfTakenConcat ==
  ASSUME NEW a \in Seq(AnyPart), NEW b \in Seq(AnyPart), OfTaken(a), OfTaken(b)
  PROVE  OfTaken(a \o b)
<1> DEFINE c == a \o b
<1>1. /\ Len(c) = Len(a) + Len(b) /\ Len(a) \in Nat /\ Len(b) \in Nat
      /\ \A i \in 1 .. Len(a) + Len(b) : c[i] = IF i <= Len(a) THEN a[i] ELSE b[i - Len(a)]
  BY ConcatProperties
<1> HIDE DEF c
<1>2. \A i \in 1 .. Len(c) : i \in 1 .. Len(a) \/ (~(i <= Len(a)) /\ i - Len(a) \in 1 .. Len(b))
  BY <1>1
<1>3. \A i \in 1 .. Len(c) : \/ i \in 1 .. Len(a) /\ c[i] = a[i]
                             \/ i - Len(a) \in 1 .. Len(b) /\ c[i] = b[i - Len(a)]
  BY <1>1, <1>2
<1>4. OfTaken(c)
  BY <1>3 DEF OfTaken
<1> QED
  BY <1>4 DEF c

LEMMA OfTakenBounds ==
  ASSUME NEW s \in Seq(AnyPart), OfTaken(s)
  PROVE  \A k \in 1 .. Len(s) : s[k].to \in Nat /\ s[k].to <= TakenUp
<1>1. \A k \in 1 .. Len(s) : s[k] \in AnyPart
  OBVIOUS
<1>2. \A k \in 1 .. Len(s) : s[k].to \in Nat
  BY <1>1 DEF AnyPart
<1> QED
  BY <1>2 DEF OfTaken

StreamTaken == Stream \in Seq(AnyPart) /\ OfTaken(Stream)

LEMMA StreamIsTaken == LinkTypes /\ AllTaken => StreamTaken
<1> SUFFICES ASSUME LinkTypes, AllTaken PROVE StreamTaken
  OBVIOUS
<1> DEFINE g == client.got
           r == replies
           o == outgoing
           ro == r \o o
           all == g \o ro
<1>0. \A x \in Seq(AnyPart), y \in Seq(AnyPart) :
        /\ x \o y \in Seq(AnyPart) /\ Len(x \o y) = Len(x) + Len(y)
        /\ OfTaken(x) /\ OfTaken(y) => OfTaken(x \o y)
  BY ConcatProperties, OfTakenConcat
<1>1. g \in Seq(AnyPart) /\ r \in Seq(AnyPart) /\ o \in Seq(AnyPart)
      /\ OfTaken(g) /\ OfTaken(r) /\ OfTaken(o)
  BY DEF LinkTypes, AllTaken
<1> HIDE DEF g, r, o
<1>2. ro \in Seq(AnyPart) /\ Len(ro) = Len(r) + Len(o) /\ OfTaken(ro)
  BY <1>0, <1>1, Zenon
<1> HIDE DEF ro
<1>3. all \in Seq(AnyPart) /\ Len(all) = Len(g) + Len(ro) /\ OfTaken(all)
  BY <1>0, <1>1, <1>2, Zenon
<1> HIDE DEF all
<1> QED
  BY <1>2, <1>3 DEF StreamTaken, Stream, g, r, o, ro, all

-----------------------------------------------------------------------------
(***************************************************************************)
(* The steps.                                                              *)
(***************************************************************************)
LEMMA AskInStep ==
  ASSUME LinkTypes, InStep, NEW step \in Asking, NEW until, Ask(step, until)
  PROVE  InStep'
<1> DEFINE q == Len(requests)
<1>1. /\ q \in Nat /\ Len(requests') = q + 1
      /\ \A k \in 1 .. q : requests'[k] = requests[k]
      /\ requests'[q + 1].n = sent + 1 /\ sent' = sent + 1 /\ sent \in Nat
  <2>1. [n |-> sent + 1, asks |-> step] \in Request_
    BY DEF LinkTypes, Request_
  <2> QED
    BY <2>1, AppendProperties DEF Ask, LinkTypes
<1>2. TakenUp' = TakenUp /\ TakenUp \in Int /\ TakenUp <= sent
  BY <1>1 DEF TakenUp
<1>3. Numbered'
  <2>1. q <= sent /\ \A k \in 1 .. q : requests[k].n = TakenUp + k
    BY DEF InStep, Numbered
  <2>2. TakenUp + (q + 1) = sent + 1
    BY <1>1 DEF TakenUp
  <2>3. \A k \in 1 .. q + 1 : k \in 1 .. q \/ k = q + 1
    BY <1>1
  <2>4. \A k \in 1 .. q + 1 : requests'[k].n = TakenUp + k
    BY <1>1, <2>1, <2>2, <2>3
  <2>5. q + 1 <= sent'
    BY <1>1, <2>1
  <2> QED
    BY <1>1, <1>2, <2>4, <2>5 DEF Numbered
<1>4. client = Ready /\ client.got = <<>> /\ client'.got = <<>> /\ UNCHANGED <<outgoing, replies>>
  BY DEF Ask, Ready
<1>5. AllTaken'
  BY <1>2, <1>4 DEF InStep, AllTaken, OfTaken
<1>6. SaidLater'
  BY DEF SaidLater, Ask
<1>7. Stream' = Stream /\ said' = <<>>
  BY <1>4 DEF Stream, Ask
<1>8. EndsIn(<<>>, Stream, sent + 1)
  <2>1. Stream \in Seq(AnyPart) /\ OfTaken(Stream)
    BY StreamIsTaken DEF InStep, StreamTaken
  <2>2. \A k \in 1 .. Len(Stream) : Stream[k].to < sent + 1
    <3> HIDE DEF Stream
    <3>1. \A k \in 1 .. Len(Stream) : Stream[k] \in AnyPart /\ Stream[k].to <= TakenUp
      BY <2>1 DEF OfTaken
    <3>2. \A k \in 1 .. Len(Stream) : Stream[k].to \in Nat
      BY <3>1 DEF AnyPart
    <3> QED
      BY <1>1, <1>2, <3>1, <3>2
  <2> QED
    BY <1>1, <2>1, <2>2, EndsInItself
<1>9. client'.clean => Stream' = said' /\ q = 0
  <2> SUFFICES ASSUME client'.clean PROVE Stream' = said' /\ q = 0
    OBVIOUS
  <2>1. requests = <<>> /\ outgoing = <<>> /\ replies = <<>>
    BY DEF Ask, Quiet
  <2>2. Stream = <<>>
    BY <1>4, <2>1 DEF Stream
  <2> QED
    BY <1>7, <2>1, <2>2
<1>10. WaitsFor'
  BY <1>1, <1>7, <1>8, <1>9 DEF WaitsFor
<1>11. HasGot'
  BY DEF HasGot, Ask, NoAnswer
<1> QED
  BY <1>3, <1>5, <1>6, <1>10, <1>11 DEF InStep

LEMMA TakeUpInStep ==
  ASSUME LinkTypes, LinkTypes', InStep, NEW contents, TakeUp(contents)
  PROVE  InStep'
<1> DEFINE q == Len(requests)
<1>1. /\ q \in Nat /\ q > 0 /\ Len(requests') = q - 1
      /\ \A k \in 1 .. q - 1 : requests'[k] = requests[k + 1] /\ k + 1 \in 1 .. q
      /\ Head(requests) = requests[1] /\ 1 \in 1 .. q
  BY HeadTailProperties DEF TakeUp, LinkTypes
<1>2. /\ sent \in Nat /\ sent' = sent /\ TakenUp' = TakenUp + 1 /\ TakenUp \in Int
      /\ Head(requests).n = TakenUp + 1 /\ q <= sent
  <2>1. Head(requests).n = TakenUp + 1 /\ q <= sent
    BY <1>1 DEF InStep, Numbered
  <2>2. sent \in Nat /\ sent' = sent
    BY DEF TakeUp, LinkTypes
  <2> QED
    BY <1>1, <2>1, <2>2 DEF TakenUp
<1>3. Numbered'
  <2>1. \A k \in 1 .. q - 1 : requests'[k].n = TakenUp + 1 + k
    <3> TAKE k \in 1 .. q - 1
    <3>1. requests[k + 1].n = TakenUp + (k + 1)
      BY <1>1 DEF InStep, Numbered
    <3> QED
      BY <1>1, <1>2, <3>1
  <2>2. q - 1 <= sent
    BY <1>1, <1>2
  <2> QED
    BY <1>1, <1>2, <2>1, <2>2 DEF Numbered
<1>4. outgoing = <<>> /\ UNCHANGED <<replies, client, answer>>
  BY DEF TakeUp
<1>5. \A k \in 1 .. Len(outgoing') : outgoing'[k].to = TakenUp + 1
  <2>1. outgoing' = [k \in DOMAIN contents |-> Part(TakenUp + 1, contents[k])]
    BY <1>2 DEF TakeUp, Reply
  <2>2. 1 .. Len(outgoing') = DOMAIN outgoing'
    OBVIOUS
  <2> QED
    BY <2>1, <2>2 DEF Part
<1>6. \A s \in Seq(AnyPart) : OfTaken(s) => OfTaken(s)'
  <2> SUFFICES ASSUME NEW s \in Seq(AnyPart), OfTaken(s) PROVE \A k \in 1 .. Len(s) : s[k].to <= TakenUp + 1
    BY <1>2 DEF OfTaken
  <2>1. \A k \in 1 .. Len(s) : s[k].to \in Nat /\ s[k].to <= TakenUp
    BY OfTakenBounds
  <2> QED
    BY <1>2, <2>1
<1>7. AllTaken'
  <2>1. \A k \in 1 .. Len(client.got) : client.got[k].to <= TakenUp + 1
    BY <1>2, <1>6 DEF LinkTypes, InStep, AllTaken, OfTaken
  <2>2. \A k \in 1 .. Len(replies) : replies[k].to <= TakenUp + 1
    BY <1>2, <1>6 DEF LinkTypes, InStep, AllTaken, OfTaken
  <2> QED
    BY <1>2, <1>4, <1>5, <2>1, <2>2 DEF AllTaken, OfTaken
<1>8. Stream \in Seq(AnyPart) /\ OfTaken(Stream)
  BY StreamIsTaken DEF InStep, StreamTaken
<1>9. said' = (IF q = 1 THEN outgoing' ELSE said) /\ said = <<>> /\ said \in Seq(AnyPart)
  <2>1. said = <<>> /\ said \in Seq(AnyPart)
    BY DEF InStep, SaidLater, TakeUp
  <2>2. TakenUp + 1 = sent <=> q = 1
    BY <1>1, <1>2 DEF TakenUp
  <2> QED
    BY <1>2, <2>1, <2>2 DEF TakeUp
<1>10. SaidLater'
  <2>1. requests' # <<>> => q # 1
    BY <1>1
  <2> QED
    BY <1>9, <2>1 DEF SaidLater, LinkTypes
<1>11. Stream' = Stream \o outgoing'
  <2> DEFINE g == client.got
             r == replies
             o == outgoing'
  <2>1. g \in Seq(AnyPart) /\ r \in Seq(AnyPart) /\ o \in Seq(AnyPart)
    BY DEF LinkTypes
  <2>2. Stream = g \o r /\ Stream' = g \o (r \o o)
    BY <1>4, <2>1, ConcatEmptySeq DEF Stream
  <2> HIDE DEF g, r, o
  <2>3. Associate(g, r, o)
    BY <2>1, Associates
  <2> QED
    BY <2>2, <2>3 DEF Associate, o
<1>12. \A k \in 1 .. Len(Stream) : Stream[k].to < sent
  <2>1. \A k \in 1 .. Len(Stream) : Stream[k].to \in Nat /\ Stream[k].to <= TakenUp
    BY <1>8, OfTakenBounds
  <2>2. TakenUp < sent
    BY <1>1, <1>2 DEF TakenUp
  <2> QED
    BY <1>2, <2>1, <2>2
<1>13. WaitsFor'
  <2> SUFFICES ASSUME Waiting PROVE (EndsIn(said, Stream, sent) /\ (client.clean => Stream = said /\ Len(requests) <= 1))'
    BY <1>4 DEF WaitsFor, Waiting, Ready
  <2>1. EndsIn(said', Stream', sent)
    <3>1. CASE q = 1
      <4> HIDE DEF Stream
      <4>1. EndsIn(outgoing', Stream \o outgoing', sent)
        BY <1>2, <1>8, <1>12, EndsInItself DEF LinkTypes
      <4> QED
        BY <1>9, <1>11, <3>1, <4>1
    <3>2. CASE q # 1
      <4>1. Stream' \in Seq(AnyPart) /\ OfTaken(Stream)'
        <5>1. LinkTypes' /\ AllTaken' => StreamTaken'
          BY StreamIsTaken, PTL
        <5> QED
          BY <1>7, <5>1 DEF StreamTaken
      <4> HIDE DEF Stream
      <4>2. \A k \in 1 .. Len(Stream') : Stream'[k].to \in Nat /\ Stream'[k].to <= TakenUp + 1
        <5>1. \A k \in 1 .. Len(Stream') : Stream'[k] \in AnyPart
          BY <4>1
        <5>2. \A k \in 1 .. Len(Stream') : Stream'[k].to \in Nat
          BY <5>1 DEF AnyPart
        <5> QED
          BY <1>2, <4>1, <5>2 DEF OfTaken
      <4>3. TakenUp + 1 < sent
        BY <1>1, <1>2, <3>2 DEF TakenUp
      <4>4. \A k \in 1 .. Len(Stream') : Stream'[k].to < sent
        BY <1>2, <4>2, <4>3
      <4> QED
        BY <1>2, <1>9, <3>2, <4>1, <4>4, EndsInItself
    <3> QED
      BY <3>1, <3>2
  <2>2. ASSUME client.clean
        PROVE  Stream' = said' /\ Len(requests') <= 1
    <3>1. Stream = <<>> /\ q = 1
      BY <1>1, <1>9, <2>2 DEF InStep, WaitsFor
    <3>2. Stream' = outgoing'
      BY <1>11, <3>1, ConcatEmptySeq DEF LinkTypes
    <3> QED
      BY <1>1, <1>9, <3>1, <3>2
  <2> QED
    BY <1>2, <1>4, <2>1, <2>2
<1>14. HasGot'
  BY <1>4 DEF InStep, HasGot, Quiet, TakeUp
<1> QED
  BY <1>3, <1>7, <1>10, <1>13, <1>14 DEF InStep

LEMMA SendInStep ==
  ASSUME LinkTypes, InStep, SendPart
  PROVE  InStep'
<1>1. /\ outgoing # <<>> /\ replies' = Append(replies, Head(outgoing)) /\ outgoing' = Tail(outgoing)
      /\ UNCHANGED <<requests, client, answer, sent, said>>
  BY DEF SendPart
<1>2. /\ TakenUp' = TakenUp /\ Numbered' /\ SaidLater'
      /\ OfTaken(client.got) /\ OfTaken(replies) /\ OfTaken(outgoing)
  BY <1>1 DEF InStep, TakenUp, Numbered, SaidLater, AllTaken
<1>3. AllTaken'
  <2>1. /\ Head(outgoing) = outgoing[1] /\ outgoing[1] \in AnyPart /\ 1 \in 1 .. Len(outgoing)
        /\ Len(outgoing') = Len(outgoing) - 1
        /\ \A i \in 1 .. Len(outgoing) - 1 : outgoing'[i] = outgoing[i + 1] /\ i + 1 \in 1 .. Len(outgoing)
    BY <1>1, HeadTailProperties DEF LinkTypes
  <2>2. /\ Len(replies') = Len(replies) + 1 /\ replies'[Len(replies) + 1] = outgoing[1]
        /\ \A i \in 1 .. Len(replies) : replies'[i] = replies[i]
        /\ \A i \in 1 .. Len(replies) + 1 : i \in 1 .. Len(replies) \/ i = Len(replies) + 1
    BY <1>1, <2>1, AppendProperties DEF LinkTypes
  <2>3. \A i \in 1 .. Len(outgoing') : outgoing'[i].to <= TakenUp
    BY <1>2, <2>1 DEF OfTaken
  <2>4. \A i \in 1 .. Len(replies') : replies'[i].to <= TakenUp
    BY <1>2, <2>1, <2>2 DEF OfTaken
  <2> QED
    BY <1>1, <1>2, <2>3, <2>4 DEF AllTaken, OfTaken
<1>4. Stream' = Stream
  BY <1>1, SendingKeepsOrder DEF Stream, LinkTypes
<1>5. WaitsFor'
  BY <1>1, <1>4 DEF InStep, WaitsFor, Waiting, Ready, EndsIn
<1>6. HasGot'
  BY <1>1 DEF InStep, HasGot, Quiet
<1> QED
  BY <1>2, <1>3, <1>5, <1>6 DEF InStep

LEMMA ReadsInStep ==
  ASSUME LinkTypes, InStep, ReadSome \/ ReadNothing
  PROVE  InStep'
<1>1. Waiting /\ UNCHANGED <<requests, outgoing, sent, said>>
  BY DEF ReadSome, ReadNothing
<1>2. /\ TakenUp' = TakenUp /\ Numbered' /\ SaidLater' /\ Quiet' = Quiet
      /\ OfTaken(client.got) /\ OfTaken(replies) /\ OfTaken(outgoing)
      /\ EndsIn(said, Stream, sent) /\ (client.clean => Stream = said /\ Len(requests) <= 1)
  BY <1>1 DEF InStep, TakenUp, Numbered, SaidLater, AllTaken, WaitsFor, Quiet
<1>3. ASSUME NEW got, Return(got)
      PROVE  client' = Ready /\ OfTaken(client.got)' /\ WaitsFor'
  <2>1. client' = Ready /\ client'.got = <<>>
    BY <1>3 DEF Return, Ready
  <2> QED
    BY <2>1 DEF OfTaken, WaitsFor, Waiting, Ready
<1>4. CASE ReadNothing
  <2>1. Return(client.got) /\ replies = <<>> /\ replies' = <<>>
    BY <1>4 DEF ReadNothing
  <2>2. AllTaken'
    BY <1>1, <1>2, <1>3, <2>1 DEF AllTaken, OfTaken
  <2>3. HasGot'
    <3>1. /\ answer'.until = client.until /\ answer'.got = client.got /\ answer'.to = sent
          /\ answer'.clean = client.clean /\ answer'.early = ~Quiet
      BY <2>1 DEF Return
    <3> SUFFICES ASSUME ~answer'.early
                 PROVE  /\ Quiet' /\ EndsIn(said', answer'.got, answer'.to)
                        /\ answer'.clean => answer'.got = said'
      BY DEF HasGot, EndsIn
    <3>2. Quiet
      BY <3>1
    <3>3. Stream = client.got
      BY <2>1, <3>2, ConcatEmptySeq DEF Quiet, Stream, LinkTypes
    <3> QED
      BY <1>1, <1>2, <3>1, <3>2, <3>3
  <2> QED
    BY <1>2, <1>3, <2>1, <2>2, <2>3 DEF InStep
<1>5. CASE ReadSome
  <2>1. PICK k \in 1 .. Len(replies) :
          LET got == client.got \o SubSeq(replies, 1, k)
          IN /\ replies' = SubSeq(replies, k + 1, Len(replies))
             /\ IF EndsWithRead(client.until) THEN Return(got)
                ELSE client' = [client EXCEPT !.got = got] /\ UNCHANGED answer
    BY <1>5 DEF ReadSome
  <2> DEFINE head == SubSeq(replies, 1, k)
             got  == client.got \o head
  <2>2. replies \in Seq(AnyPart) /\ Len(replies) \in Nat /\ k \in Nat /\ k <= Len(replies)
    BY DEF LinkTypes
  <2>3. /\ head \in Seq(AnyPart) /\ Len(head) = k
        /\ \A i \in 1 .. k : head[i] = replies[i]
    <3>1. /\ \A i \in 1 .. k : replies[i] \in AnyPart
          /\ k \in Int /\ (IF 1 <= k THEN k - 1 + 1 ELSE 0) = k
          /\ k - 1 + 1 = k /\ \A i \in 1 .. k : 1 + i - 1 = i
      BY <2>2
    <3> QED
      BY <3>1, SubSeqProperties
  <2>4. /\ replies' \in Seq(AnyPart)
        /\ \A i \in 1 .. Len(replies') : \E j \in 1 .. Len(replies) : replies'[i] = replies[j]
    <3> DEFINE n == Len(replies)
               t == SubSeq(replies, k + 1, n)
    <3>1. \A i \in k + 1 .. n : replies[i] \in AnyPart
      BY <2>2
    <3>2. /\ t \in Seq(AnyPart) /\ Len(t) = IF k + 1 <= n THEN n - (k + 1) + 1 ELSE 0
          /\ \A i \in 1 .. n - (k + 1) + 1 : t[i] = replies[k + 1 + i - 1]
      BY <2>2, <3>1, SubSeqProperties
    <3> HIDE DEF t
    <3>3. \A i \in 1 .. Len(t) : i \in 1 .. n - (k + 1) + 1 /\ k + 1 + i - 1 \in 1 .. n
      BY <2>2, <3>2
    <3> QED
      BY <2>1, <3>2, <3>3 DEF t
  <2>5. OfTaken(replies)'
    BY <1>2, <2>4 DEF OfTaken
  <2>6. CASE EndsWithRead(client.until)
    <3>1. Return(got)
      BY <2>1, <2>6
    <3>2. answer'.until # "silence"
      BY <2>6, <3>1 DEF Return, EndsWithRead
    <3> QED
      BY <1>1, <1>2, <1>3, <2>5, <3>1, <3>2 DEF InStep, AllTaken, OfTaken, HasGot
  <2>7. CASE ~EndsWithRead(client.until)
    <3>1. client' = [client EXCEPT !.got = got] /\ UNCHANGED answer
      BY <2>1, <2>7
    <3>2. client'.got = got /\ client'.clean = client.clean
      BY <3>1 DEF LinkTypes
    <3>3. OfTaken(got)
      <4>1. OfTaken(head)
        BY <1>2, <2>2, <2>3 DEF OfTaken
      <4> HIDE DEF head
      <4> QED
        BY <1>2, <2>3, <4>1, OfTakenConcat DEF LinkTypes
    <3>4. AllTaken'
      BY <1>1, <1>2, <2>5, <3>2, <3>3 DEF AllTaken, OfTaken
    <3>5. Stream' = Stream
      <4> DEFINE g == client.got
                 r == replies
                 o == outgoing
      <4>1. g \in Seq(AnyPart) /\ r \in Seq(AnyPart) /\ o \in Seq(AnyPart) /\ k \in 1 .. Len(r)
        BY DEF LinkTypes
      <4>2. Stream' = (g \o SubSeq(r, 1, k)) \o (SubSeq(r, k + 1, Len(r)) \o o)
        BY <1>1, <2>1, <3>2 DEF Stream
      <4>3. Stream = g \o (r \o o)
        BY DEF Stream
      <4> HIDE DEF g, r, o
      <4>4. MovesOn(g, r, o, k)
        BY <4>1, ReadingKeepsOrder
      <4> QED
        BY <4>2, <4>3, <4>4 DEF MovesOn
    <3>6. WaitsFor'
      BY <1>1, <1>2, <3>2, <3>5 DEF WaitsFor
    <3>7. HasGot'
      BY <1>1, <1>2, <3>1 DEF InStep, HasGot
    <3> QED
      BY <1>2, <3>4, <3>6, <3>7 DEF InStep
  <2> QED
    BY <2>6, <2>7
<1> QED
  BY <1>4, <1>5

LEMMA EmptyInStep == Empty /\ said = <<>> => InStep
<1> SUFFICES ASSUME Empty, said = <<>> PROVE InStep
  OBVIOUS
<1> USE DEF Empty
<1>1. Len(requests) = 0 /\ sent = 0 /\ client.got = <<>>
  BY DEF Ready
<1>2. Numbered /\ AllTaken /\ SaidLater
  BY <1>1 DEF Numbered, AllTaken, OfTaken, SaidLater
<1>3. WaitsFor /\ HasGot
  BY DEF WaitsFor, Waiting, HasGot, NoAnswer
<1> QED
  BY <1>2, <1>3 DEF InStep

LEMMA UnchangedInStep ==
  ASSUME InStep, UNCHANGED <<requests, outgoing, client, sent, said>>,
         (UNCHANGED <<replies, answer>>) \/ (client = Ready /\ answer' = NoAnswer /\ replies' \in {<<>>, replies})
  PROVE  InStep'
<1>1. Numbered' /\ SaidLater' /\ TakenUp' = TakenUp
  BY DEF InStep, Numbered, SaidLater, TakenUp
<1>2. AllTaken'
  BY <1>1 DEF InStep, AllTaken, OfTaken
<1>3. WaitsFor'
  BY DEF InStep, WaitsFor, Waiting, Stream, EndsIn, Ready
<1>4. HasGot'
  BY DEF InStep, HasGot, Quiet, EndsIn, NoAnswer
<1> QED
  BY <1>1, <1>2, <1>3, <1>4 DEF InStep

LEMMA StepInStep ==
  ASSUME UploadInv, UploadInv', InStep, UploadNext \/ UNCHANGED uploadVars
  PROVE  InStep'
<1>1. LinkTypes /\ LinkTypes'
  <2>1. UploadInv' => LinkTypes'
    BY TypesOfLink, PTL
  <2> QED
    BY <2>1, TypesOfLink
<1>2. CASE OnTarget
  <2>1. PICK contents : TakeUp(contents)
    BY <1>2 DEF OnTarget, GetVersion, GetProduct, GetMain, entrypoint_preloader, Download, Handle,
                my_fb_cmd_oem_dbg, cmd_write_memory, cmd_default, OemOfDebugger
  <2> QED
    BY <1>1, <2>1, TakeUpInStep
<1>3. CASE NextStep
  <2>1. PICK until \in Waits : Ask(main[script + 1], until)
    BY <1>3, NextStepAsks DEF UploadInv
  <2> QED
    BY <1>1, <1>3, <2>1, NextStepAsks, AskInStep DEF UploadInv
<1>4. ASSUME NEW cmd \in Commands, Debug(cmd)
      PROVE  InStep'
  BY <1>1, <1>4, DebugAsks, AskInStep DEF UploadInv
<1>5. CASE EndOfScript
  BY <1>5, UnchangedInStep DEF EndOfScript, linkVars
<1>6. CASE StartScript
  BY <1>6, UnchangedInStep DEF StartScript
<1>7. CASE Reads
  BY <1>1, <1>7, ReadsInStep DEF Reads
<1>8. CASE Sends
  BY <1>1, <1>8, SendInStep DEF Sends
<1>9. CASE PowerCycle
  <2>1. Empty' /\ said' = <<>>
    BY <1>9 DEF PowerCycle, Empty, Fresh, Ready, NoAnswer, Gone
  <2>2. Empty' /\ (said = <<>>)' => InStep'
    BY EmptyInStep, PTL
  <2> QED
    BY <2>1, <2>2
<1>10. CASE UNCHANGED uploadVars
  BY <1>10, UnchangedInStep DEF uploadVars, linkVars
<1> QED
  BY <1>2, <1>3, <1>4, <1>5, <1>6, <1>7, <1>8, <1>9, <1>10 DEF UploadNext, Host, OnTarget

(* The stream of the replies stays in step with the requests, whatever the *)
(* target delays.                                                          *)
THEOREM LinkInStep == UploadSpec => []InStep
<1>1. UploadInit => InStep
  <2>1. UploadInit => Empty /\ said = <<>>
    BY DEF UploadInit, LinkInit, Empty
  <2> QED
    BY <2>1, EmptyInStep
<1>2. UploadInv /\ UploadInv' /\ InStep /\ [UploadNext]_uploadVars => InStep'
  BY StepInStep
<1> QED
  BY <1>1, <1>2, UploadSafe, PTL DEF UploadSpec

(* A wait that ended in silence, and not too early, has got the reply to   *)
(* its own request, after what was late of earlier ones, and nothing else  *)
(* on a line that was clean.                                               *)
THEOREM UploadInStep == UploadSpec => []RepliesInStep
<1>1. UploadInv /\ InStep => RepliesInStep
  <2> SUFFICES ASSUME UploadInv, InStep, answer.until = "silence", ~answer.early
               PROVE  /\ IsSuffix(said, answer.got)
                      /\ \A k \in 1 .. Len(answer.got) - Len(said) : answer.got[k].to < answer.to
                      /\ answer.clean => answer.got = said
    BY DEF RepliesInStep
  <2>1. EndsIn(said, answer.got, answer.to) /\ (answer.clean => answer.got = said)
    BY DEF InStep, HasGot
  <2>2. said \in Seq(AnyPart) /\ answer.got \in Seq(AnyPart)
    BY TypesOfLink DEF InStep, SaidLater, LinkTypes
  <2>3. IsSuffix(said, answer.got)
    BY <2>1, <2>2, EndsInSuffix
  <2> QED
    BY <2>1, <2>3 DEF EndsIn
<1> QED
  BY <1>1, LinkInStep, UploadSafe, PTL
=============================================================================
