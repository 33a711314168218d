--------------------------- MODULE QueueFlowLimit ---------------------------
(***************************************************************************)
(* Producer flow control, qpid::broker::QueueFlowLimit, driven by its unit *)
(* test (src/cpp/src/tests/QueueFlowLimitTest.cpp).                       *)
(*                                                                         *)
(* QueueFlowLimit itself is not in this tree: its threshold machine        *)
(* (enqueued, dequeued, createLimit, setDefaults) is modelled from the     *)
(* specification (section 4.4).  The test cases are translated step by     *)
(* step into one script, in the file's order (setDefaults is static, so    *)
(* the defaults of one case carry over to the next); a message is its      *)
(* size.  TestExpectation states every BOOST_CHECK of the script.           *)
(***************************************************************************)
EXTENDS Naturals, Sequences, TLC

\* The limit of a queue, or its absence (createLimit returned 0).
NoLimit == [none |-> TRUE]

Limit(sc, rc, ss, rs) ==
  [stopCount |-> sc, resumeCount |-> rc, stopSize |-> ss, resumeSize |-> rs]

\* A queue argument table: a function from some of the four flow keys.
Arg(args, k) == IF k \in DOMAIN args THEN args[k] ELSE 0

-----------------------------------------------------------------------------
(* The threshold machine (specification, section 4.4).                      *)

\* Mutant: flow stops when an axis reaches its stop value.
EnqueuedAtStop(f, st, sz) ==
  LET c == st.count + 1
      s == st.size + sz
  IN [count |-> c, size |-> s,
      active |-> \/ st.active
                 \/ f.stopCount > 0 /\ c >= f.stopCount
                 \/ f.stopSize > 0 /\ s >= f.stopSize]

\* enqueued: the counters grow; flow stops when an enabled axis goes strictly
\* above its stop value.
Enqueued(f, st, sz) ==
  LET c == st.count + 1
      s == st.size + sz
  IN [count |-> c, size |-> s,
      active |-> \/ st.active
                 \/ f.stopCount > 0 /\ c > f.stopCount
                 \/ f.stopSize > 0 /\ s > f.stopSize]

\* dequeued: the counters shrink; flow resumes only when every enabled axis
\* is strictly below its resume value.
Dequeued(f, st, sz) ==
  LET c == st.count - 1
      s == st.size - sz
      belowResume == /\ (f.resumeCount = 0 \/ c < f.resumeCount)
                     /\ (f.resumeSize = 0 \/ s < f.resumeSize)
  IN [count |-> c, size |-> s, active |-> st.active /\ ~belowResume]

\* createLimit: explicit flow arguments configure only the axes they name,
\* and a limit whose stop values are both 0 is none; without them the
\* broker-wide defaults give a size limit, its stop value rounded to the
\* nearest byte and its resume value truncated (the values the test expects).
CreateLimit(args, d) ==
  IF DOMAIN args \cap {"stopCount", "stopSize", "resumeCount", "resumeSize"} # {}
  THEN IF Arg(args, "stopCount") = 0 /\ Arg(args, "stopSize") = 0
       THEN NoLimit
       ELSE Limit(Arg(args, "stopCount"), Arg(args, "resumeCount"),
                  Arg(args, "stopSize"), Arg(args, "resumeSize"))
  ELSE Limit(0, 0, (d.max * d.stop * 2 + 100) \div 200, (d.max * d.resume) \div 100)

-----------------------------------------------------------------------------
(* The test's operations.                                                   *)

\* A step of the script: a call, or the check that follows it.
Op(name, arg) == [op |-> name, arg |-> arg]
Enq(sz) == Op("enqueued", sz)
Deq(sz) == Op("dequeued", sz)
IsActive(b) == Op("checkActive", b)
FlowCount(n) == Op("checkCount", n)
FlowSize(n) == Op("checkSize", n)
LimitIs(l) == Op("checkLimit", l)

\* n copies of the steps s (the test's for loops).
Rep(n, s) == [i \in 1 .. n * Len(s) |-> s[((i - 1) % Len(s)) + 1]]

\* TestFlow::createTestFlow: a limit built straight from the four values,
\* with no defaults and no disabling; then the checks of its getters, of
\* isFlowControlActive and of monitorFlowControl.
CreateTestFlow(sc, rc, ss, rs) ==
  << Op("testFlow", Limit(sc, rc, ss, rs)), LimitIs(Limit(sc, rc, ss, rs)), IsActive(FALSE) >>

\* TestFlow::getQueueFlowLimit: QueueSettings::populate, then createLimit.
GetQueueFlowLimit(args) == << Op("createLimit", args) >>

\* testFlowCount: stop 7, resume 5 on the count axis.
FlowCountTest ==
  CreateTestFlow(7, 5, 0, 0)
  \o Rep(6, << Enq(10), IsActive(FALSE) >>) \o << IsActive(FALSE) >>
  \o << Enq(10), IsActive(FALSE), Enq(10), IsActive(TRUE), Enq(10), IsActive(TRUE) >>
  \o Rep(4, << Deq(10), IsActive(TRUE) >>)
  \o << Deq(10), IsActive(FALSE) >>

\* testFlowSize: stop 70, resume 50 bytes.
FlowSizeTest ==
  CreateTestFlow(0, 0, 70, 50)
  \o Rep(6, << Enq(10), IsActive(FALSE) >>)
  \o << IsActive(FALSE), FlowCount(6), FlowSize(60) >>
  \o << Enq(9), IsActive(FALSE), Enq(1), IsActive(FALSE), Enq(1), IsActive(TRUE) >>
  \o << Enq(10), IsActive(TRUE), FlowCount(10), FlowSize(81) >>
  \o Rep(3, << Deq(10), IsActive(TRUE) >>)
  \o << Deq(1), IsActive(TRUE), Deq(1), IsActive(FALSE), Deq(9), IsActive(FALSE) >>
  \o Rep(2, << Deq(10), IsActive(FALSE) >>)
  \o << FlowCount(2), FlowSize(20) >>

\* testFlowCombo: count 10/5 and size 200/100 together.
FlowComboTest ==
  CreateTestFlow(10, 5, 200, 100)
  \o Rep(10, << Enq(10), IsActive(FALSE) >>)
  \o << Enq(1), IsActive(TRUE) >>
  \o Rep(6, << Deq(10), IsActive(TRUE) >>)
  \o << Deq(1), IsActive(FALSE) >>
  \o Rep(4, << Deq(10), IsActive(FALSE) >>)
  \o << Enq(100), IsActive(FALSE), Enq(50), IsActive(FALSE), Enq(50), IsActive(FALSE) >>
  \o << Enq(1), IsActive(TRUE), Deq(100), IsActive(TRUE), Deq(1), IsActive(TRUE) >>
  \o << Deq(50), IsActive(FALSE) >>
  \o Rep(8, << Enq(10), IsActive(FALSE) >>)
  \o << Enq(10), IsActive(FALSE), Enq(1), IsActive(TRUE), Enq(100), IsActive(TRUE) >>
  \o << Deq(50), IsActive(TRUE) >>
  \o Rep(9, << Deq(10), IsActive(TRUE) >>)
  \o << Deq(1), IsActive(TRUE), Deq(100), IsActive(FALSE) >>

\* testFlowDefaultArgs: defaults 2950001 bytes, 80% / 70%, no arguments.
DefaultArgsTest ==
  << Op("setDefaults", [max |-> 2950001, stop |-> 80, resume |-> 70]) >>
  \o GetQueueFlowLimit(<< >>)
  \o << LimitIs(Limit(0, 0, 2360001, 2065000)), IsActive(FALSE) >>

\* testFlowOverrideArgs: explicit count, size, then both, over the defaults.
OverrideArgsTest ==
  << Op("setDefaults", [max |-> 2950001, stop |-> 80, resume |-> 70]) >>
  \o GetQueueFlowLimit("stopCount" :> 35000 @@ "resumeCount" :> 30000)
  \o << LimitIs(Limit(35000, 30000, 0, 0)), IsActive(FALSE) >>
  \o GetQueueFlowLimit("stopSize" :> 350000 @@ "resumeSize" :> 300000)
  \o << LimitIs(Limit(0, 0, 350000, 300000)), IsActive(FALSE) >>
  \o GetQueueFlowLimit("stopCount" :> 35000 @@ "resumeCount" :> 30000
                       @@ "stopSize" :> 350000 @@ "resumeSize" :> 300000)
  \o << LimitIs(Limit(35000, 30000, 350000, 300000)), IsActive(FALSE) >>

\* testFlowOverrideDefaults: defaults 97% / 73%.
OverrideDefaultsTest ==
  << Op("setDefaults", [max |-> 2950001, stop |-> 97, resume |-> 73]) >>
  \o GetQueueFlowLimit(<< >>)
  \o << LimitIs(Limit(0, 0, 2861501, 2153500)), IsActive(FALSE) >>

\* testFlowDisable: an explicit zero stop value means no limit.
DisableTest ==
  GetQueueFlowLimit("stopCount" :> 0) \o << LimitIs(NoLimit) >>
  \o GetQueueFlowLimit("stopSize" :> 0) \o << LimitIs(NoLimit) >>

\* The test suite in file order (testFlowArgs uses sizes above 2^32, out of
\* TLC's integer range, and is left out).
Script ==
  FlowCountTest \o FlowSizeTest \o FlowComboTest \o DefaultArgsTest
  \o OverrideArgsTest \o OverrideDefaultsTest \o DisableTest

-----------------------------------------------------------------------------

VARIABLES
  flow,      \* the QueueFlowLimit under test, or NoLimit
  state,     \* its counters and flowStopped: [count, size, active]
  defaults,  \* QueueFlowLimit's static defaults (setDefaults)
  pc         \* the next step of Script

vars == <<flow, state, defaults, pc>>

Empty == [count |-> 0, size |-> 0, active |-> FALSE]

Init ==
  /\ flow = NoLimit
  /\ state = Empty
  /\ defaults = [max |-> 0, stop |-> 0, resume |-> 0]
  /\ pc = 1

Step == Script[pc]

\* One call of the test; a check step only moves on.
TestFlowStep ==
  /\ Step.op = "testFlow"
  /\ flow' = Step.arg /\ state' = Empty
  /\ UNCHANGED defaults

SetDefaults ==
  /\ Step.op = "setDefaults"
  /\ defaults' = Step.arg
  /\ UNCHANGED <<flow, state>>

CreateLimitStep ==
  /\ Step.op = "createLimit"
  /\ flow' = CreateLimit(Step.arg, defaults) /\ state' = Empty
  /\ UNCHANGED defaults

Enqueue ==
  /\ Step.op = "enqueued"
  /\ state' = Enqueued(flow, state, Step.arg)
  /\ UNCHANGED <<flow, defaults>>

Dequeue ==
  /\ Step.op = "dequeued"
  /\ state' = Dequeued(flow, state, Step.arg)
  /\ UNCHANGED <<flow, defaults>>

Check ==
  /\ Step.op \in {"checkActive", "checkCount", "checkSize", "checkLimit"}
  /\ UNCHANGED <<flow, state, defaults>>

Next ==
  /\ pc <= Len(Script)
  /\ TestFlowStep \/ SetDefaults \/ CreateLimitStep \/ Enqueue \/ Dequeue \/ Check
  /\ pc' = pc + 1

Spec == Init /\ [][Next]_vars

-----------------------------------------------------------------------------

\* Every BOOST_CHECK of QueueFlowLimitTest: when the script reaches a check,
\* the threshold machine gives the value the test expects (flow control
\* comes on one above a stop value and goes off one below a resume value on
\* every enabled axis; the defaults and explicit arguments give the limits
\* the test names).
TestExpectation ==
  pc <= Len(Script) =>
    CASE Step.op = "checkActive" -> state.active = Step.arg
      [] Step.op = "checkCount" -> state.count = Step.arg
      [] Step.op = "checkSize" -> state.size = Step.arg
      [] Step.op = "checkLimit" -> flow = Step.arg
      [] OTHER -> TRUE

=============================================================================
