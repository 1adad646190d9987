----------------------------- MODULE OtpProofs ------------------------------
(***************************************************************************)
(* shell/otp for any number of instances, slots, tries and pipes.  Pipes   *)
(* are not shared because, until a node is given up without its pipes, the *)
(* only node that may make some is the one the script waits for            *)
(* (OneLaunches), and the numbers in /tmp never go beyond its own          *)
(* (Numbering): so the pipes with the number waited for are its own.       *)
(***************************************************************************)
EXTENDS OtpNodes, FiniteSetTheorems, WellFoundedInduction, TLAPS

USE DEF logVars

\* The node that the script waits for.
Waited == IF script.pc = "wait" THEN {script.of} ELSE {}

ScriptOK ==
    script.pc = "wait" =>
      script.of \in Procs /\ script.I < MAX_INSTANCE_NUMBER

OneLaunches == ~late => Launching \subseteq Waited

\* While the script waits for a node, pipes with its number are its own.
Numbering ==
    ~late =>
      /\ script.pc = "launch" => \A n \in DOMAIN pipes : n <= script.I
      /\ script.pc = "wait" =>
           /\ \A n \in DOMAIN pipes : n <= script.I + 1
           /\ script.of \in Launching => \A n \in DOMAIN pipes : n <= script.I
           /\ proc[script.of].stage = "picked" =>
                proc[script.of].number \notin DOMAIN pipes
                  /\ proc[script.of].number <= script.I + 1
           /\ script.I + 1 \in DOMAIN pipes => made

OneEach == ~late => \A n \in DOMAIN pipes : \A p, q \in pipes[n] : p = q

\* Nodes have their numbers when they need them, and names of their own.
NodesOK ==
    /\ \A p \in Procs :
         /\ proc[p].stage # "dead" => proc[p].name \in Instances
         /\ proc[p].stage = "picked" => proc[p].number \in Numbers
    /\ \A p, q \in Procs :
         proc[p].stage \in Named /\ proc[q].stage \in Named
           /\ proc[p].name = proc[q].name => p = q

OtpInv == OtpTypeOK /\ ScriptOK /\ OneLaunches /\ Numbering /\ OneEach /\ NodesOK

-----------------------------------------------------------------------------
LEMMA Members ==
    /\ \A l \in {"idle", "check", "start", "launch", "wait", "stop", "remove",
                 "status"} : l \in Labels
    /\ 0 \in 0..MAX_INSTANCE_NUMBER /\ 0 \in {0, 1} /\ 1 \in {0, 1}
    /\ 0 \in Procs \cup {0} /\ Nobody \in Nodes
    /\ \A st \in {"dead", "launched", "picked", "booting", "up", "dying",
                  "refused"} : st \in Stages
    /\ \A i \in 0..MAX_INSTANCE_NUMBER :
         i < MAX_INSTANCE_NUMBER => i \in Instances /\ i + 1 \in 0..MAX_INSTANCE_NUMBER
BY OtpBounds DEF Labels, Stages, Nobody, Nodes, Instances

LEMMA InitInv == OtpInit => OtpInv
<1> SUFFICES ASSUME OtpInit PROVE OtpInv
  OBVIOUS
<1>1. OtpTypeOK
  <2>1. "idle" \in Labels /\ "status" \in Commands /\ 0 \in Nat
    BY Members DEF Commands
  <2>2. script \in Scripts
    BY <2>1, Members, OtpBounds DEF OtpInit, Scripts
  <2>3. proc \in [Procs -> Nodes]
    BY Members DEF OtpInit
  <2>4. script.pc = "idle" /\ script.COUNT = 0 /\ DOMAIN pipes = {}
    BY DEF OtpInit
  <2> QED
    BY <2>2, <2>3, <2>4, OtpBounds DEF OtpInit, OtpTypeOK
<1>2. ScriptOK /\ Numbering /\ OneEach
  BY DEF OtpInit, ScriptOK, Numbering, OneEach
<1>3. OneLaunches /\ NodesOK
  BY DEF OtpInit, OneLaunches, NodesOK, Launching, Nobody, Named
<1> QED
  BY <1>1, <1>2, <1>3 DEF OtpInv

\* The steps of the script leave it with a type.
LEMMA ScriptTypes == ASSUME OtpInv, OtpNext PROVE script' \in Scripts
<1> USE Members DEF OtpInv, OtpTypeOK
<1>0. script.I \in 0..MAX_INSTANCE_NUMBER /\ script.COUNT \in Nat
      /\ script.COUNT + 1 \in Nat /\ script.RETVAL \in {0, 1}
  BY DEF Scripts
<1>1. ASSUME NEW cmd \in Commands, Command(cmd) PROVE script' \in Scripts
  BY <1>1 DEF Command, Scripts
<1>2. CASE check_start_bin
  <2>1. script.cmd # "restart" => script.cmd \in Labels
    BY DEF Commands, Scripts
  <2>2. CASE Goto(IF script.cmd = "restart" THEN "stop" ELSE script.cmd)
    BY <1>0, <2>1, <2>2 DEF Goto, Scripts
  <2>3. CASE Exit(1)
    BY <1>0, <2>3 DEF Exit, Scripts
  <2>4. CASE script' = [script EXCEPT !.COUNT = @ + 1]
    BY <1>0, <2>4 DEF Scripts
  <2> QED
    BY <1>2, <2>2, <2>3, <2>4 DEF check_start_bin
<1>3. CASE start
  BY <1>3 DEF start, Scripts
<1>4. CASE Launch
  BY <1>4 DEF Launch, Free, Scripts
<1>5. CASE Wait
  <2>1. script.I + 1 \in 0..MAX_INSTANCE_NUMBER
    BY <1>0, <1>5 DEF Wait, ScriptOK
  <2>2. CASE script' = [script EXCEPT !.COUNT = @ + 1]
    BY <1>0, <2>2 DEF Scripts
  <2>3. ASSUME NEW what, NEW r \in {0, 1}, Logged(what, r) PROVE script' \in Scripts
    BY <1>0, <2>1, <2>3 DEF Logged, Scripts
  <2> QED
    BY <1>0, <1>5, <2>2, <2>3 DEF Wait
<1>6. CASE Started
  BY <1>0, <1>6 DEF Started, Exit, Scripts
<1>7. CASE stop_otp
  <2>1. CASE Goto("remove")
    BY <1>0, <2>1 DEF Goto, Scripts
  <2>2. CASE script' = [script EXCEPT !.pc = "remove", !.COUNT = 0, !.RETVAL = 1]
    BY <1>0, <2>2 DEF Scripts
  <2>3. CASE script' = [script EXCEPT !.COUNT = @ + 1]
    BY <1>0, <2>3 DEF Scripts
  <2> QED
    BY <1>7, <2>1, <2>2, <2>3 DEF stop_otp
<1>8. CASE stop
  BY <1>0, <1>8 DEF stop, Exit, Scripts
<1>9. CASE status
  BY <1>9 DEF status, Exit, Scripts
<1>10. ASSUME NEW p \in Procs, Pick(p) \/ MakePipes(p) \/ Boot(p) \/ Die(p)
       PROVE  script' = script
  BY <1>10 DEF Pick, MakePipes, Boot, Die
<1> QED
  BY <1>1, <1>2, <1>3, <1>4, <1>5, <1>6, <1>7, <1>8, <1>9, <1>10 DEF OtpNext, Script

\* So do the nodes.
LEMMA NodeTypes == ASSUME OtpInv, OtpNext PROVE proc' \in [Procs -> Nodes]
<1> USE Members DEF OtpInv, OtpTypeOK, Nodes
<1>1. CASE UNCHANGED proc
  BY <1>1
<1>2. CASE Launch
  <2>1. script.I \in Instances
    BY <1>2 DEF Launch, Scripts
  <2> QED
    BY <1>2, <2>1 DEF Launch, Free
<1>3. CASE Wait
  BY <1>3 DEF Wait
<1>4. CASE stop_otp
  BY <1>4 DEF stop_otp, Pkill
<1>5. ASSUME NEW p \in Procs, Pick(p) \/ MakePipes(p) \/ Boot(p) \/ Die(p)
      PROVE  proc' \in [Procs -> Nodes]
  BY <1>5 DEF Pick, MakePipes, Boot, Die
<1>6. \/ UNCHANGED proc \/ Launch \/ Wait \/ stop_otp
      \/ \E p \in Procs : Pick(p) \/ MakePipes(p) \/ Boot(p) \/ Die(p)
  BY DEF OtpNext, Script, Command, check_start_bin, start, Started, stop, status
<1> QED
  BY <1>1, <1>2, <1>3, <1>4, <1>5, <1>6

\* The counts keep their bounds.
Counted ==
    /\ script.COUNT <= MAX_CHECKS \/ script.pc # "check"
    /\ script.pc \in {"stop", "wait"} => script.COUNT < MAX_TRIES
    /\ script.pc \notin {"check", "stop", "wait"} => script.COUNT = 0

LEMMA CountsKept == ASSUME OtpInv, OtpNext PROVE Counted'
<1> USE DEF OtpInv, OtpTypeOK, Scripts, Counted
<1>0. /\ script.COUNT \in Nat /\ script.I \in Nat /\ MAX_TRIES \in Nat
      /\ MAX_CHECKS \in Nat /\ 0 < MAX_TRIES
  BY OtpBounds
<1>1. ASSUME NEW cmd \in Commands, Command(cmd) PROVE Counted'
  <2>1. script'.COUNT = 0 /\ script'.pc = "check"
    BY <1>1 DEF Command
  <2> QED
    BY <1>0, <2>1
<1>2. CASE check_start_bin
  <2>1. CASE Goto(IF script.cmd = "restart" THEN "stop" ELSE script.cmd)
    <3>1. script'.COUNT = 0 /\ script'.pc # "check"
      BY <2>1 DEF Goto, Commands
    <3> QED
      BY <1>0, <3>1
  <2>2. CASE Exit(1)
    BY <2>2 DEF Exit
  <2>3. CASE script.COUNT < MAX_CHECKS /\ script' = [script EXCEPT !.COUNT = @ + 1]
    BY <1>0, <1>2, <2>3 DEF check_start_bin
  <2> QED
    BY <1>2, <2>1, <2>2, <2>3 DEF check_start_bin
<1>3. CASE start
  BY <1>3 DEF start
<1>4. CASE Launch
  <2>1. script'.COUNT = 0 /\ script'.pc = "wait"
    BY <1>4 DEF Launch
  <2> QED
    BY <1>0, <2>1
<1>5. CASE Wait
  <2>1. CASE script.COUNT + 1 # MAX_TRIES /\ script' = [script EXCEPT !.COUNT = @ + 1]
    BY <1>0, <1>5, <2>1 DEF Wait
  <2>2. ASSUME NEW what, NEW r, Logged(what, r) PROVE Counted'
    BY <2>2 DEF Logged
  <2> QED
    BY <1>5, <2>1, <2>2 DEF Wait
<1>6. CASE Started
  BY <1>6 DEF Started, Exit
<1>7. CASE stop_otp
  <2>1. CASE script.COUNT + 1 # MAX_TRIES /\ script' = [script EXCEPT !.COUNT = @ + 1]
    BY <1>0, <1>7, <2>1 DEF stop_otp
  <2>2. CASE Goto("remove")
    BY <2>2 DEF Goto
  <2>3. CASE script' = [script EXCEPT !.pc = "remove", !.COUNT = 0, !.RETVAL = 1]
    BY <2>3
  <2> QED
    BY <1>7, <2>1, <2>2, <2>3 DEF stop_otp
<1>8. CASE stop
  <2>1. CASE Exit(script.RETVAL)
    BY <2>1 DEF Exit
  <2>2. CASE script' = [script EXCEPT !.pc = "start", !.RETVAL = 0]
    BY <1>8, <2>2 DEF stop
  <2> QED
    BY <1>8, <2>1, <2>2 DEF stop
<1>9. CASE status
  BY <1>9 DEF status, Exit
<1>10. ASSUME NEW p \in Procs, Pick(p) \/ MakePipes(p) \/ Boot(p) \/ Die(p)
       PROVE  Counted'
  BY <1>10 DEF Pick, MakePipes, Boot, Die
<1> QED
  BY <1>1, <1>2, <1>3, <1>4, <1>5, <1>6, <1>7, <1>8, <1>9, <1>10 DEF OtpNext, Script

\* And the rest of OtpTypeOK.
LEMMA TypesKept == ASSUME OtpInv, OtpNext PROVE OtpTypeOK'
<1> DEFINE LogOK == /\ log \in {"nothing", "started", "failed"}
                    /\ {made, late} \subseteq BOOLEAN
           PipesOK == /\ DOMAIN pipes \subseteq Numbers
                      /\ \A n \in DOMAIN pipes : pipes[n] \subseteq Procs
<1>0. LogOK /\ PipesOK
  BY DEF OtpInv, OtpTypeOK
<1>s. LogOK'
  <2>1. log' \in {log, "nothing", "started", "failed"}
    BY DEF OtpNext, Script, Command, check_start_bin, start, Launch, Wait, Logged,
      Started, stop_otp, stop, status, Pick, MakePipes, Boot, Die
  <2>2. made' \in BOOLEAN
    <3>1. \/ made' = made \/ made' = FALSE
          \/ \E p \in Procs : made' = (made \/ (p = script.of /\ proc[p].number = script.I + 1))
      BY DEF OtpNext, Script, Command, check_start_bin, start, Launch, Wait, Logged,
        Started, stop_otp, stop, status, Pick, MakePipes, Boot, Die
    <3> QED
      BY <1>0, <3>1
  <2>3. late' \in BOOLEAN
    <3>1. \/ late' = late \/ late' = (Launching # {})
          \/ \E what : late' = (late \/ (what = "failed" /\ script.of \in Launching))
      BY DEF OtpNext, Script, Command, check_start_bin, start, Launch, Wait, Logged,
        Started, stop_otp, stop, status, Pick, MakePipes, Boot, Die
    <3> QED
      BY <1>0, <3>1
  <2> QED
    BY <1>0, <2>1, <2>2, <2>3
<1>t. SUFFICES PipesOK'
  BY <1>s, ScriptTypes, NodeTypes, CountsKept DEF OtpTypeOK, Counted
<1>1. CASE UNCHANGED pipes
  BY <1>0, <1>1
<1>2. CASE pipes' = << >>
  <2>1. DOMAIN pipes' = {}
    BY <1>2
  <2> QED
    BY <1>2, <2>1
<1>4. ASSUME NEW p \in Procs, MakePipes(p) PROVE PipesOK'
  <2>1. proc[p].number \in Numbers
    BY <1>4 DEF MakePipes, OtpInv, OtpTypeOK, NodesOK
  <2> QED
    BY <1>4, <2>1 DEF MakePipes, OtpInv, OtpTypeOK
<1>5. ASSUME NEW p \in Procs, Die(p) PROVE PipesOK'
  BY <1>5 DEF Die, OtpInv, OtpTypeOK
<1>6. \/ UNCHANGED pipes \/ pipes' = << >>
      \/ \E p \in Procs : MakePipes(p) \/ Die(p)
  BY DEF OtpNext, Script, Command, check_start_bin, start, Launch, Wait, Logged,
    Started, stop_otp, stop, status, RemovePipes, Pick, Boot
<1> QED
  BY <1>1, <1>2, <1>4, <1>5, <1>6

Rest == ScriptOK /\ OneLaunches /\ Numbering /\ OneEach

\* A step that leaves the script neither launching nor waiting, and lets no
\* node get further.
LEMMA QuietStep ==
    ASSUME OtpInv, UNCHANGED late, pipes' = pipes \/ pipes' = << >>,
           \A q \in Procs : proc'[q].stage \in {"launched", "picked"} =>
             proc[q].stage \in {"launched", "picked"},
           script.pc # "wait", script'.pc \notin {"launch", "wait"}
    PROVE  Rest'
<1>1. ScriptOK' /\ Numbering'
  BY DEF ScriptOK, Numbering
<1>2. OneLaunches'
  BY DEF OtpInv, OneLaunches, Launching, Waited
<1>3. OneEach'
  <2>1. CASE pipes' = pipes
    BY <2>1 DEF OtpInv, OneEach
  <2>2. CASE pipes' = << >>
    BY <2>2 DEF OneEach
  <2> QED
    BY <2>1, <2>2
<1> QED
  BY <1>1, <1>2, <1>3 DEF Rest

LEMMA ScriptSteps ==
    ASSUME OtpInv, Script \/ (\E cmd \in Commands : Command(cmd))
    PROVE  Rest'
<1> USE DEF OtpInv, OtpTypeOK, Scripts
<1>1. ASSUME NEW cmd \in Commands, Command(cmd) PROVE Rest'
  <2>1. script.pc = "idle" /\ script'.pc = "check" /\ UNCHANGED <<proc, pipes, late>>
    BY <1>1 DEF Command
  <2> QED
    BY <2>1, QuietStep
<1>2. CASE check_start_bin
  <2>1. script.pc = "check" /\ UNCHANGED <<proc, pipes, late>>
    BY <1>2 DEF check_start_bin
  <2>2. script'.pc \in {"start", "stop", "status", "idle", "check"}
    <3>1. CASE Goto(IF script.cmd = "restart" THEN "stop" ELSE script.cmd)
      BY <3>1 DEF Goto, Commands
    <3>2. CASE Exit(1)
      BY <3>2 DEF Exit
    <3>3. CASE script' = [script EXCEPT !.COUNT = @ + 1]
      BY <2>1, <3>3
    <3> QED
      BY <1>2, <3>1, <3>2, <3>3 DEF check_start_bin
  <2> QED
    BY <2>1, <2>2, QuietStep
<1>3. CASE start
  <2>1. /\ script'.pc = "launch" /\ DOMAIN pipes' = {} /\ proc' = proc
        /\ late' = (Launching # {})
    BY <1>3 DEF start, RemovePipes
  <2>2. ScriptOK' /\ Numbering' /\ OneEach'
    BY <2>1 DEF ScriptOK, Numbering, OneEach
  <2>3. OneLaunches'
    BY <2>1 DEF OneLaunches, Launching
  <2> QED
    BY <2>2, <2>3 DEF Rest
<1>4. CASE Launch
  <2>1. PICK p \in Free :
          /\ script' = [script EXCEPT !.pc = "wait", !.COUNT = 0, !.of = p]
          /\ proc' = [proc EXCEPT ![p] = [stage |-> "launched", name |-> script.I,
                                         number |-> 0]]
    BY <1>4 DEF Launch
  <2>2. /\ script.pc = "launch" /\ script.I < MAX_INSTANCE_NUMBER
        /\ UNCHANGED <<pipes, late>> /\ p \in Procs
    BY <1>4 DEF Launch, Free
  <2>3. script'.pc = "wait" /\ script'.of = p /\ script'.I = script.I
    BY <2>1
  <2>4. /\ proc'[p].stage = "launched" /\ proc'[p].name = script.I
        /\ \A q \in Procs : q # p => proc'[q] = proc[q]
    BY <2>1, <2>2
  <2>5. ScriptOK'
    BY <2>2, <2>3, <2>4 DEF ScriptOK
  <2>6. OneLaunches'
    BY <2>2, <2>3, <2>4 DEF OneLaunches, Launching, Waited
  <2>7. Numbering'
    <3>1. ~late => \A n \in DOMAIN pipes : n \in Int /\ n <= script.I
      BY <2>2 DEF Numbering, Numbers
    <3>2. script.I \in Int /\ p \in Launching'
      BY <2>2, <2>4 DEF Launching
    <3> QED
      BY <2>2, <2>3, <2>4, <3>1, <3>2 DEF Numbering
  <2>8. OneEach'
    BY <2>2 DEF OneEach
  <2> QED
    BY <2>5, <2>6, <2>7, <2>8 DEF Rest
<1>5. CASE Wait
  <2>1. script.pc = "wait" /\ UNCHANGED <<proc, pipes>> /\ script.of \in Procs
    BY <1>5 DEF Wait, ScriptOK
  <2>2. CASE script' = [script EXCEPT !.COUNT = @ + 1] /\ UNCHANGED logVars
    <3>1. script'.pc = "wait" /\ script'.of = script.of /\ script'.I = script.I
      BY <2>1, <2>2
    <3> QED
      BY <2>1, <2>2, <3>1
      DEF Rest, ScriptOK, OneLaunches, Launching, Waited, Numbering, OneEach, Free
  <2>3. ASSUME NEW what, NEW r, Logged(what, r),
               script.I + 1 \in DOMAIN pipes \/ what = "failed"
        PROVE  Rest'
    <3>1. script'.pc = "launch" /\ script'.I = script.I + 1
      BY <2>3 DEF Logged
    <3>2. \A q \in Procs : proc'[q].stage = proc[q].stage
      BY <2>1, <2>3 DEF Logged
    <3>3. ~late' => ~late /\ script.of \notin Launching
      <4>1. late' = (late \/ (what = "failed" /\ script.of \in Launching))
        BY <2>3 DEF Logged
      <4>2. ASSUME ~late, script.I + 1 \in DOMAIN pipes PROVE script.of \notin Launching
        <5>1. script.I \in Int
          OBVIOUS
        <5> QED
          BY <2>1, <4>2, <5>1 DEF Numbering
      <4> QED
        BY <2>3, <4>1, <4>2
    <3>4. OneLaunches'
      BY <2>1, <3>1, <3>2, <3>3 DEF OneLaunches, Launching, Waited
    <3>5. ScriptOK' /\ Numbering' /\ OneEach'
      BY <2>1, <3>1, <3>3 DEF ScriptOK, Numbering, OneEach
    <3> QED
      BY <3>4, <3>5 DEF Rest
  <2> QED
    BY <1>5, <2>2, <2>3 DEF Wait
<1>6. CASE Started
  <2>1. script.pc = "launch" /\ script'.pc = "idle" /\ UNCHANGED <<proc, pipes, late>>
    BY <1>6 DEF Started, Exit
  <2> QED
    BY <2>1, QuietStep
<1>7. CASE stop_otp
  <2>1. script.pc = "stop" /\ UNCHANGED <<pipes, late>>
    BY <1>7 DEF stop_otp
  <2>2. \A q \in Procs : proc'[q].stage \in {"launched", "picked"} =>
          proc[q].stage \in {"launched", "picked"}
    BY <1>7 DEF stop_otp, Pkill
  <2>3. script'.pc \in {"remove", "stop"}
    <3>1. CASE Goto("remove")
      BY <3>1 DEF Goto
    <3>2. CASE script' = [script EXCEPT !.pc = "remove", !.COUNT = 0, !.RETVAL = 1]
      BY <3>2
    <3>3. CASE script' = [script EXCEPT !.COUNT = @ + 1]
      BY <2>1, <3>3
    <3> QED
      BY <1>7, <3>1, <3>2, <3>3 DEF stop_otp
  <2> QED
    BY <2>1, <2>2, <2>3, QuietStep
<1>8. CASE stop
  <2>1. script.pc = "remove" /\ pipes' = << >> /\ UNCHANGED <<proc, late>>
    BY <1>8 DEF stop, RemovePipes
  <2>2. script'.pc \in {"start", "idle"}
    <3>1. CASE script' = [script EXCEPT !.pc = "start", !.RETVAL = 0]
      BY <3>1
    <3>2. CASE Exit(script.RETVAL)
      BY <3>2 DEF Exit
    <3> QED
      BY <1>8, <3>1, <3>2 DEF stop
  <2> QED
    BY <2>1, <2>2, QuietStep
<1>9. CASE status
  <2>1. script.pc = "status" /\ script'.pc = "idle" /\ UNCHANGED <<proc, pipes, late>>
    BY <1>9 DEF status, Exit
  <2> QED
    BY <2>1, QuietStep
<1> QED
  BY <1>1, <1>2, <1>3, <1>4, <1>5, <1>6, <1>7, <1>8, <1>9 DEF Script

\* The steps of the nodes.
LEMMA NodeSteps ==
    ASSUME OtpInv, NEW p \in Procs, Pick(p) \/ MakePipes(p) \/ Boot(p) \/ Die(p)
    PROVE  Rest'
<1> USE DEF OtpInv, OtpTypeOK, Scripts
<1>0. /\ UNCHANGED <<script, late>> /\ script.I \in Int /\ (made => made')
      /\ \A q \in Procs : q # p => proc'[q] = proc[q]
      /\ \A n \in DOMAIN pipes : n \in Int
  BY DEF Pick, MakePipes, Boot, Die, Numbers
<1>1. CASE Pick(p)
  <2>1. PICK n \in Numbers :
          /\ n - 1 \in DOMAIN pipes \cup {0} /\ \A m \in DOMAIN pipes : m < n
          /\ proc' = [proc EXCEPT ![p].stage = "picked", ![p].number = n]
    BY <1>1 DEF Pick
  <2>2. proc[p].stage = "launched" /\ UNCHANGED pipes /\ n \in Int
    <3>1. proc[p].stage = "launched" /\ UNCHANGED pipes
      BY <1>1, Zenon DEF Pick
    <3> QED
      BY <3>1 DEF Numbers
  <2>3. /\ proc'[p].stage = "picked" /\ proc'[p].number = n /\ n \notin DOMAIN pipes
        /\ proc'[p].name = proc[p].name
    <3> DEFINE mid == [proc EXCEPT ![p].stage = "picked"]
    <3>1. n \notin DOMAIN pipes
      <4>1. \A m \in DOMAIN pipes : m < n
        BY <2>1, Zenon
      <4> QED
        BY <2>2, <4>1
    <3>2. /\ mid[p].stage = "picked" /\ mid[p].name = proc[p].name
          /\ mid \in [Procs -> [stage : Stages, name : Instances \cup {0},
                                number : Numbers \cup {0}]]
      BY Members DEF Nodes
    <3>3. proc' = [mid EXCEPT ![p].number = n]
      BY <2>1, Zenon
    <3> HIDE DEF mid
    <3> QED
      BY <3>1, <3>2, <3>3
  <2>4. ScriptOK' /\ OneEach'
    BY <1>0, <2>2, <2>3 DEF ScriptOK, OneEach
  <2>5. Launching' = Launching
    BY <1>0, <2>2, <2>3 DEF Launching
  <2>6. OneLaunches'
    BY <1>0, <2>5 DEF OneLaunches, Waited
  <2>7. ASSUME ~late PROVE script.pc = "wait" /\ script.of = p /\ n <= script.I + 1
    <3>1. script.pc = "wait" /\ script.of = p /\ p \in Launching
      BY <2>2, <2>7 DEF OneLaunches, Launching, Waited
    <3>2. \A m \in DOMAIN pipes : m <= script.I
      BY <2>7, <3>1 DEF Numbering
    <3> QED
      BY <1>0, <2>1, <2>2, <3>1, <3>2
  <2>8. Numbering'
    BY <1>0, <2>2, <2>3, <2>5, <2>7 DEF Numbering, Launching
  <2> QED
    BY <2>4, <2>6, <2>8 DEF Rest
<1>2. CASE MakePipes(p)
  <2> DEFINE n == proc[p].number
  <2>1. /\ proc[p].stage = "picked" /\ n \in Numbers /\ n \in Int
        /\ proc' = [proc EXCEPT ![p].stage = "booting"]
        /\ DOMAIN pipes' = DOMAIN pipes \cup {n}
    BY <1>2 DEF MakePipes, NodesOK, Numbers
  <2>2. /\ proc'[p].stage = "booting" /\ proc'[p].number = n
        /\ proc'[p].name = proc[p].name
    BY <1>0, <2>1 DEF Nodes
  <2>3. /\ \A m \in DOMAIN pipes : m # n => pipes'[m] = pipes[m]
        /\ n \notin DOMAIN pipes => pipes'[n] = {p}
        /\ p = script.of /\ n = script.I + 1 => made'
    BY <1>2 DEF MakePipes
  <2>4. ScriptOK'
    BY <1>0, <2>1, <2>2 DEF ScriptOK
  <2>5. Launching' = Launching \ {p}
    BY <1>0, <2>2 DEF Launching
  <2>6. OneLaunches'
    BY <1>0, <2>5 DEF OneLaunches, Waited
  <2>7. ASSUME ~late
        PROVE  /\ script.pc = "wait" /\ script.of = p /\ n \notin DOMAIN pipes
               /\ n <= script.I + 1 /\ \A m \in DOMAIN pipes : m <= script.I
    <3>1. script.pc = "wait" /\ script.of = p /\ p \in Launching
      BY <2>1, <2>7 DEF OneLaunches, Launching, Waited
    <3> QED
      BY <2>1, <2>7, <3>1 DEF Numbering
  <2>8. Numbering'
    BY <1>0, <2>1, <2>2, <2>3, <2>5, <2>7 DEF Numbering
  <2>9. OneEach'
    BY <1>0, <2>1, <2>3, <2>7 DEF OneEach
  <2> QED
    BY <2>4, <2>6, <2>8, <2>9 DEF Rest
<1>3. CASE Boot(p)
  <2>1. /\ proc[p].stage = "booting" /\ UNCHANGED pipes
        /\ proc'[p].stage \in {"up", "refused"} /\ proc'[p].number = proc[p].number
        /\ proc'[p].name = proc[p].name
    BY <1>3 DEF Boot, Nodes
  <2>2. Launching' = Launching
    BY <1>0, <2>1 DEF Launching
  <2>3. ScriptOK' /\ OneLaunches' /\ OneEach'
    BY <1>0, <2>1, <2>2 DEF ScriptOK, OneLaunches, OneEach, Waited
  <2>4. Numbering'
    <3>1. script.pc = "wait" =>
            /\ proc'[script.of].stage = "picked" <=> proc[script.of].stage = "picked"
            /\ proc'[script.of].number = proc[script.of].number
            /\ script.of \in Free' <=> script.of \in Free
      BY <1>0, <2>1 DEF ScriptOK, Free
    <3> QED
      BY <1>0, <2>1, <2>2, <3>1 DEF Numbering
  <2> QED
    BY <2>3, <2>4 DEF Rest
<1>4. CASE Die(p)
  <2>1. /\ proc'[p] = Nobody /\ proc[p].stage # "dead"
        /\ DOMAIN pipes' \subseteq DOMAIN pipes
        /\ \A n \in DOMAIN pipes' : pipes'[n] \subseteq pipes[n]
    BY <1>4 DEF Die
  <2>2. p \in Free' /\ Launching' = Launching \ {p}
    BY <1>0, <2>1 DEF Launching, Free, Nobody
  <2>3. ScriptOK' /\ OneLaunches'
    BY <1>0, <2>1, <2>2 DEF ScriptOK, OneLaunches, Waited, Nobody, Launching
  <2>4. OneEach'
    BY <1>0, <2>1 DEF OneEach
  <2>5. ASSUME ~late, script.pc = "wait", script.of = p
        PROVE  \A n \in DOMAIN pipes' : n <= script.I + 1
    BY <1>0, <2>1, <2>5 DEF Numbering
  <2>6. script.pc = "wait" /\ script.of # p =>
          /\ proc'[script.of] = proc[script.of]
          /\ script.of \in Launching' <=> script.of \in Launching
          /\ script.of \in Free' <=> script.of \in Free
    BY <1>0 DEF ScriptOK, Launching, Free
  <2>7. Numbering'
    <3>1. CASE script.pc # "wait"
      BY <1>0, <2>1, <3>1 DEF Numbering
    <3>2. CASE script.pc = "wait" /\ script.of = p
      <4>1. p \notin Launching' /\ proc'[p].stage = "dead"
        BY <2>1, <2>2 DEF Nobody
      <4> QED
        BY <1>0, <2>1, <2>2, <2>5, <3>2, <4>1 DEF Numbering
    <3>3. CASE script.pc = "wait" /\ script.of # p
      <4> HIDE DEF OtpTypeOK, Scripts
      <4> QED
        BY <1>0, <2>1, <2>6, <3>3 DEF Numbering
    <3> QED
      BY <3>1, <3>2, <3>3
  <2> QED
    BY <2>3, <2>4, <2>7 DEF Rest
<1> QED
  BY <1>1, <1>2, <1>3, <1>4

\* Names stay unique: only a beam whose name is free comes up.
LEMMA NodesKept == ASSUME OtpInv, OtpNext PROVE NodesOK'
<1> USE DEF OtpInv, OtpTypeOK
<1> DEFINE Same(q) == /\ proc'[q].stage = "dead" <=> proc[q].stage = "dead"
                      /\ proc'[q].stage \in Named <=> proc[q].stage \in Named
                      /\ proc'[q].name = proc[q].name
                      /\ proc'[q].stage = "picked" => proc'[q].number \in Numbers
<1>1. ASSUME \A q \in Procs : Same(q) PROVE NodesOK'
  BY <1>1 DEF NodesOK
<1>2. CASE UNCHANGED proc
  BY <1>1, <1>2 DEF NodesOK
<1>3. CASE Launch
  <2>1. PICK p \in Free :
          proc' = [proc EXCEPT ![p] = [stage |-> "launched", name |-> script.I,
                                       number |-> 0]]
    BY <1>3 DEF Launch
  <2>2. /\ p \in Procs /\ proc'[p].stage = "launched" /\ proc'[p].name = script.I
        /\ \A q \in Procs : q # p => proc'[q] = proc[q]
    BY <2>1 DEF Free
  <2>3. script.I \in Instances
    BY <1>3, Members DEF Launch, Scripts
  <2> QED
    BY <2>2, <2>3 DEF NodesOK, Named
<1>4. CASE Wait
  BY <1>1, <1>4 DEF Wait, Logged, ScriptOK, NodesOK, Nodes
<1>5. CASE stop_otp
  <2>1. \A q \in Procs :
          proc'[q] = IF proc[q].stage = "up"
                     THEN [proc[q] EXCEPT !.stage = "dying"] ELSE proc[q]
    BY <1>5 DEF stop_otp, Pkill
  <2>2. ASSUME NEW q \in Procs PROVE Same(q)
    BY <2>1, <2>2 DEF Nodes, Named, NodesOK
  <2> QED
    BY <1>1, <2>2
<1>6. ASSUME NEW p \in Procs, Pick(p) \/ MakePipes(p) PROVE NodesOK'
  <2>1. \A q \in Procs : q # p => proc'[q] = proc[q]
    BY <1>6 DEF Pick, MakePipes
  <2>2. CASE Pick(p)
    <3>1. PICK n \in Numbers :
            proc' = [proc EXCEPT ![p].stage = "picked", ![p].number = n]
      BY <2>2, Zenon DEF Pick
    <3>2. proc[p].stage = "launched"
      BY <2>2, Zenon DEF Pick
    <3>3. /\ proc'[p].stage = "picked" /\ proc'[p].name = proc[p].name
          /\ proc'[p].number \in Numbers
      <4> DEFINE mid == [proc EXCEPT ![p].stage = "picked"]
      <4>1. /\ mid[p].stage = "picked" /\ mid[p].name = proc[p].name
            /\ mid \in [Procs -> Nodes]
        BY Members DEF Nodes
      <4>2. proc' = [mid EXCEPT ![p].number = n]
        BY <3>1, Zenon
      <4> HIDE DEF mid
      <4> QED
        BY <4>1, <4>2 DEF Nodes
    <3>4. Same(p)
      BY <3>2, <3>3 DEF Named
    <3> QED
      BY <1>1, <2>1, <3>4 DEF NodesOK
  <2>3. CASE MakePipes(p)
    <3>1. proc'[p].stage = "booting" /\ proc'[p].name = proc[p].name
      BY <2>3 DEF MakePipes, Nodes
    <3>2. proc[p].stage = "picked"
      BY <2>3 DEF MakePipes
    <3> QED
      BY <1>1, <2>1, <3>1, <3>2 DEF NodesOK, Named
  <2> QED
    BY <1>6, <2>2, <2>3
<1>7. ASSUME NEW p \in Procs, Boot(p) PROVE NodesOK'
  <2>1. /\ \A q \in Procs : q # p => proc'[q] = proc[q]
        /\ proc'[p].name = proc[p].name /\ proc[p].stage = "booting"
        /\ proc'[p].stage \in {"up", "refused"}
        /\ proc'[p].stage = "up" =>
             \A q \in Procs : proc[q].stage \in Named => proc[q].name # proc[p].name
    BY <1>7 DEF Boot, Nodes
  <2> QED
    BY <2>1 DEF NodesOK, Named
<1>8. ASSUME NEW p \in Procs, Die(p) PROVE NodesOK'
  <2>1. /\ \A q \in Procs : q # p => proc'[q] = proc[q]
        /\ proc'[p].stage = "dead"
    BY <1>8 DEF Die, Nobody
  <2> QED
    BY <2>1 DEF NodesOK, Named
<1>9. \/ UNCHANGED proc \/ Launch \/ Wait \/ stop_otp
      \/ \E p \in Procs : Pick(p) \/ MakePipes(p) \/ Boot(p) \/ Die(p)
  BY DEF OtpNext, Script, Command, check_start_bin, start, Started, stop, status
<1> QED
  BY <1>2, <1>3, <1>4, <1>5, <1>6, <1>7, <1>8, <1>9

LEMMA Inductive == OtpSpec => []OtpInv
<1>1. OtpInv /\ [OtpNext]_otpVars => OtpInv'
  <2> SUFFICES ASSUME OtpInv, [OtpNext]_otpVars PROVE OtpInv'
    OBVIOUS
  <2>1. CASE OtpNext
    <3>1. Rest'
      BY <2>1, ScriptSteps, NodeSteps DEF OtpNext
    <3> QED
      BY <2>1, <3>1, TypesKept, NodesKept DEF OtpInv, Rest
  <2>2. CASE UNCHANGED otpVars
    BY <2>2 DEF otpVars, OtpInv, OtpTypeOK, ScriptOK, OneLaunches, Numbering, OneEach,
      NodesOK, Launching, Waited, Free, Nodes, Nobody, Named
  <2> QED
    BY <2>1, <2>2
<1> QED
  BY <1>1, InitInv, PTL DEF OtpSpec

-----------------------------------------------------------------------------
\* The types of OtpNodes hold in every reachable state: the counts never pass
\* the numbers of tries, and pipes are those of slots (OtpTypeOK).
THEOREM OtpTypes == OtpSpec => []OtpTypeOK
<1>1. OtpInv => OtpTypeOK
  BY DEF OtpInv
<1> QED
  BY <1>1, Inductive, PTL

\* Two nodes never have the same pipes while no node was given up before it
\* had its own, whatever is removed, killed or started over (NoSharedPipes,
\* the wait of line 95).
THEOREM PipesAreNotShared == OtpSpec => []NoSharedPipes
<1>1. ASSUME OtpInv PROVE NoSharedPipes
  <2>1. SUFFICES ASSUME ~late, NEW n \in DOMAIN pipes
                 PROVE  Cardinality(pipes[n]) <= 1
    BY DEF NoSharedPipes
  <2>2. CASE pipes[n] = {}
    BY <2>2, FS_EmptySet
  <2>3. CASE pipes[n] # {}
    <3>1. PICK p \in pipes[n] : TRUE
      BY <2>3
    <3>2. pipes[n] = {p}
      BY <1>1, <2>1, <3>1 DEF OtpInv, OneEach
    <3> QED
      BY <3>2, FS_Singleton
  <2> QED
    BY <2>2, <2>3
<1> QED
  BY <1>1, Inductive, PTL

\* What the log says of a node that was started is true when it is written,
\* while no node was given up without its pipes: the node has made the pipes with
\* the number of its instance, and not one left over from before (ItsPipes).
THEOREM LogIsTrue == OtpSpec => ItsPipes
<1> DEFINE Logs == ~late /\ log # "started" /\ log' = "started" => made
<1>1. ASSUME OtpInv, OtpNext PROVE Logs
  <2>1. SUFFICES ASSUME ~late, log # "started", log' = "started" PROVE made
    OBVIOUS
  <2>2. Wait
    BY <1>1, <2>1 DEF OtpNext, Script, Command, check_start_bin, start, Launch, Started,
      stop_otp, stop, status, Pick, MakePipes, Boot, Die
  <2>3. script.pc = "wait" /\ script.I + 1 \in DOMAIN pipes
    BY <2>1, <2>2 DEF Wait, Logged
  <2> QED
    BY <1>1, <2>1, <2>3 DEF OtpInv, Numbering
<1>2. OtpInv /\ [OtpNext]_otpVars => [Logs]_otpVars
  BY <1>1
<1> QED
  BY <1>2, Inductive, PTL DEF OtpSpec, ItsPipes

\* It is enough to count the beams: when status answers that all is well and
\* no beam was refused its name, every instance is among them, as there are as
\* many names as beams and no name is on two (StatusIsRight, line 206).
THEOREM CountingIsEnough == OtpSpec => StatusIsRight
<1> DEFINE Well == status /\ script'.RETVAL = 0 =>
                     \/ \A i \in Instances : \E p \in Procs :
                          proc[p].name = i /\ proc[p].stage \in Named
                     \/ \E p \in Procs : proc[p].stage = "refused"
<1>1. ASSUME OtpInv PROVE Well
  <2>1. SUFFICES ASSUME status, script'.RETVAL = 0,
                        \A p \in Procs : proc[p].stage # "refused",
                        NEW i \in Instances
                 PROVE  \E p \in Procs : proc[p].name = i /\ proc[p].stage \in Named
    BY Zenon
  <2>2. Cardinality(Beams) = MAX_INSTANCE_NUMBER
    <3>1. script' = [script EXCEPT !.pc = "idle", !.I = 0, !.COUNT = 0, !.of = 0,
            !.RETVAL = IF Cardinality(Beams) = MAX_INSTANCE_NUMBER THEN 0 ELSE 1]
      BY <1>1, <2>1 DEF status, Exit, OtpInv, OtpTypeOK, Scripts
    <3> QED
      BY <1>1, <2>1, <3>1 DEF OtpInv, OtpTypeOK, Scripts
  <2>3. IsFiniteSet(Instances) /\ Cardinality(Instances) = MAX_INSTANCE_NUMBER
    <3>1. MAX_INSTANCE_NUMBER \in Nat /\ MAX_INSTANCE_NUMBER - 1 \in Int /\ 0 \in Int
      BY OtpBounds
    <3>2. /\ IsFiniteSet(0..(MAX_INSTANCE_NUMBER - 1))
          /\ Cardinality(0..(MAX_INSTANCE_NUMBER - 1))
               = IF 0 > MAX_INSTANCE_NUMBER - 1 THEN 0 ELSE (MAX_INSTANCE_NUMBER - 1) - 0 + 1
      BY <3>1, FS_Interval
    <3> QED
      BY <3>1, <3>2 DEF Instances
  <2> DEFINE name == [p \in Beams |-> proc[p].name]
  <2>4. \A p \in Beams : p \in Procs /\ proc[p].stage \in Named /\ proc[p].stage # "dead"
    BY <2>1 DEF Beams, Named
  <2>5. name \in [Beams -> Instances]
    BY <1>1, <2>4 DEF OtpInv, NodesOK
  <2>6. \A p, q \in Beams : name[p] = name[q] => p = q
    BY <1>1, <2>4 DEF OtpInv, NodesOK
  <2>7. name \in Injection(Beams, Instances)
    BY <2>5, <2>6 DEF Injection, IsInjective
  <2>8. name \in Surjection(Beams, Instances)
    <3> HIDE DEF name
    <3> QED
      BY <2>2, <2>3, <2>7, FS_Injection
  <2>9. PICK p \in Beams : name[p] = i
    BY <2>8 DEF Surjection
  <2> QED
    BY <2>4, <2>9
<1>2. OtpInv => [Well]_otpVars
  BY <1>1
<1> QED
  BY <1>2, Inductive, PTL DEF StatusIsRight

-----------------------------------------------------------------------------
(* Every command comes to its end *)

\* How far a command still has to go.
Rank(pc) ==
    CASE pc = "check" -> 5 [] pc = "stop" -> 4 [] pc = "remove" -> 3
      [] pc = "start" -> 2 [] pc = "idle" -> 0 [] OTHER -> 1

LEMMA Ranks ==
    /\ Rank("check") = 5 /\ Rank("stop") = 4 /\ Rank("remove") = 3
    /\ Rank("start") = 2 /\ Rank("launch") = 1 /\ Rank("wait") = 1
    /\ Rank("status") = 1 /\ Rank("idle") = 0
BY DEF Rank

\* The script goes on to a later part, the next instance, from the launch to
\* the wait, or the next try; there are finitely many of each (OtpTypeOK).
Further ==
    \/ Rank(script'.pc) < Rank(script.pc)
    \/ Rank(script'.pc) = Rank(script.pc) /\ script'.I > script.I
    \/ script.pc = "launch" /\ script'.pc = "wait" /\ script'.I = script.I
    \/ script'.pc = script.pc /\ script'.I = script.I /\ script'.COUNT > script.COUNT

\* There are slots for the nodes that the script is still to launch.
Slots ==
    /\ script.pc = "start" => script.cmd \in {"start", "restart"}
    /\ script.pc \in {"check", "stop", "remove", "start"}
         /\ script.cmd \in {"start", "restart"} => Cardinality(Free) >= MAX_INSTANCE_NUMBER
    /\ script.pc = "launch" => Cardinality(Free) >= MAX_INSTANCE_NUMBER - script.I
    /\ script.pc = "wait" => Cardinality(Free) >= MAX_INSTANCE_NUMBER - script.I - 1

LEMMA FreeIsFinite ==
    /\ IsFiniteSet(Free) /\ Cardinality(Free) \in Nat
    /\ IsFiniteSet(Free)' /\ Cardinality(Free)' \in Nat
<1>1. \A S \in SUBSET Procs : IsFiniteSet(S) /\ Cardinality(S) \in Nat
  BY OtpBounds, FS_Subset, FS_CardinalityType
<1> QED
  BY <1>1 DEF Free

LEMMA LeastOne ==
    ASSUME NEW T \in SUBSET Nat, T # {} PROVE \E x \in T : \A y \in T : x <= y
<1>1. PICK x \in T : \A y \in T : ~ (<<y, x>> \in OpToRel(<, Nat))
  BY NatLessThanWellFounded, WFMin
<1>2. \A y \in T : ~ (y < x)
  BY <1>1 DEF OpToRel
<1> QED
  BY <1>2

\* A node that ends frees its slot; nothing but a launch takes one.
LEMMA SlotsKept == ASSUME OtpInv, Slots, OtpNext PROVE Slots'
<1> USE DEF OtpInv, OtpTypeOK
<1>0. MAX_INSTANCE_NUMBER \in Nat /\ script.I \in Nat
  BY OtpBounds DEF Scripts
<1>1. ASSUME Free \subseteq Free' PROVE Cardinality(Free') >= Cardinality(Free)
  BY <1>1, FreeIsFinite, FS_Subset
<1>2. CASE Launch
  <2>1. PICK p \in Free :
          /\ script' = [script EXCEPT !.pc = "wait", !.COUNT = 0, !.of = p]
          /\ proc' = [proc EXCEPT ![p] = [stage |-> "launched", name |-> script.I,
                                          number |-> 0]]
    BY <1>2 DEF Launch
  <2>2. Free' = Free \ {p}
    BY <2>1 DEF Free, Nodes
  <2>3. Cardinality(Free') = Cardinality(Free) - 1
    BY <2>2, FreeIsFinite, FS_RemoveElement
  <2>4. script'.pc = "wait" /\ script'.I = script.I /\ script.pc = "launch"
    BY <1>2, <2>1 DEF Launch, Scripts
  <2> QED
    BY <1>0, <2>3, <2>4, FreeIsFinite DEF Slots
<1>3. CASE Wait
  <2>1. Free \subseteq Free'
    BY <1>3 DEF Wait, Logged, Free, Nodes
  <2>2. \/ script' = [script EXCEPT !.COUNT = @ + 1]
        \/ script'.pc = "launch" /\ script'.I = script.I + 1
    BY <1>3 DEF Wait, Logged, Scripts
  <2>3. script.pc = "wait"
    BY <1>3 DEF Wait
  <2>4. CASE script' = [script EXCEPT !.COUNT = @ + 1]
    <3>1. script'.pc = "wait" /\ script'.I = script.I
      BY <2>3, <2>4 DEF Scripts
    <3> QED
      BY <1>0, <1>1, <2>1, <2>3, <3>1, FreeIsFinite DEF Slots
  <2>5. CASE script'.pc = "launch" /\ script'.I = script.I + 1
    BY <1>0, <1>1, <2>1, <2>3, <2>5, FreeIsFinite DEF Slots
  <2> QED
    BY <2>2, <2>4, <2>5
<1>4. ASSUME NEW cmd \in Commands, Command(cmd) PROVE Slots'
  <2>1. script'.pc = "check" /\ script'.cmd = cmd /\ Free' = Free
    BY <1>4 DEF Command, Scripts, Free
  <2> QED
    BY <1>4, <2>1 DEF Command, Slots
<1>5. CASE check_start_bin \/ start \/ Started \/ stop_otp \/ stop \/ status
  <2>1. Free \subseteq Free'
    BY <1>5 DEF check_start_bin, start, Started, stop_otp, stop, status, Pkill, Free, Nodes
  <2>2. Cardinality(Free') >= Cardinality(Free)
    BY <1>1, <2>1
  <2>3. \/ script'.pc = "idle" \/ script'.pc = "status"
        \/ /\ script.pc = "check" /\ script'.cmd = script.cmd
           /\ script'.pc \in {"check", "start", "stop"}
           /\ script'.pc = "start" => script.cmd = "start"
        \/ /\ script.pc = "stop" /\ script'.cmd = script.cmd
           /\ script'.pc \in {"stop", "remove"}
        \/ script.pc = "remove" /\ script'.cmd = "restart" /\ script.cmd = "restart"
             /\ script'.pc = "start"
        \/ script.pc = "start" /\ script'.pc = "launch" /\ script'.I = 0
    BY <1>5 DEF check_start_bin, start, Started, stop_otp, stop, status, Goto, Exit,
      Scripts, Commands
  <2> QED
    BY <1>0, <2>2, <2>3, FreeIsFinite DEF Slots
<1>6. ASSUME NEW p \in Procs, Pick(p) \/ MakePipes(p) \/ Boot(p) \/ Die(p) PROVE Slots'
  <2>1. script' = script /\ Free \subseteq Free'
    BY <1>6 DEF Pick, MakePipes, Boot, Die, Free, Nodes, Nobody
  <2>2. Cardinality(Free') >= Cardinality(Free)
    BY <1>1, <2>1
  <2> QED
    BY <1>0, <2>1, <2>2, FreeIsFinite DEF Slots
<1> QED
  BY <1>2, <1>3, <1>4, <1>5, <1>6 DEF OtpNext, Script

LEMMA SlotsInvariant == OtpSpec => []Slots
<1>1. OtpInit => Slots
  BY DEF OtpInit, Slots
<1>2. OtpInv /\ Slots /\ [OtpNext]_otpVars => Slots'
  <2>1. CASE UNCHANGED otpVars
    BY <2>1 DEF otpVars, Slots, Free
  <2> QED
    BY <2>1, SlotsKept
<1> QED
  BY <1>1, <1>2, Inductive, PTL DEF OtpSpec

\* No step of the script goes back or round in a circle, whatever the nodes do
\* in between: each is further along in the command.
THEOREM ScriptGetsOn == OtpSpec => [][Script => Further]_otpVars
<1>1. ASSUME OtpInv, Script PROVE Further
  <2>0. /\ script \in Scripts /\ script.COUNT \in Nat /\ script.cmd \in Commands
        /\ script.I \in Nat
    BY <1>1, OtpBounds DEF OtpInv, OtpTypeOK, Scripts
  <2> USE Ranks DEF Further
  <2>1. CASE check_start_bin
    <3>1. /\ script.pc = "check"
          /\ \/ script'.pc \in {"start", "stop", "status", "idle"}
             \/ script' = [script EXCEPT !.COUNT = script.COUNT + 1]
      BY <2>0, <2>1 DEF check_start_bin, Goto, Exit, Scripts, Commands
    <3>2. CASE script' = [script EXCEPT !.COUNT = script.COUNT + 1]
      BY <2>0, <3>2 DEF Scripts
    <3> QED
      BY <3>1, <3>2
  <2>2. CASE start
    BY <2>0, <2>2 DEF start, Scripts
  <2>3. CASE Launch
    <3>1. /\ script.pc = "launch" /\ script'.pc = "wait" /\ script'.I = script.I
      BY <2>0, <2>3 DEF Launch, Scripts
    <3> QED
      BY <3>1
  <2>4. CASE Wait
    <3>1. /\ script.pc = "wait"
          /\ \/ script'.pc = "launch" /\ script'.I = script.I + 1
             \/ script' = [script EXCEPT !.COUNT = script.COUNT + 1]
      BY <2>0, <2>4 DEF Wait, Logged, Scripts
    <3>2. CASE script' = [script EXCEPT !.COUNT = script.COUNT + 1]
      BY <2>0, <3>1, <3>2 DEF Scripts
    <3>3. CASE script'.pc = "launch" /\ script'.I = script.I + 1
      BY <2>0, <3>1, <3>3
    <3> QED
      BY <3>1, <3>2, <3>3
  <2>5. CASE Started \/ status
    <3>1. script.pc \in {"launch", "status"} /\ script'.pc = "idle"
      BY <2>0, <2>5 DEF Started, status, Exit, Scripts
    <3> QED
      BY <3>1
  <2>6. CASE stop_otp
    <3>1. /\ script.pc = "stop"
          /\ \/ script'.pc = "remove"
             \/ script' = [script EXCEPT !.COUNT = script.COUNT + 1]
      BY <2>0, <2>6 DEF stop_otp, Goto, Scripts
    <3>2. CASE script' = [script EXCEPT !.COUNT = script.COUNT + 1]
      BY <2>0, <3>2 DEF Scripts
    <3> QED
      BY <3>1, <3>2
  <2>7. CASE stop
    <3>1. script.pc = "remove" /\ script'.pc \in {"start", "idle"}
      BY <2>0, <2>7 DEF stop, Exit, Scripts
    <3> QED
      BY <3>1
  <2> QED
    BY <1>1, <2>1, <2>2, <2>3, <2>4, <2>5, <2>6, <2>7 DEF Script
<1>2. OtpInv => [Script => Further]_otpVars
  BY <1>1
<1> QED
  BY <1>2, Inductive, PTL

\* A start always finds a slot for the next node, so the bound on slots never
\* holds the script up.  It is the only step with a guard besides its place in
\* the script: with ScriptGetsOn, and the bounds on I and COUNT of OtpTypeOK, it
\* follows that every command ends if the script goes on when it can.
THEOREM LaunchesFindSlots ==
    OtpSpec => [](script.pc = "launch" =>
                    \/ script.I = MAX_INSTANCE_NUMBER
                    \/ script.I < MAX_INSTANCE_NUMBER
                         /\ \E p \in Free : \A q \in Free : p <= q)
<1>1. ASSUME OtpInv, Slots, script.pc = "launch", script.I # MAX_INSTANCE_NUMBER
      PROVE  script.I < MAX_INSTANCE_NUMBER /\ \E p \in Free : \A q \in Free : p <= q
  <2>1. script.I < MAX_INSTANCE_NUMBER /\ MAX_INSTANCE_NUMBER \in Nat /\ script.I \in Nat
    BY <1>1, OtpBounds DEF OtpInv, OtpTypeOK, Scripts
  <2>2. Cardinality(Free) # 0
    BY <1>1, <2>1, FreeIsFinite DEF Slots
  <2>3. Free # {} /\ Free \in SUBSET Nat
    BY <2>2, FS_EmptySet, OtpBounds DEF Free
  <2>4. PICK p \in Free : \A q \in Free : p <= q
    BY <2>3, LeastOne
  <2> QED
    BY <2>1, <2>4
<1>2. OtpInv /\ Slots =>
        (script.pc = "launch" =>
           \/ script.I = MAX_INSTANCE_NUMBER
           \/ script.I < MAX_INSTANCE_NUMBER
                /\ \E p \in Free : \A q \in Free : p <= q)
  BY <1>1
<1> QED
  BY <1>2, Inductive, SlotsInvariant, PTL
=============================================================================
