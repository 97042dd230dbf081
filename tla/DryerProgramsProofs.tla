------------------------ MODULE DryerProgramsProofs ------------------------
(* What is proved of DryerPrograms, for every choice of its constants.     *)
(* Three inductions.  The selection is an option only as long as no frame  *)
(* removes the entry it names, and commands carry a course of the dial     *)
(* only as long as the selection is an option: IInv, over TypeOK, which    *)
(* says what a command that is under way or waiting can carry.  A push is  *)
(* made once as long as it is remembered: PushInv.  And the selection is   *)
(* the machine's programme once all has settled, as every difference has   *)
(* its cause on the way: AgreeInv.                                         *)
EXTENDS DryerPrograms, SequenceTheorems, TLAPS

IInv == TypeOK /\ Selectable(selProgram, downloadedId)

\* Commands of the handler are made of courses of the dial.
LEMMA CourseCmdType ==
  ASSUME NEW name \in {"course", "settings", "start"}, NEW p \in Programs
  PROVE  CourseCmd(name, p) \in Commands
  BY DEF CourseCmd, Commands

LEMMA CmdType ==
  ASSUME NEW name \in {"clear", "pause", "off"}
  PROVE  Cmd(name) \in Commands
  BY DEF Cmd, Commands

\* pushProgram writes the selection by a command that is none of the machine's
\* own making: a course of the dial, or a cycle with a base that is known.
LEMMA PushCommandsType ==
  ASSUME IInv, NEW sel, Selectable(sel, downloadedId)
  PROVE  PushCommands(sel) \in Seq(Commands)
<1>1. CASE phase # "waiting"
  BY <1>1 DEF PushCommands
<1>2. CASE phase = "waiting" /\ sel = downloadedId /\ downloadedBase = None
  BY <1>2 DEF PushCommands
<1>3. CASE phase = "waiting" /\ sel = downloadedId /\ downloadedBase # None
  <2>1. downloadedBase \in Programs
    BY <1>3 DEF IInv, TypeOK, Courses
  <2>2. downloadedId \in Downloads
    BY <1>3, DryerProgramsAssumption DEF IInv, TypeOK, Cycles, Selectable
  <2>3. [cmd |-> "downloaded", course |-> downloadedBase, cycle |-> downloadedId] \in Commands
    BY <2>1, <2>2 DEF Commands
  <2> QED BY <1>3, <2>3 DEF PushCommands
<1>4. CASE phase = "waiting" /\ sel # downloadedId
  <2>1. sel \in Programs
    BY <1>4 DEF Selectable
  <2>2. CourseCmd("course", sel) \in Commands
    BY <2>1, CourseCmdType
  <2> QED BY <1>4, <2>2 DEF PushCommands
<1> QED BY <1>1, <1>2, <1>3, <1>4

\* What is sent lengthens the wire by commands.
LEMMA SendType ==
  ASSUME wire \in Seq(Commands), NEW cmds \in Seq(Commands), Send(cmds)
  PROVE  wire' \in Seq(Commands)
  BY DEF Send

LEMMA SendPausedType ==
  ASSUME wire \in Seq(Commands), later \in Seq(Commands), NEW command \in Commands,
         SendPaused(command)
  PROVE  wire' \in Seq(Commands) /\ later' \in Seq(Commands)
<1>1. CASE phase # "running"
  BY <1>1, SendType, <<command>> \in Seq(Commands) DEF SendPaused
<1>2. CASE phase = "running"
  <2>1. Cmd("pause") \in Commands
    BY CmdType
  <2>2. wire' \in Seq(Commands)
    BY <1>2, <2>1, SendType, <<Cmd("pause")>> \in Seq(Commands) DEF SendPaused
  <2>3. later' \in Seq(Commands)
    BY <1>2 DEF SendPaused
  <2> QED BY <2>2, <2>3
<1> QED BY <1>1, <1>2

\* What a frame makes of the downloaded cycle and of its base.
LEMMA FrameTypes ==
  ASSUME IInv
  PROVE  /\ DownloadedNext \in Cycles
         /\ BaseNext \in Courses
         /\ Reported(DownloadedNext) \in Programs \cup Downloads \cup {None}
  BY DEF IInv, TypeOK, DownloadedNext, BaseNext, BaseLearned, Reported, Cycles, Courses

\* A selection whose entry goes falls back on one that is offered, and what a
\* refusal or a change at the machine puts in its place is offered.
LEMMA FrameKeepsOffered ==
  ASSUME IInv
  PROVE  Selectable(MirrorSelection(AfterRefusal(RefreshProgramOptions(selProgram))),
                    DownloadedNext)
<1> DEFINE s1 == RefreshProgramOptions(selProgram)
           s2 == AfterRefusal(s1)
<1>1. Selectable(s1, DownloadedNext)
  <2>1. BaseNext # None => BaseNext \in Programs
    BY FrameTypes DEF Courses
  <2>2. Cotone \in Programs
    BY DryerProgramsAssumption
  <2> QED BY <2>1, <2>2 DEF RefreshProgramOptions, Selectable, IInv
<1>2. Selectable(s2, DownloadedNext)
  BY <1>1 DEF AfterRefusal
<1> HIDE DEF s2
<1> QED BY <1>2 DEF MirrorSelection, Mirrors, s2

LEMMA OfferedType ==
  ASSUME NEW p, NEW id \in Cycles, Selectable(p, id)
  PROVE  p \in Programs \cup Downloads
  BY DEF Selectable, Cycles

-----------------------------------------------------------------------------
LEMMA InitHolds == Init => IInv
<1> SUFFICES ASSUME Init PROVE IInv
  OBVIOUS
<1>1. mApplied \in Cycles
  BY DEF Init, Cycles
<1>2. wire \in Seq(Commands) /\ later \in Seq(Commands)
  BY DEF Init
<1>3. TypeOK
  BY <1>1, <1>2, DryerProgramsAssumption DEF Init, TypeOK, Phases, Courses, Cycles
<1>4. Selectable(selProgram, downloadedId)
  BY DryerProgramsAssumption DEF Init, Selectable
<1> QED BY <1>3, <1>4 DEF IInv

LEMMA FrameStep ==
  ASSUME IInv, StatusFrame
  PROVE  IInv'
<1> DEFINE sel == MirrorSelection(AfterRefusal(RefreshProgramOptions(selProgram)))
<1>1. Selectable(sel, DownloadedNext) /\ DownloadedNext \in Cycles
  BY FrameKeepsOffered, FrameTypes
<1>2. sel \in Programs \cup Downloads
  BY <1>1, OfferedType
<1>3. selProgram' = sel /\ downloadedId' = DownloadedNext
  BY DEF StatusFrame
<1>4. Selectable(selProgram, downloadedId)'
  BY <1>1, <1>3 DEF Selectable
<1> HIDE DEF sel
<1>5. TypeOK'
  BY <1>2, <1>3, FrameTypes DEF IInv, TypeOK, StatusFrame
<1> QED BY <1>4, <1>5 DEF IInv

LEMMA PickStep ==
  ASSUME IInv, NEW p \in Programs \cup Downloads, Pick(p)
  PROVE  IInv'
<1> DEFINE sel == IF Accepted(p) THEN p ELSE selProgram
<1>1. Selectable(sel, downloadedId)
  BY DEF Pick, IInv, Selectable
<1>2. sel \in Programs \cup Downloads
  BY <1>1, OfferedType DEF IInv, TypeOK
<1>3. PushCommands(sel) \in Seq(Commands)
  BY <1>1, PushCommandsType
<1>4. Send(PushCommands(sel))
  BY DEF Pick
<1>5. wire' \in Seq(Commands)
  BY <1>3, <1>4, SendType DEF IInv, TypeOK
<1>6. selProgram' = sel /\ UNCHANGED <<machineVars, record, download, programmaGiaMandato, timers, sessions, owed, autoPushes>>
  BY DEF Pick
<1>7. clearedByUs' \in BOOLEAN /\ wish' \in BOOLEAN
  BY DEF Pick, IInv, TypeOK, Notes
<1>8. Selectable(selProgram, downloadedId)'
  BY <1>1, <1>6 DEF Selectable, download
<1> HIDE DEF sel
<1> QED BY <1>2, <1>5, <1>6, <1>7, <1>8
        DEF IInv, TypeOK, machineVars, record, download, timers

LEMMA SettingsStep ==
  ASSUME IInv, PickSettings
  PROVE  IInv'
<1> DEFINE cmds == IF phase = "waiting" /\ machineCycle # None
                   THEN << CourseCmd("settings", machineCycle) >> ELSE <<>>
<1>1. cmds \in Seq(Commands)
  <2>1. CASE phase = "waiting" /\ machineCycle # None
    <3>1. machineCycle \in Programs
      BY <2>1 DEF IInv, TypeOK, Courses
    <3>2. CourseCmd("settings", machineCycle) \in Commands
      BY <3>1, CourseCmdType
    <3> QED BY <2>1, <3>2
  <2> QED BY <2>1
<1>2. Send(cmds)
  BY DEF PickSettings
<1> HIDE DEF cmds
<1>3. wire' \in Seq(Commands)
  BY <1>1, <1>2, SendType DEF IInv, TypeOK
<1> QED BY <1>3 DEF PickSettings, IInv, TypeOK, Selectable, machineVars, record, download, timers, history

LEMMA PushTimerStep ==
  ASSUME IInv, PushTimerFires
  PROVE  IInv'
<1> DEFINE cmds == PushCommands(selProgram)
<1>1. cmds \in Seq(Commands)
  BY PushCommandsType DEF IInv
<1>2. Send(cmds) /\ autoPushes' = autoPushes + Len(cmds)
  BY DEF PushTimerFires
<1>3. clearedByUs' \in BOOLEAN /\ wish' \in BOOLEAN /\ pushTimer' \in BOOLEAN
  BY DEF PushTimerFires, IInv, TypeOK, Notes
<1>4. UNCHANGED <<machineVars, record, selProgram, download, programmaGiaMandato, later, sessions, owed>>
  BY DEF PushTimerFires
<1> HIDE DEF cmds
<1>5. wire' \in Seq(Commands) /\ autoPushes' \in Nat
  BY <1>1, <1>2, SendType DEF IInv, TypeOK
<1> QED BY <1>3, <1>4, <1>5 DEF IInv, TypeOK, Selectable, machineVars, record, download

\* A command of its own: what is started has a course that is known.
LEMMA StartStep ==
  ASSUME IInv, StartCycle
  PROVE  IInv'
<1>1. CycleId \in Programs
  BY DEF StartCycle, CycleId, IInv, TypeOK, Courses, Selectable
<1>2. CourseCmd("start", CycleId) \in Commands
  BY <1>1, CourseCmdType
<1>3. SendPaused(CourseCmd("start", CycleId))
  BY DEF StartCycle
<1>4. wire' \in Seq(Commands) /\ later' \in Seq(Commands)
  BY <1>2, <1>3, SendPausedType DEF IInv, TypeOK
<1> QED BY <1>4 DEF StartCycle, IInv, TypeOK, Selectable, machineVars, record, download, history

LEMMA ClearStep ==
  ASSUME IInv, ClearProgram
  PROVE  IInv'
<1>1. wire' \in Seq(Commands) /\ later' \in Seq(Commands)
  BY CmdType, SendPausedType DEF ClearProgram, IInv, TypeOK
<1> QED BY <1>1 DEF ClearProgram, IInv, TypeOK, Selectable, machineVars, record, download, history

LEMMA ButtonStep ==
  ASSUME IInv, NEW name \in {"pause", "off"}, Button(name)
  PROVE  IInv'
<1>1. <<Cmd(name)>> \in Seq(Commands)
  BY CmdType
<1>2. wire' \in Seq(Commands)
  BY <1>1, SendType DEF Button, IInv, TypeOK
<1> QED BY <1>2 DEF Button, IInv, TypeOK, Selectable, machineVars, record, download, timers, history

LEMMA LaterStep ==
  ASSUME IInv, LaterFires
  PROVE  IInv'
<1>1. Head(later) \in Commands /\ Tail(later) \in Seq(Commands)
  BY DEF LaterFires, IInv, TypeOK
<1>2. wire' \in Seq(Commands)
  BY <1>1, SendType, <<Head(later)>> \in Seq(Commands) DEF LaterFires, IInv, TypeOK
<1> QED BY <1>1, <1>2 DEF LaterFires, IInv, TypeOK, Selectable, machineVars, record, download, history

LEMMA SessionStep ==
  ASSUME IInv, NewSession
  PROVE  IInv'
<1> DEFINE stale == IF pushTimer THEN PushCommands(selProgram) ELSE <<>>
<1>1. stale \in Seq(Commands)
  BY PushCommandsType DEF IInv
<1>2. later' = later \o stale
  BY DEF NewSession
<1> HIDE DEF stale
<1>3. later' \in Seq(Commands)
  BY <1>1, <1>2 DEF IInv, TypeOK
<1>4. selProgram' \in Programs
  BY DryerProgramsAssumption DEF NewSession
<1>5. wire' \in Seq(Commands)
  BY DEF NewSession
<1>6. UNCHANGED <<mPhase, mCourse, mStored, mApplied, mBeep>>
  BY DEF NewSession, machineVars
<1>7. /\ phase' = "off" /\ machineCycle' = None /\ seenProgram' = None
      /\ downloadedId' = None /\ downloadedBase' = None
      /\ clearedByUs' = FALSE /\ programmaGiaMandato' = FALSE /\ pushTimer' = FALSE
      /\ sessions' = sessions + 1 /\ wish' = TRUE /\ autoPushes' = 0 /\ owed' = owed
  BY DEF NewSession
<1>8. /\ phase' \in Phases /\ machineCycle' \in Courses
      /\ seenProgram' \in Programs \cup Downloads \cup {None}
      /\ downloadedId' \in Cycles /\ downloadedBase' \in Courses
  BY <1>7 DEF Phases, Courses, Cycles
<1>9. TypeOK'
  <2>1. /\ mPhase' \in Phases /\ mCourse' \in Courses /\ mStored' \in Cycles
        /\ mApplied' \in Cycles /\ mBeep' \in BOOLEAN
    BY <1>6 DEF IInv, TypeOK
  <2>2. /\ clearedByUs' \in BOOLEAN /\ programmaGiaMandato' \in BOOLEAN
        /\ pushTimer' \in BOOLEAN /\ owed' \in BOOLEAN /\ wish' \in BOOLEAN
    BY <1>7 DEF IInv, TypeOK
  <2>3. sessions' \in Nat /\ autoPushes' \in Nat
    BY <1>7 DEF IInv, TypeOK
  <2> QED BY <1>3, <1>4, <1>5, <1>8, <2>1, <2>2, <2>3 DEF TypeOK
<1>10. Selectable(selProgram, downloadedId)'
  BY <1>4 DEF Selectable
<1> QED BY <1>9, <1>10 DEF IInv

LEMMA MachineTakesStep ==
  ASSUME IInv, MachineTakes
  PROVE  IInv'
<1>1. Head(wire) \in Commands /\ wire' \in Seq(Commands)
  BY DEF MachineTakes, IInv, TypeOK
<1>2. Head(wire).course \in Courses /\ Head(wire).cycle \in Cycles
  BY <1>1 DEF Commands, Courses, Cycles
<1>3. mPhase' \in Phases /\ mCourse' \in Courses /\ mStored' \in Cycles /\ mApplied' \in Cycles
      /\ mBeep' \in BOOLEAN
  BY <1>2 DEF MachineTakes, MachineTakesCourse, MachineTakesStart, MachineTakesClear,
              MachineTakesButton, MachineRefuses, IInv, TypeOK, Phases, Courses, Cycles
<1>4. owed' \in BOOLEAN /\ wish' \in BOOLEAN
  BY DEF MachineTakes, Noted, IInv, TypeOK
<1> QED BY <1>1, <1>3, <1>4
        DEF MachineTakes, IInv, TypeOK, Selectable, record, download, timers

LEMMA MachineMovesStep ==
  ASSUME IInv, MachineMoves
  PROVE  IInv'
<1>1. mPhase' \in Phases /\ mCourse' \in Courses /\ mStored' \in Cycles /\ mApplied' \in Cycles
      /\ autoPushes' \in Nat
  BY DEF MachineMoves, IInv, TypeOK, Phases, Courses, Cycles
<1>2. owed' \in BOOLEAN /\ wish' \in BOOLEAN
  BY DEF MachineMoves, Noted, IInv, TypeOK
<1> QED BY <1>1, <1>2 DEF MachineMoves, IInv, TypeOK, Selectable, record, download, timers

LEMMA StutterStep ==
  ASSUME IInv, UNCHANGED vars
  PROVE  IInv'
  BY DEF IInv, TypeOK, Selectable, vars, machineVars, record, download, timers, history

THEOREM Invariance == Spec => []IInv
<1>1. Init => IInv
  BY InitHolds
<1>2. IInv /\ [Next]_vars => IInv'
  <2> SUFFICES ASSUME IInv, [Next]_vars PROVE IInv'
    OBVIOUS
  <2>1. CASE StatusFrame
    BY <2>1, FrameStep
  <2>2. ASSUME NEW p \in Programs \cup Downloads, Pick(p) PROVE IInv'
    BY <2>2, PickStep
  <2>3. CASE PickSettings
    BY <2>3, SettingsStep
  <2>4. CASE StartCycle
    BY <2>4, StartStep
  <2>5. CASE ClearProgram
    BY <2>5, ClearStep
  <2>6. CASE Button("pause") \/ Button("off")
    BY <2>6, ButtonStep
  <2>7. CASE PushTimerFires
    BY <2>7, PushTimerStep
  <2>8. CASE LaterFires
    BY <2>8, LaterStep
  <2>9. CASE NewSession
    BY <2>9, SessionStep
  <2>10. CASE MachineTakes
    BY <2>10, MachineTakesStep
  <2>11. CASE MachineMoves
    BY <2>11, MachineMovesStep
  <2>12. CASE UNCHANGED vars
    BY <2>12, StutterStep
  <2> QED BY <2>1, <2>2, <2>3, <2>4, <2>5, <2>6, <2>7, <2>8, <2>9, <2>10, <2>11, <2>12 DEF Next
<1> QED BY <1>1, <1>2, PTL DEF Spec

\* The type invariant of the dryer's handler and of its machine.
THEOREM TypeCorrect == Spec => []TypeOK
<1>1. IInv => TypeOK
  BY DEF IInv
<1> QED BY <1>1, Invariance, PTL

\* The selection shown in Home Assistant is one of its options (setProperty,
\* refreshProgramOptions, mirrorSelection), and whatever sets or starts
\* something names a course of the dial (buildProgramCommand), also when it
\* waited behind a pause while the selection changed or its entry vanished.
THEOREM SelectionAlwaysOffered == Spec => []SelectionIsOffered
<1>1. IInv => SelectionIsOffered
  <2> SUFFICES ASSUME IInv PROVE SelectionIsOffered
    OBVIOUS
  <2>1. ASSUME NEW q \in {wire, later}, NEW i \in DOMAIN q,
               q[i].cmd \in {"course", "settings", "start", "downloaded"}
        PROVE  q[i].course \in Programs
    <3>1. q[i] \in Commands
      BY DEF IInv, TypeOK
    <3> QED BY <3>1, <2>1 DEF Commands
  <2> QED BY <2>1 DEF IInv, SelectionIsOffered
<1> QED BY <1>1, Invariance, PTL

-----------------------------------------------------------------------------
(* One push for each time the machine is switched on.  As long as it is on, *)
(* a push that is due or was made is remembered by programmaGiaMandato,    *)
(* which only a frame of a machine that is off takes back.                 *)
PushInv ==
  /\ autoPushes <= 1
  /\ pushTimer => autoPushes = 0
  /\ (pushTimer \/ autoPushes > 0) /\ mPhase # "off" => programmaGiaMandato

LEMMA PushesAtMostOne ==
  ASSUME NEW sel
  PROVE  Len(PushCommands(sel)) \in {0, 1}
  BY DEF PushCommands

\* A command never switches the machine on.
LEMMA TakesKeepsOff == MachineTakes => (mPhase' # "off" => mPhase # "off")
  BY DEF MachineTakes, MachineTakesCourse, MachineTakesStart, MachineTakesClear,
         MachineTakesButton, MachineRefuses

LEMMA PushInvStep ==
  ASSUME TypeOK, PushInv, [Next]_vars
  PROVE  PushInv'
<1>1. CASE StatusFrame
  BY <1>1 DEF StatusFrame, JustOn, TypeOK, PushInv
<1>2. ASSUME NEW p \in Programs \cup Downloads, Pick(p) PROVE PushInv'
  BY <1>2 DEF Pick, PushInv, machineVars, timers
<1>3. CASE PickSettings
  BY <1>3 DEF PickSettings, PushInv, machineVars, timers, history
<1>4. CASE StartCycle \/ ClearProgram
  BY <1>4 DEF StartCycle, ClearProgram, PushInv, machineVars, history
<1>5. CASE Button("pause") \/ Button("off")
  BY <1>5 DEF Button, PushInv, machineVars, timers, history
<1>6. CASE PushTimerFires
  <2>1. /\ pushTimer /\ ~pushTimer'
        /\ autoPushes' = autoPushes + Len(PushCommands(selProgram))
        /\ mPhase' = mPhase /\ programmaGiaMandato' = programmaGiaMandato
    BY <1>6 DEF PushTimerFires, machineVars, TypeOK
  <2>2. autoPushes' \in {0, 1}
    <3>1. Len(PushCommands(selProgram)) \in {0, 1}
      BY PushesAtMostOne
    <3>2. autoPushes = 0
      BY <2>1 DEF PushInv
    <3> QED BY <2>1, <3>1, <3>2
  <2>3. mPhase' # "off" => programmaGiaMandato'
    BY <2>1 DEF PushInv
  <2>4. autoPushes' <= 1
    BY <2>2
  <2> QED BY <2>1, <2>3, <2>4 DEF PushInv
<1>7. CASE LaterFires
  BY <1>7 DEF LaterFires, PushInv, machineVars, history
<1>8. CASE NewSession
  BY <1>8 DEF NewSession, PushInv
<1>9. CASE MachineTakes
  <2>1. UNCHANGED <<pushTimer, programmaGiaMandato, autoPushes>>
    BY <1>9 DEF MachineTakes, timers
  <2> QED BY <1>9, <2>1, TakesKeepsOff DEF PushInv
<1>10. CASE MachineMoves
  <2>1. pushTimer' = pushTimer /\ programmaGiaMandato' = programmaGiaMandato
    BY <1>10 DEF MachineMoves, timers
  <2>2. \/ ~pushTimer /\ autoPushes' = 0
        \/ mPhase' = "off" /\ autoPushes' = autoPushes
        \/ mPhase # "off" /\ autoPushes' = autoPushes
        \/ mPhase' = mPhase /\ autoPushes' = autoPushes
    BY <1>10 DEF MachineMoves
  <2> QED BY <2>1, <2>2 DEF PushInv
<1>11. CASE UNCHANGED vars
  BY <1>11 DEF vars, machineVars, timers, history, PushInv
<1> QED BY <1>1, <1>2, <1>3, <1>4, <1>5, <1>6, <1>7, <1>8, <1>9, <1>10, <1>11 DEF Next

\* A handler pushes the programme at most once each time the machine is
\* switched on, however frames, the push timer, commands and the machine's own
\* panel interleave (processStatusFrame, programmaGiaMandato).
THEOREM PushedOnce == Spec => []OncePerPowerOn
<1>1. Init => PushInv
  BY DEF Init, PushInv
<1>2. TypeOK /\ PushInv /\ [Next]_vars => PushInv'
  BY PushInvStep
<1>3. PushInv => OncePerPowerOn
  BY DEF PushInv, OncePerPowerOn
<1> QED BY <1>1, <1>2, <1>3, TypeCorrect, PTL DEF Spec

-----------------------------------------------------------------------------
(* The selection and the machine.  What a frame will show does not depend  *)
(* on what the handler knows.  As long as nothing was lost on the way, a   *)
(* selection that differs from the programme last seen has its command     *)
(* under way, or was refused, or is what the machine has and the next      *)
(* frame will tell.                                                        *)
Shows == IF mApplied # None THEN mApplied ELSE mCourse

Writes(c, p) == c.cmd = "course" /\ c.course = p

AppliedIsStored == mApplied \in {None, mStored}

\* A cycle is never picked, only mirrored; it stays selected while it is seen.
CycleIsSeen == selProgram \in Downloads => seenProgram \in {selProgram, None}

Pending ==
  \/ \E i \in DOMAIN wire : Writes(wire[i], selProgram)
  \/ mBeep
  \/ owed /\ mApplied = None /\ mCourse = selProgram

WishedOrPending == selProgram # seenProgram /\ seenProgram # None => wish \/ Pending

AgreeInv == AppliedIsStored /\ CycleIsSeen /\ WishedOrPending

LEMMA FrameShows ==
  ASSUME TypeOK, AppliedIsStored
  PROVE  /\ Reported(DownloadedNext) = Shows
         /\ Shows # None => Selectable(Shows, DownloadedNext)
<1>1. mApplied # None => mApplied = mStored /\ DownloadedNext = mStored
  BY DEF AppliedIsStored, DownloadedNext, Spared
<1>2. mCourse # None => mCourse \in Programs
  BY DEF TypeOK, Courses
<1> QED BY <1>1, <1>2 DEF Reported, Shows, Selectable

\* What pushing a selection sends, unless nothing: a cycle is written by a command
\* of its own.
LEMMA PushWrites ==
  ASSUME NEW sel, Selectable(sel, downloadedId), sel \notin Downloads, TypeOK,
         PushCommands(sel) # <<>>
  PROVE  PushCommands(sel) = << CourseCmd("course", sel) >>
<1>1. sel = downloadedId => sel = None
  BY DEF TypeOK, Cycles
<1>2. sel # None
  BY DryerProgramsAssumption DEF Selectable
<1> QED BY <1>1, <1>2 DEF PushCommands

\* The commands under way stay under way when others follow.
LEMMA SentStays ==
  ASSUME wire \in Seq(Commands), NEW cmds \in Seq(Commands), Send(cmds), NEW p
  PROVE  /\ (\E i \in DOMAIN wire : Writes(wire[i], p)) => \E i \in DOMAIN wire' : Writes(wire'[i], p)
         /\ (\E i \in DOMAIN cmds : Writes(cmds[i], p)) => \E i \in DOMAIN wire' : Writes(wire'[i], p)
<1>1. wire' = wire \o cmds
  BY DEF Send
<1>2. /\ DOMAIN wire = 1 .. Len(wire) /\ DOMAIN cmds = 1 .. Len(cmds)
      /\ DOMAIN wire' = 1 .. (Len(wire) + Len(cmds))
      /\ \A i \in 1 .. Len(wire) : wire'[i] = wire[i]
      /\ \A i \in 1 .. Len(cmds) : wire'[Len(wire) + i] = cmds[i]
  BY <1>1
<1>3. ASSUME NEW i \in DOMAIN wire, Writes(wire[i], p)
      PROVE  \E j \in DOMAIN wire' : Writes(wire'[j], p)
  <2>1. i \in DOMAIN wire' /\ wire'[i] = wire[i]
    BY <1>2
  <2> QED BY <1>3, <2>1
<1>4. ASSUME NEW i \in DOMAIN cmds, Writes(cmds[i], p)
      PROVE  \E j \in DOMAIN wire' : Writes(wire'[j], p)
  <2>1. Len(wire) + i \in DOMAIN wire' /\ wire'[Len(wire) + i] = cmds[i]
    BY <1>2
  <2> QED BY <1>4, <2>1
<1> QED BY <1>3, <1>4

\* A pause sends a command, whatever waits behind it.
LEMMA PausedSends ==
  ASSUME NEW command \in Commands, SendPaused(command)
  PROVE  \E cmds \in Seq(Commands) : Send(cmds)
<1>1. <<command>> \in Seq(Commands) /\ <<Cmd("pause")>> \in Seq(Commands)
  BY CmdType
<1> QED BY <1>1 DEF SendPaused

\* A step that sends, and leaves machine, selection and history.
LEMMA SendAgrees ==
  ASSUME IInv, AgreeInv, NEW cmds \in Seq(Commands), Send(cmds),
         UNCHANGED <<mApplied, mCourse, mStored, mBeep, selProgram, seenProgram, owed, wish>>
  PROVE  AgreeInv'
<1>1. Pending => Pending'
  BY SentStays DEF Pending, IInv, TypeOK
<1> QED BY <1>1 DEF AgreeInv, AppliedIsStored, CycleIsSeen, WishedOrPending

\* A selection that is pushed has its command under way.
LEMMA PushAgrees ==
  ASSUME IInv, AgreeInv, Send(PushCommands(selProgram')), PushCommands(selProgram') # <<>>,
         selProgram' \in Programs \/ selProgram' = selProgram,
         UNCHANGED <<mApplied, mCourse, mStored, mBeep, seenProgram, owed>>
  PROVE  AgreeInv'
<1> DEFINE sel == selProgram'
<1>1. Selectable(sel, downloadedId)
  BY DEF IInv, Selectable
<1>2. CycleIsSeen'
  BY DryerProgramsAssumption DEF AgreeInv, CycleIsSeen
<1>3. CASE sel \in Downloads
  <2>1. seenProgram' \in {selProgram', None}
    BY <1>2, <1>3 DEF CycleIsSeen
  <2>2. WishedOrPending'
    BY <2>1 DEF WishedOrPending
  <2> QED BY <1>2, <2>2 DEF AgreeInv, AppliedIsStored
<1>4. CASE sel \notin Downloads
  <2>1. PushCommands(sel) = << CourseCmd("course", sel) >>
    BY <1>1, <1>4, PushWrites DEF IInv
  <2>2. PushCommands(sel) \in Seq(Commands)
    BY <1>1, PushCommandsType
  <2>3. 1 \in DOMAIN PushCommands(sel) /\ Writes(PushCommands(sel)[1], sel)
    BY <2>1 DEF Writes, CourseCmd
  <2>4. \E i \in DOMAIN wire' : Writes(wire'[i], sel)
    BY <2>2, <2>3, SentStays DEF IInv, TypeOK
  <2>5. Pending'
    BY <2>4 DEF Pending
  <2> QED BY <1>2, <2>5 DEF AgreeInv, AppliedIsStored, WishedOrPending
<1> QED BY <1>3, <1>4

LEMMA InitAgrees == Init => AgreeInv
  BY DEF Init, AgreeInv, AppliedIsStored, CycleIsSeen, WishedOrPending

\* A frame that leaves a difference leaves what was under way for it: it puts the
\* selection back after a refusal and mirrors what it shows anew.
LEMMA FrameAgrees ==
  ASSUME IInv, AgreeInv, StatusFrame
  PROVE  AgreeInv'
<1> DEFINE s1 == RefreshProgramOptions(selProgram)
           s2 == AfterRefusal(s1)
           s3 == MirrorSelection(s2)
<1>1. Reported(DownloadedNext) = Shows /\ (Shows # None => Selectable(Shows, DownloadedNext))
  BY FrameShows DEF IInv, AgreeInv
<1>2. s1 # selProgram =>
        /\ s1 \in Programs
        /\ selProgram \in Downloads /\ ~Selectable(selProgram, DownloadedNext)
  BY FrameTypes, DryerProgramsAssumption
     DEF RefreshProgramOptions, Selectable, IInv, TypeOK, Courses
<1> HIDE DEF s1
<1>3. s2 # Shows /\ Shows # None => s2 = s1 /\ ~mBeep
  BY <1>1 DEF AfterRefusal
<1>4. s2 \in {s1, Shows}
  BY <1>1 DEF AfterRefusal
<1> HIDE DEF s2
<1>5. s3 # Shows /\ Shows # None => s3 = s2 /\ Shows = seenProgram
  BY <1>1 DEF MirrorSelection, Mirrors
<1>6. s3 \in {s2, Shows}
  BY <1>1 DEF MirrorSelection
<1>7. /\ selProgram' = s3 /\ seenProgram' = Shows
      /\ wish' = (wish /\ s3 = selProgram)
      /\ UNCHANGED <<mApplied, mStored, mCourse, wire>>
  BY <1>1 DEF StatusFrame, s1, s2
<1> HIDE DEF s3
<1>8. ASSUME s3 # Shows, Shows # None
      PROVE  s3 = selProgram /\ Shows = seenProgram /\ ~mBeep
  <2>1. s3 = s1 /\ Shows = seenProgram /\ ~mBeep
    BY <1>3, <1>5, <1>8
  <2>2. s1 = selProgram
    <3> SUFFICES ASSUME s1 # selProgram PROVE FALSE
      OBVIOUS
    <3>1. selProgram = Shows
      BY <1>2, <1>8, <2>1 DEF AgreeInv, CycleIsSeen
    <3> QED BY <1>1, <1>2, <1>8, <3>1
  <2> QED BY <2>1, <2>2
<1>9. CycleIsSeen'
  BY <1>7, <1>8 DEF AgreeInv, CycleIsSeen
<1>10. WishedOrPending'
  <2> SUFFICES ASSUME s3 # Shows, Shows # None, ~wish' PROVE Pending'
    BY <1>7 DEF WishedOrPending
  <2>1. s3 = selProgram /\ Shows = seenProgram /\ ~mBeep /\ ~wish
    BY <1>7, <1>8
  <2>2. Pending
    BY <2>1 DEF AgreeInv, WishedOrPending
  <2>3. \E i \in DOMAIN wire : Writes(wire[i], selProgram)
    BY <2>1, <2>2 DEF Pending, Shows
  <2> QED BY <1>7, <2>1, <2>3 DEF Pending
<1> QED BY <1>7, <1>9, <1>10 DEF AgreeInv, AppliedIsStored

LEMMA PickAgrees ==
  ASSUME IInv, AgreeInv, NEW p \in Programs \cup Downloads, Pick(p)
  PROVE  AgreeInv'
<1> DEFINE sel == IF Accepted(p) THEN p ELSE selProgram
<1>1. /\ selProgram' = sel /\ Send(PushCommands(sel)) /\ wish' = (PushCommands(sel) = <<>>)
      /\ UNCHANGED <<mApplied, mCourse, mStored, mBeep, seenProgram, owed>>
  BY DEF Pick, machineVars, record
<1>2. sel \in Programs \/ sel = selProgram
  BY DEF Accepted
<1> HIDE DEF sel
<1>3. CASE PushCommands(sel) # <<>>
  BY <1>1, <1>2, <1>3, PushAgrees
<1>4. CASE PushCommands(sel) = <<>>
  <2>1. CycleIsSeen'
    BY <1>1, <1>2, DryerProgramsAssumption DEF AgreeInv, CycleIsSeen
  <2> QED BY <1>1, <1>4, <2>1 DEF AgreeInv, AppliedIsStored, WishedOrPending
<1> QED BY <1>3, <1>4

LEMMA PushTimerAgrees ==
  ASSUME IInv, AgreeInv, PushTimerFires
  PROVE  AgreeInv'
<1>1. /\ Send(PushCommands(selProgram)) /\ selProgram' = selProgram
      /\ wish' = (wish /\ PushCommands(selProgram) = <<>>)
      /\ UNCHANGED <<mApplied, mCourse, mStored, mBeep, seenProgram, owed>>
  BY DEF PushTimerFires, machineVars, record
<1>2. CASE PushCommands(selProgram) # <<>>
  BY <1>1, <1>2, PushAgrees
<1>3. CASE PushCommands(selProgram) = <<>>
  <2>1. PushCommands(selProgram) \in Seq(Commands)
    BY PushCommandsType DEF IInv
  <2>2. wish' = wish
    BY <1>1, <1>3 DEF IInv, TypeOK
  <2> QED BY <1>1, <2>1, <2>2, SendAgrees
<1> QED BY <1>2, <1>3

\* The other commands of the handler leave selection and machine as they are.
LEMMA OtherCommandsAgree ==
  ASSUME IInv, AgreeInv,
         \/ PickSettings \/ StartCycle \/ ClearProgram
         \/ Button("pause") \/ Button("off") \/ LaterFires
  PROVE  AgreeInv'
<1>1. UNCHANGED <<mApplied, mCourse, mStored, mBeep, selProgram, seenProgram, owed, wish>>
  BY DEF PickSettings, StartCycle, ClearProgram, Button, LaterFires, machineVars, record, history
<1>2. \E cmds \in Seq(Commands) : Send(cmds)
  <2>1. CASE PickSettings
    <3>1. machineCycle \in Programs
      BY <2>1 DEF PickSettings, IInv, TypeOK, Courses
    <3>2. <<CourseCmd("settings", machineCycle)>> \in Seq(Commands)
      BY <3>1, CourseCmdType
    <3>3. Send(<<CourseCmd("settings", machineCycle)>>)
      BY <2>1 DEF PickSettings
    <3> QED BY <3>2, <3>3
  <2>2. CASE StartCycle
    <3>1. CycleId \in Programs
      BY <2>2 DEF StartCycle, CycleId, IInv, TypeOK, Courses, Selectable
    <3>2. CourseCmd("start", CycleId) \in Commands
      BY <3>1, CourseCmdType
    <3> QED BY <2>2, <3>2, PausedSends DEF StartCycle
  <2>3. CASE ClearProgram
    BY <2>3, CmdType, PausedSends DEF ClearProgram
  <2>4. CASE Button("pause") \/ Button("off")
    <3>1. <<Cmd("pause")>> \in Seq(Commands) /\ <<Cmd("off")>> \in Seq(Commands)
      BY CmdType
    <3> QED BY <2>4, <3>1 DEF Button
  <2>5. CASE LaterFires
    <3>1. <<Head(later)>> \in Seq(Commands)
      BY <2>5 DEF LaterFires, IInv, TypeOK
    <3> QED BY <2>5, <3>1 DEF LaterFires
  <2> QED BY <2>1, <2>2, <2>3, <2>4, <2>5
<1> QED BY <1>1, <1>2, SendAgrees

\* A new handler has seen nothing yet and shows a course of the dial.
LEMMA SessionAgrees ==
  ASSUME AgreeInv, NewSession
  PROVE  AgreeInv'
<1>1. /\ seenProgram' = None /\ selProgram' = Cotone
      /\ mApplied' = mApplied /\ mStored' = mStored
  BY DEF NewSession, machineVars
<1> QED BY <1>1 DEF AgreeInv, AppliedIsStored, CycleIsSeen, WishedOrPending

\* A command that the machine takes sets its course or is refused.
LEMMA TakesAgrees ==
  ASSUME IInv, AgreeInv, MachineTakes
  PROVE  AgreeInv'
<1> DEFINE c == Head(wire)
<1>1. /\ wire # <<>> /\ wire' = Tail(wire) /\ c \in Commands
      /\ owed' = TRUE /\ wish' = (wish \/ owed \/ mPhase = "off")
      /\ selProgram' = selProgram /\ seenProgram' = seenProgram
  BY DEF MachineTakes, Noted, record, IInv, TypeOK
<1>2. \/ c.cmd \in {"course", "settings", "downloaded"} /\ MachineTakesCourse(c)
      \/ c.cmd # "course" /\ UNCHANGED <<mBeep, mStored>> /\ mApplied' \in {None, mApplied}
      \/ MachineRefuses
  BY DEF MachineTakes, MachineTakesStart, MachineTakesClear, MachineTakesButton
<1>3. AppliedIsStored'
  BY <1>2 DEF MachineTakesCourse, MachineRefuses, AgreeInv, AppliedIsStored
<1>4. CycleIsSeen'
  BY <1>1 DEF AgreeInv, CycleIsSeen
<1>5. ASSUME selProgram # seenProgram, seenProgram # None, ~wish'
      PROVE  Pending'
  <2>1. ~wish /\ ~owed /\ mPhase # "off"
    BY <1>1, <1>5
  <2>2. (\E i \in DOMAIN wire : Writes(wire[i], selProgram)) \/ mBeep
    BY <1>5, <2>1 DEF AgreeInv, WishedOrPending, Pending
  <2>3. CASE mBeep
    <3>1. mBeep'
      BY <1>2, <2>1, <2>3 DEF MachineTakesCourse, MachineRefuses
    <3> QED BY <3>1 DEF Pending
  <2>4. ASSUME NEW i \in DOMAIN wire, Writes(wire[i], selProgram), i # 1
        PROVE  Pending'
    <3>1. i - 1 \in DOMAIN wire' /\ wire'[i - 1] = wire[i]
      BY <1>1, <2>4 DEF IInv, TypeOK
    <3>2. \E j \in DOMAIN wire' : Writes(wire'[j], selProgram)
      BY <2>4, <3>1
    <3> QED BY <1>1, <3>2 DEF Pending
  <2>5. CASE Writes(wire[1], selProgram)
    <3>1. c.cmd = "course" /\ c.course = selProgram
      BY <1>1, <2>5 DEF Writes
    <3>2. c.cycle = None
      BY <1>1, <3>1 DEF Commands
    <3>3. CASE MachineTakesCourse(c)
      BY <1>1, <3>1, <3>2, <3>3 DEF MachineTakesCourse, Pending
    <3>4. CASE MachineRefuses
      BY <2>1, <3>4 DEF MachineRefuses, Pending
    <3> QED BY <1>2, <3>1, <3>3, <3>4
  <2> QED BY <2>2, <2>3, <2>4, <2>5
<1>6. WishedOrPending'
  BY <1>1, <1>5 DEF WishedOrPending
<1> QED BY <1>3, <1>4, <1>6 DEF AgreeInv

\* A change at the machine, after one that no frame has told, is a wish.
LEMMA MovesAgrees ==
  ASSUME IInv, AgreeInv, MachineMoves
  PROVE  AgreeInv'
<1>1. /\ wire' = wire /\ mBeep' = mBeep
      /\ owed' = TRUE /\ wish' = (wish \/ owed)
      /\ selProgram' = selProgram /\ seenProgram' = seenProgram
  BY DEF MachineMoves, Noted, record
<1>2. AppliedIsStored'
  BY DEF MachineMoves, AgreeInv, AppliedIsStored
<1>3. CycleIsSeen'
  BY <1>1 DEF AgreeInv, CycleIsSeen
<1>4. WishedOrPending'
  BY <1>1 DEF AgreeInv, WishedOrPending, Pending
<1> QED BY <1>2, <1>3, <1>4 DEF AgreeInv

LEMMA AgreeStep ==
  ASSUME IInv, AgreeInv, [Next]_vars
  PROVE  AgreeInv'
<1>1. CASE StatusFrame
  BY <1>1, FrameAgrees
<1>2. ASSUME NEW p \in Programs \cup Downloads, Pick(p) PROVE AgreeInv'
  BY <1>2, PickAgrees
<1>3. CASE \/ PickSettings \/ StartCycle \/ ClearProgram
           \/ Button("pause") \/ Button("off") \/ LaterFires
  BY <1>3, OtherCommandsAgree
<1>4. CASE PushTimerFires
  BY <1>4, PushTimerAgrees
<1>5. CASE NewSession
  BY <1>5, SessionAgrees
<1>6. CASE MachineTakes
  BY <1>6, TakesAgrees
<1>7. CASE MachineMoves
  BY <1>7, MovesAgrees
<1>8. CASE UNCHANGED vars
  BY <1>8 DEF vars, machineVars, record, history, AgreeInv, AppliedIsStored, CycleIsSeen,
              WishedOrPending, Pending
<1> QED BY <1>1, <1>2, <1>3, <1>4, <1>5, <1>6, <1>7, <1>8 DEF Next

\* Once everything has settled, a waiting machine has the programme that Home
\* Assistant shows, whoever picked last and whatever was refused, unless the
\* selection was a wish (mirrorSelection, pushProgram, the refusal in rec[18]).
THEOREM SelectionAlwaysAgrees == Spec => []SelectionAgrees
<1>1. Init => AgreeInv
  BY InitAgrees
<1>2. IInv /\ AgreeInv /\ [Next]_vars => AgreeInv'
  BY AgreeStep
<1>3. IInv /\ AgreeInv => SelectionAgrees
  <2> SUFFICES ASSUME IInv, AgreeInv, Settled, mCourse # None, ~wish
               PROVE  selProgram = seenProgram
    BY DEF SelectionAgrees
  <2>1. seenProgram = Reported(downloadedId) /\ wire = <<>> /\ ~mBeep
    BY DEF Settled
  <2>2. seenProgram # None
    BY <2>1 DEF Reported
  <2>3. mApplied = None => seenProgram = mCourse
    BY <2>1 DEF Reported
  <2>4. DOMAIN wire = {}
    BY <2>1
  <2> QED BY <2>1, <2>2, <2>3, <2>4 DEF AgreeInv, WishedOrPending, Pending
<1> QED BY <1>1, <1>2, <1>3, Invariance, PTL DEF Spec
=============================================================================
