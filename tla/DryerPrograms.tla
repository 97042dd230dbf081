--------------------------- MODULE DryerPrograms ---------------------------
(***************************************************************************)
(* The programme of the RC90U2 dryer as its handler sees it                *)
(* (cloud/devices/RC90U2_WW.ts): the selection Home Assistant shows, the   *)
(* programme the machine has, the cycle downloaded from LG's app, and the  *)
(* commands that make one follow the other.  Both sides act at any time:   *)
(* the machine reports when it likes, commands reach it later, and what    *)
(* the handler knows is what the last status frame said.                   *)
(*                                                                         *)
(* push_program_to_appliance is on.  A programme stands for its course id  *)
(* and for its label; a downloaded cycle likewise.  Dry level and EcoHybrid*)
(* are only what makes a settings command: their values are left out.      *)
(***************************************************************************)
EXTENDS Naturals, Sequences

CONSTANTS
  Programs,     \* the courses of the dial
  Cotone,       \* the one a handler starts with
  Downloads,    \* ids of downloadable cycles
  None,         \* no course, no cycle: 0 in the record
  MaxWire,      \* bound: commands under way to the machine
  MaxLater,     \* bound: commands waiting behind a pause
  MaxSessions,  \* bound: sessions of the machine, each with its handler
  PanelActs     \* the machine also changes by itself or at its panel

ASSUME DryerProgramsAssumption ==
  /\ Cotone \in Programs
  /\ Programs \cap Downloads = {}
  /\ None \notin Programs \cup Downloads
  /\ MaxWire \in Nat /\ MaxLater \in Nat /\ MaxSessions \in Nat
  /\ PanelActs \in BOOLEAN

Courses == Programs \cup {None}
Cycles == Downloads \cup {None}
\* "held" is paused or ended: on, and neither waiting nor running.
Phases == {"off", "waiting", "running", "held"}
Commands == [cmd : {"course", "settings", "start"}, course : Programs, cycle : {None}]
            \cup [cmd : {"downloaded"}, course : Programs, cycle : Downloads]
            \cup [cmd : {"clear", "pause", "off"}, course : {None}, cycle : {None}]

VARIABLES
  mPhase, mCourse,      \* the machine: rec[2] and rec[7] of its records,
  mStored, mApplied,    \* rec[25] and rec[22],
  mBeep,                \* and rec[18] = 0x10, a command it has refused
  wire,                 \* commands sent and not yet taken by the machine
  phase, machineCycle,  \* the handler: what the last record said
  selProgram,           \* the selection shown in Home Assistant
  seenProgram,          \* the programme the last record showed
  downloadedId, downloadedBase,
  clearedByUs,
  programmaGiaMandato,
  pushTimer,            \* the 1.2 s timer of a push after power-on is armed
  later,                \* commands behind a pause, in the order of their timers
  sessions,             \* sessions so far
  owed,                 \* history: the machine has changed since its last frame
  wish,                 \* history: the selection was not sent, was lost on a machine
                        \* that was off, or no frame told of a change between others
  autoPushes            \* history: pushes of this handler since the machine was switched on

machineVars == <<mPhase, mCourse, mStored, mApplied, mBeep>>
record == <<phase, machineCycle, seenProgram>>
download == <<downloadedId, downloadedBase>>
timers == <<pushTimer, later>>
history == <<owed, wish, autoPushes>>
vars == <<machineVars, wire, record, selProgram, download, clearedByUs, programmaGiaMandato,
          timers, sessions, history>>

TypeOK ==
  /\ mPhase \in Phases /\ mCourse \in Courses /\ mStored \in Cycles /\ mApplied \in Cycles
  /\ mBeep \in BOOLEAN
  /\ wire \in Seq(Commands)
  /\ phase \in Phases /\ machineCycle \in Courses
  /\ selProgram \in Programs \cup Downloads
  /\ seenProgram \in Programs \cup Downloads \cup {None}
  /\ downloadedId \in Cycles /\ downloadedBase \in Courses
  /\ clearedByUs \in BOOLEAN /\ programmaGiaMandato \in BOOLEAN
  /\ pushTimer \in BOOLEAN
  /\ later \in Seq(Commands)
  /\ sessions \in Nat
  /\ owed \in BOOLEAN /\ wish \in BOOLEAN /\ autoPushes \in Nat

Cmd(name) == [cmd |-> name, course |-> None, cycle |-> None]
CourseCmd(name, p) == [cmd |-> name, course |-> p, cycle |-> None]

-----------------------------------------------------------------------------
(* A definition whose name ends in _X and a word is a faulty variant of the  *)
(* definition that follows it.  No specification uses it: the variants     *)
(* are substituted one at a time to show that the properties can fail.     *)

(* What one status record makes of the handler.                            *)

\* trackDownloaded: the zero that follows a command of ours is passed over.
Spared == mStored = None /\ downloadedId # None /\ clearedByUs

DownloadedNext == IF Spared THEN downloadedId ELSE mStored

\* A machine that waits with the cycle applied tells its base course.
BaseLearned ==
  IF mStored # None /\ mApplied = mStored /\ mPhase = "waiting"
  THEN mCourse ELSE downloadedBase

BaseNext ==
  IF mStored # downloadedId /\ ~Spared /\ mStored = None THEN None ELSE BaseLearned

Selectable(p, id) == p \in Programs \/ (id # None /\ p = id)

RefreshProgramOptions_XKept(sel) == sel

\* refreshProgramOptions: a selection whose entry has gone falls back.
RefreshProgramOptions(sel) ==
  IF DownloadedNext # downloadedId /\ ~Selectable(sel, DownloadedNext)
  THEN IF BaseNext # None THEN BaseNext ELSE Cotone
  ELSE sel

\* The programme a record shows: the downloaded cycle, or the base course.
Reported(id) == IF mApplied # None /\ mApplied = id THEN mApplied ELSE mCourse

AfterRefusal_XWish(sel) == sel

\* A refused command puts the selection back on the true value.
AfterRefusal(sel) ==
  IF mBeep /\ Selectable(Reported(DownloadedNext), DownloadedNext)
  THEN Reported(DownloadedNext) ELSE sel


\* mirrorSelection: the selection follows what the machine shows anew.
Mirrors(p) == p # seenProgram /\ Selectable(p, DownloadedNext)

MirrorSelection(sel) ==
  LET p == Reported(DownloadedNext) IN IF Mirrors(p) THEN p ELSE sel

JustOn_XEveryTime == mPhase = "waiting" /\ mCourse = None

\* Waiting without a programme, for the first time since it was off.
JustOn == mPhase = "waiting" /\ mCourse = None /\ ~programmaGiaMandato

(***************************************************************************)
(* processStatusFrame with the present state of the machine: first the     *)
(* downloaded cycle, then the push after power-on, the refused command and *)
(* the mirrored selection.                                                 *)
(***************************************************************************)
StatusFrame ==
  LET sel == MirrorSelection(AfterRefusal(RefreshProgramOptions(selProgram))) IN
  /\ downloadedId' = DownloadedNext
  /\ downloadedBase' = BaseNext
  /\ clearedByUs' = IF mStored # downloadedId THEN FALSE ELSE clearedByUs
  /\ selProgram' = sel
  /\ seenProgram' = Reported(DownloadedNext)
  /\ phase' = mPhase
  /\ machineCycle' = mCourse
  /\ programmaGiaMandato' = (mPhase # "off" /\ (programmaGiaMandato \/ JustOn))
  /\ pushTimer' = (pushTimer \/ JustOn)
  /\ mBeep' = FALSE
  /\ wish' = (wish /\ sel = selProgram)
  /\ owed' = FALSE
  /\ UNCHANGED <<mPhase, mCourse, mStored, mApplied, wire, later, sessions,
                 autoPushes>>

-----------------------------------------------------------------------------
(* Commands.                                                               *)

\* pushProgram and sendDownloaded: the commands that write selection sel.
PushCommands(sel) ==
  IF phase # "waiting" THEN <<>>
  ELSE IF sel = downloadedId
       THEN IF downloadedBase = None THEN <<>>
            ELSE << [cmd |-> "downloaded", course |-> downloadedBase, cycle |-> downloadedId] >>
       ELSE << CourseCmd("course", sel) >>

\* sendCourse notes that the next zero will be of its own making.
Notes(cmds) == \E i \in DOMAIN cmds : cmds[i].cmd \in {"course", "settings"}

Send(cmds) ==
  /\ Len(wire) + Len(cmds) <= MaxWire
  /\ wire' = wire \o cmds

\* The guard of setProperty: CYCLE_IDS has the programmes of the dial only.
Accepted(p) == p \in Programs

\* sel_program from Home Assistant, one of the options it is offered.
Pick(p) ==
  LET sel == IF Accepted(p) THEN p ELSE selProgram
      cmds == PushCommands(sel)
  IN
  /\ Selectable(p, downloadedId)
  /\ selProgram' = sel
  /\ Send(cmds)
  /\ clearedByUs' = (clearedByUs \/ Notes(cmds))
  /\ wish' = (cmds = <<>>)
  /\ UNCHANGED <<machineVars, record, download, programmaGiaMandato, timers, sessions,
                 owed, autoPushes>>

\* sel_dry_level or sel_eco: pushSettings, with the course last reported.
PickSettings ==
  LET cmds == IF phase = "waiting" /\ machineCycle # None
              THEN << CourseCmd("settings", machineCycle) >> ELSE <<>>
  IN
  /\ cmds # <<>>
  /\ Send(cmds)
  /\ clearedByUs' = TRUE
  /\ UNCHANGED <<machineVars, record, selProgram, download, programmaGiaMandato, timers,
                 sessions, history>>

\* The timer of a push after power-on.
PushTimerFires ==
  LET cmds == PushCommands(selProgram) IN
  /\ pushTimer
  /\ pushTimer' = FALSE
  /\ Send(cmds)
  /\ clearedByUs' = (clearedByUs \/ Notes(cmds))
  /\ autoPushes' = autoPushes + Len(cmds)
  /\ wish' = (wish /\ cmds = <<>>)
  /\ UNCHANGED <<machineVars, record, selProgram, download, programmaGiaMandato, later,
                 sessions, owed>>

\* A command that a running machine takes only when it is paused first.
SendPaused(command) ==
  IF phase # "running"
  THEN Send(<<command>>) /\ UNCHANGED later
  ELSE /\ Send(<<Cmd("pause")>>)
       /\ Len(later) < MaxLater
       /\ later' = Append(later, command)


\* buildProgramCommand: a downloaded cycle starts with its base course.
CycleId == IF selProgram = downloadedId THEN downloadedBase ELSE selProgram

\* start_cycle, apply_program.
StartCycle ==
  /\ CycleId # None
  /\ SendPaused(CourseCmd("start", CycleId))
  /\ UNCHANGED <<machineVars, record, selProgram, download, clearedByUs, programmaGiaMandato,
                 pushTimer, sessions, history>>

\* reset: an empty course.
ClearProgram ==
  /\ SendPaused(Cmd("clear"))
  /\ UNCHANGED <<machineVars, record, selProgram, download, clearedByUs, programmaGiaMandato,
                 pushTimer, sessions, history>>

\* pause, power_off.
Button(name) ==
  /\ Send(<<Cmd(name)>>)
  /\ UNCHANGED <<machineVars, record, selProgram, download, clearedByUs, programmaGiaMandato,
                 timers, sessions, history>>

\* The timer behind a pause; it belongs to no session.
LaterFires ==
  /\ later # <<>>
  /\ Send(<<Head(later)>>)
  /\ later' = Tail(later)
  /\ UNCHANGED <<machineVars, record, selProgram, download, clearedByUs, programmaGiaMandato,
                 pushTimer, sessions, history>>

(***************************************************************************)
(* The machine reconnects: drop() of the handler clears its keepalive and  *)
(* no other timer, and a new handler knows nothing yet.  What a pending    *)
(* push of the old one will send is settled, as no record reaches it.      *)
(***************************************************************************)
NewSession ==
  LET stale == IF pushTimer THEN PushCommands(selProgram) ELSE <<>> IN
  /\ sessions < MaxSessions
  /\ sessions' = sessions + 1
  /\ Len(later) + Len(stale) <= MaxLater
  /\ later' = later \o stale
  /\ wire' = <<>>
  /\ phase' = "off" /\ machineCycle' = None /\ seenProgram' = None
  /\ selProgram' = Cotone
  /\ downloadedId' = None /\ downloadedBase' = None
  /\ clearedByUs' = FALSE /\ programmaGiaMandato' = FALSE /\ pushTimer' = FALSE
  /\ wish' = TRUE /\ autoPushes' = 0
  /\ UNCHANGED <<machineVars, owed>>

-----------------------------------------------------------------------------
\* What a change of the machine does to the history; lost: a command was.
Noted(lost) == owed' = TRUE /\ wish' = (wish \/ owed \/ lost)

(* The machine, as the comments of the handler describe it.                *)

\* A course command names a course, so it is 00 where a cycle's id would be.
MachineTakesCourse(c) ==
  /\ mPhase = "waiting"
  /\ mCourse' = c.course
  /\ mStored' = c.cycle /\ mApplied' = c.cycle
  /\ UNCHANGED <<mPhase, mBeep>>

MachineTakesStart(c) ==
  /\ mPhase \in {"waiting", "held"}
  /\ mPhase' = "running" /\ mCourse' = c.course
  /\ UNCHANGED <<mStored, mApplied, mBeep>>

MachineTakesClear ==
  /\ mPhase \in {"waiting", "held"}
  /\ mPhase' = "waiting" /\ mCourse' = None /\ mApplied' = None
  /\ UNCHANGED <<mStored, mBeep>>

MachineTakesButton(c) ==
  /\ mPhase # "off"
  /\ mPhase' = IF c.cmd = "off" THEN "off" ELSE IF mPhase = "running" THEN "held" ELSE mPhase
  /\ UNCHANGED <<mCourse, mStored, mApplied, mBeep>>

\* A beep when it is on, silence when it is off.
MachineRefuses ==
  /\ mBeep' = (mPhase # "off")
  /\ UNCHANGED <<mPhase, mCourse, mStored, mApplied>>

MachineTakes ==
  LET c == Head(wire) IN
  /\ wire # <<>>
  /\ wire' = Tail(wire)
  /\ Noted(mPhase = "off")
  /\ \/ c.cmd \in {"course", "settings", "downloaded"} /\ MachineTakesCourse(c)
     \/ c.cmd = "start" /\ MachineTakesStart(c)
     \/ c.cmd = "clear" /\ MachineTakesClear
     \/ c.cmd \in {"pause", "off"} /\ MachineTakesButton(c)
     \/ c.cmd \notin {"pause", "off"} /\ MachineRefuses
     \/ c.cmd \in {"pause", "off"} /\ mPhase = "off" /\ MachineRefuses
  /\ UNCHANGED <<record, selProgram, download, clearedByUs, programmaGiaMandato, timers,
                 sessions, autoPushes>>

(* What the user does at the panel or in LG's app, and the end of a cycle. *)
(* Switching on takes longer than the 1.2 s of an older push.              *)
MachineMoves ==
  /\ PanelActs /\ Noted(FALSE)
  /\ \/ /\ mPhase = "off" /\ mPhase' = "waiting" /\ ~pushTimer
        /\ mCourse' \in {None, mCourse} /\ mApplied' = None
        /\ autoPushes' = 0
        /\ UNCHANGED mStored
     \/ /\ mPhase # "off" /\ mPhase' = "off"
        /\ UNCHANGED <<mCourse, mStored, mApplied, autoPushes>>
     \/ /\ mPhase = "waiting" /\ mCourse' \in Programs /\ mApplied' = None
        /\ UNCHANGED <<mPhase, mStored, autoPushes>>
     \/ /\ mPhase \in {"waiting", "held"} /\ mCourse # None /\ mPhase' = "running"
        /\ UNCHANGED <<mCourse, mStored, mApplied, autoPushes>>
     \/ /\ mPhase = "running" /\ mPhase' \in {"held", "waiting"}
        /\ UNCHANGED <<mCourse, mStored, mApplied, autoPushes>>
     \/ /\ mPhase = "waiting"
        /\ \E id \in Downloads : mStored' = id /\ mApplied' = id
        /\ mCourse' \in Programs
        /\ UNCHANGED <<mPhase, autoPushes>>
     \/ /\ mStored # None /\ mStored' = None /\ mApplied' = None
        /\ UNCHANGED <<mPhase, mCourse, autoPushes>>
  /\ UNCHANGED <<mBeep, wire, record, selProgram, download, clearedByUs,
                 programmaGiaMandato, timers, sessions>>

-----------------------------------------------------------------------------
Init ==
  /\ mPhase \in Phases /\ mCourse \in Courses
  /\ mStored \in Cycles /\ mApplied \in {None, mStored}
  /\ mBeep = FALSE
  /\ wire = <<>> /\ later = <<>>
  /\ phase = "off" /\ machineCycle = None /\ seenProgram = None
  /\ selProgram = Cotone
  /\ downloadedId = None /\ downloadedBase = None
  /\ clearedByUs = FALSE /\ programmaGiaMandato = FALSE /\ pushTimer = FALSE
  /\ sessions = 1
  /\ owed = FALSE /\ wish = TRUE /\ autoPushes = 0

Next ==
  \/ StatusFrame
  \/ \E p \in Programs \cup Downloads : Pick(p)
  \/ PickSettings \/ StartCycle \/ ClearProgram
  \/ Button("pause") \/ Button("off")
  \/ PushTimerFires \/ LaterFires
  \/ NewSession
  \/ MachineTakes \/ MachineMoves

Spec == Init /\ [][Next]_vars

-----------------------------------------------------------------------------
(* Properties.                                                             *)

(* The selection is always one of the options Home Assistant is offered:   *)
(* an entry that goes takes the selection with it (refreshProgramOptions). *)
(* And no command that sets or starts something goes out with course 0,    *)
(* as a cycle whose base was never learned would have (buildProgramCommand).*)
SelectionIsOffered ==
  /\ Selectable(selProgram, downloadedId)
  /\ \A q \in {wire, later} : \A i \in DOMAIN q :
       q[i].cmd \in {"course", "settings", "start", "downloaded"} => q[i].course \in Programs

\* Nothing is under way, and the last frame told what the machine is now.
Settled ==
  /\ wire = <<>> /\ later = <<>> /\ ~pushTimer /\ ~mBeep
  /\ phase = mPhase /\ machineCycle = mCourse
  /\ seenProgram = Reported(downloadedId)

(* Once everything has settled, a waiting machine has the programme that   *)
(* Home Assistant shows, whoever picked last, at the panel or remotely,    *)
(* and whatever the machine refused; unless the selection was made while   *)
(* it could not be sent (mirrorSelection, pushProgram, rec[18]).           *)
SelectionAgrees ==
  Settled /\ mPhase = "waiting" /\ mCourse # None /\ ~wish => selProgram = seenProgram

(* A handler pushes a programme once per power-on (programmaGiaMandato, and *)
(* the test "una volta sola per accensione"); the handler of the next       *)
(* session starts anew.                                                     *)
OncePerPowerOn == autoPushes <= 1

(* Settings are sent with the course the machine has, so that they change  *)
(* nothing else (pushSettings, 1270-1273).                                 *)
SettingsKeepCourse ==
  [][MachineTakes /\ Head(wire).cmd = "settings" => mCourse' = mCourse]_vars
=============================================================================
