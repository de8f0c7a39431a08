----------------------------- MODULE Interrupts -----------------------------
(* Simulated time: the pending interrupts of machine/interrupt.cc on the      *)
(* SortedList of lib/list.cc, the timer (machine/timer.cc, threads/alarm.cc)  *)
(* and the time a disk request takes (machine/disk.cc).                       *)
(*                                                                            *)
(* The other modules let any device interrupt at any tick; here is when each  *)
(* does.  What its handler does to threads and data is theirs: the network    *)
(* polls again, a console asks for another interrupt when it is used, the     *)
(* disk's request is over, the timer schedules itself and asks for a yield.   *)
(* With nobody ready (Scheduler.tla) the machine idles.                       *)
EXTENDS Integers, FiniteSets, FiniteSetsExt, SequencesExt

CONSTANTS SystemTick, UserTick, TimerTicks, RotationTime, SeekTime,  \* stats.h
          PollTime,         \* NetworkTime and ConsoleTime, which are the same
          SectorsPerTrack, NumTracks,
          Quanta,           \* arguments of -quantum, -1 for none
          MaxGarbage,       \* bound on what new leaves in quantum_num
          MaxTime           \* bound on totalTicks

ASSUME ClockAssumption ==
  /\ {SystemTick, UserTick, TimerTicks, RotationTime, PollTime} \subseteq Nat \ {0}
  /\ {SectorsPerTrack, NumTracks} \subseteq Nat \ {0} /\ SeekTime \in Nat
  /\ Quanta \subseteq Int /\ MaxGarbage \in Nat /\ MaxTime \in Nat

VARIABLES totalTicks,
          pending,      \* Interrupt::pending
          status,       \* Interrupt::status
          inHandler, yieldOnReturn,
          quantum,      \* Timer::quantum_num, once it is set
          randomize,    \* Timer::randomize
          lastSector, bufferInit,   \* of the disk
          writing,      \* the disk request under way is a write (history)
          onTrack       \* when the head reached the track it is on (history)

clockVars == <<totalTicks, pending, status, inHandler, yieldOnReturn, quantum,
          randomize, lastSector, bufferInit, writing, onTrack>>

Sector == 0 .. SectorsPerTrack * NumTracks - 1
Device == {"Timer", "Network", "Console", "Disk"}

InterruptsTypeOK ==
  /\ totalTicks \in 0 .. MaxTime
  /\ pending \in Seq([type : Device, when : Nat, since : Nat])
  /\ status \in {"SystemMode", "UserMode", "IdleMode"}
  /\ inHandler \in BOOLEAN /\ yieldOnReturn \in BOOLEAN
  /\ quantum \in Quanta /\ randomize \in BOOLEAN
  /\ lastSector \in Sector /\ bufferInit \in Nat
  /\ writing \in BOOLEAN /\ onTrack \in Nat

-----------------------------------------------------------------------------
(* Mutant: SortedList::Insert puts what is due at the same time first. *)
InsertFirst(list, p) ==
  InsertAt(list, Min({i \in DOMAIN list : list[i].when >= p.when} \cup {Len(list) + 1}), p)

(* SortedList::Insert: before the first entry that is later. *)
Insert(list, p) ==
  InsertAt(list, Min({i \in DOMAIN list : list[i].when > p.when} \cup {Len(list) + 1}), p)

(* Interrupt::Schedule; since is history. *)
Schedule(list, type, fromNow) ==
  Insert(list, [type |-> type, when |-> totalTicks + fromNow, since |-> totalTicks])

IsPending(type) == \E i \in DOMAIN pending : pending[i].type = type

(* Timer::SetInterrupt *)
Delays ==
  LET period == IF quantum > 0 THEN quantum ELSE TimerTicks
  IN IF randomize THEN 1 .. 2 * period ELSE {period}

(* The constructor of Timer reads quantum_num before it sets it, so the first *)
(* expiry is at any time.  The console and the network begin to poll.         *)
ClockInit ==
  /\ totalTicks = 0
  /\ \E first \in 1 .. MaxGarbage :
       pending = Schedule(Schedule(Schedule(<<>>, "Timer", first), "Console", PollTime),
                          "Network", PollTime)
  /\ status = "SystemMode" /\ inHandler = FALSE /\ yieldOnReturn = FALSE
  /\ quantum \in Quanta /\ randomize \in BOOLEAN
  /\ lastSector = 0 /\ bufferInit = 0
  /\ writing = FALSE /\ onTrack = 0

disk == <<lastSector, bufferInit, writing, onTrack>>

-----------------------------------------------------------------------------
Tick == IF status = "UserMode" THEN UserTick ELSE SystemTick

(* Mutant: an interrupt that is due now waits for the next tick. *)
DueAfter(list, now) == list # <<>> /\ Head(list).when < now

Due(list, now) == list # <<>> /\ Head(list).when <= now

(* OneTick up to the first handler, if there is one to run. *)
OneTick ==
  /\ ~inHandler
  /\ totalTicks + Tick <= MaxTime
  /\ totalTicks' = totalTicks + Tick
  /\ inHandler' = Due(pending, totalTicks')
  /\ UNCHANGED <<pending, status, yieldOnReturn, quantum, randomize, disk>>

(* Idle up to the first handler: the clock is moved to it.  Without one the   *)
(* machine would halt.                                                        *)
Idle ==
  /\ ~inHandler /\ status = "SystemMode"
  /\ pending # <<>> /\ Head(pending).when <= MaxTime
  /\ status' = "IdleMode"
  /\ totalTicks' = Max({totalTicks, Head(pending).when})
  /\ inHandler' = TRUE
  /\ UNCHANGED <<pending, yieldOnReturn, quantum, randomize, disk>>

(* Mutant: the timer does not schedule itself again. *)
HandlersStopTimer(list, type) ==
  CASE type = "Network" -> {Schedule(list, "Network", PollTime)}
    [] type = "Console" -> {list, Schedule(list, "Console", PollTime)}
    [] OTHER            -> {list}

(* The interrupts that are pending after the handler.  A console polls again  *)
(* while nothing is typed.                                                    *)
Handlers(list, type) ==
  CASE type = "Timer"   -> {Schedule(list, "Timer", delay) : delay \in Delays}
    [] type = "Network" -> {Schedule(list, "Network", PollTime)}
    [] type = "Console" -> {list, Schedule(list, "Console", PollTime)}
    [] type = "Disk"    -> {list}

(* One turn of CheckIfDue's loop.  After the last one Idle returns, or the    *)
(* thread yields if Alarm::CallBack asked for it; the thread that runs then   *)
(* has the status it had before.                                              *)
Handle ==
  LET type  == Head(pending).type
      yield == yieldOnReturn \/ (type = "Timer" /\ status # "IdleMode")
  IN
  /\ inHandler
  /\ pending' \in Handlers(Tail(pending), type)
  /\ inHandler' = Due(pending', totalTicks)
  /\ yieldOnReturn' = (yield /\ inHandler')
  /\ status' \in IF inHandler' THEN {status}
                 ELSE IF status = "IdleMode" THEN {"SystemMode"}
                 ELSE IF yield THEN {"SystemMode", "UserMode"} ELSE {status}
  /\ writing' = (writing /\ type # "Disk")
  /\ UNCHANGED <<totalTicks, quantum, randomize, lastSector, bufferInit, onTrack>>

(* RaiseException, its end, and the start of a program. *)
ChangeMode ==
  /\ ~inHandler
  /\ status' = IF status = "UserMode" THEN "SystemMode" ELSE "UserMode"
  /\ UNCHANGED <<totalTicks, pending, inHandler, yieldOnReturn, quantum, randomize, disk>>

(* ConsoleInput::GetChar, ConsoleOutput::PutChar or NetworkOutput::Send.      *)
UseConsole ==
  /\ ~inHandler /\ status = "SystemMode" /\ ~IsPending("Console")
  /\ pending' = Schedule(pending, "Console", PollTime)
  /\ UNCHANGED <<totalTicks, status, inHandler, yieldOnReturn, quantum, randomize, disk>>

-----------------------------------------------------------------------------
(* The disk turns by a sector in RotationTime, all its tracks alike. *)
Track(s) == s \div SectorsPerTrack

(* TimeToSeek *)
Distance(s) == IF Track(s) > Track(lastSector) THEN Track(s) - Track(lastSector)
                                               ELSE Track(lastSector) - Track(s)
Seek(s) == Distance(s) * SeekTime
Rotation(s) ==
  LET over == (totalTicks + Seek(s)) % RotationTime
  IN IF over > 0 THEN RotationTime - over ELSE 0

ModuloDiff(to, from) ==
  (((to % SectorsPerTrack) - (from % SectorsPerTrack)) + SectorsPerTrack) % SectorsPerTrack

(* Mutant: the buffer has one sector more than was read. *)
BufferedEarly(s) ==
  LET timeAfter == totalTicks + Seek(s) + Rotation(s) IN
  /\ Seek(s) = 0
  /\ (timeAfter - bufferInit) \div RotationTime
       >= ModuloDiff(s, bufferInit \div RotationTime)

(* The track buffer has what passed the head since it came to the track. *)
Buffered(s) ==
  LET timeAfter == totalTicks + Seek(s) + Rotation(s) IN
  /\ Seek(s) = 0
  /\ (timeAfter - bufferInit) \div RotationTime
       > ModuloDiff(s, bufferInit \div RotationTime)

ComputeLatency(s, write) ==
  LET timeAfter == totalTicks + Seek(s) + Rotation(s) IN
  IF ~write /\ Buffered(s) THEN RotationTime
  ELSE timeAfter - totalTicks
         + ModuloDiff(s, timeAfter \div RotationTime) * RotationTime + RotationTime

(* ReadRequest and WriteRequest, with UpdateLast.  SynchDisk makes one request*)
(* at a time.                                                                 *)
DiskRequest(s, write) ==
  /\ ~inHandler /\ status = "SystemMode" /\ ~IsPending("Disk")
  /\ pending' = Schedule(pending, "Disk", ComputeLatency(s, write))
  /\ lastSector' = s
  /\ bufferInit' = IF Seek(s) # 0 THEN totalTicks + Seek(s) + Rotation(s) ELSE bufferInit
  /\ writing' = write
  /\ onTrack' = IF Seek(s) # 0 THEN totalTicks + Seek(s) ELSE onTrack
  /\ UNCHANGED <<totalTicks, status, inHandler, yieldOnReturn, quantum, randomize>>

ClockNext ==
  \/ OneTick \/ Idle \/ Handle \/ ChangeMode \/ UseConsole
  \/ \E s \in Sector, write \in BOOLEAN : DiskRequest(s, write)

ClockSpec == ClockInit /\ [][ClockNext]_clockVars

-----------------------------------------------------------------------------
(* No handler runs before its time or, by more than the last tick, after it,  *)
(* and none is left out: between two ticks nothing that is pending is due.    *)
(* Of two that are due at the same time the one that was scheduled first is   *)
(* first.  The timer is always among them, so that the clock never stops.     *)
HandlersInTime ==
  /\ \A i, j \in DOMAIN pending : i < j =>
       \/ pending[i].when < pending[j].when
       \/ pending[i].when = pending[j].when /\ pending[i].since <= pending[j].since
  /\ \A i \in DOMAIN pending :
       IF ~inHandler THEN pending[i].when > totalTicks
       ELSE IF status = "IdleMode" THEN pending[i].when >= totalTicks
       ELSE pending[i].when > totalTicks - Tick
  /\ Cardinality({i \in DOMAIN pending : pending[i].type = "Timer"}) = 1

(* A disk request is over when its sector has passed the head on its track:   *)
(* for a write after the request, for a read at some time since the head came *)
(* to the track; and it takes no more than the seek, the rest of a sector and *)
(* one turn of the disk.                                                      *)
SectorPasses ==
  \A i \in DOMAIN pending : pending[i].type = "Disk" =>
    LET p == pending[i]
        from == IF writing THEN Max({p.since, onTrack}) ELSE onTrack
    IN
    /\ \E n \in 0 .. p.when \div RotationTime - 1 :
         /\ n % SectorsPerTrack = lastSector % SectorsPerTrack
         /\ n * RotationTime >= from
         /\ (n + 1) * RotationTime <= p.when
    /\ p.when < Max({p.since, onTrack}) + (SectorsPerTrack + 1) * RotationTime
=============================================================================
