------------------------------ MODULE Consoles ------------------------------
(* The console: ConsoleInput and ConsoleOutput of machine/console.cc, their   *)
(* SynchConsole of userprog/synchconsole.cc, and the loops that use them, the *)
(* console cases of SC_Read and SC_Write in userprog/exception.cc and         *)
(* Kernel::ConsoleTest.                                                       *)
(*                                                                            *)
(* A thread in GetChar or PutChar waits first for the lock and then for the   *)
(* device.  The lock is free or held, and any thread may be the next to get   *)
(* it; the semaphore waitFor counts (Semaphores.tla).  States of a thread:    *)
(*   "idle"                                                                   *)
(*   "get"  in SynchConsoleInput::GetChar, before waitFor->P returns          *)
(*   "got"  waitFor->P returned                                               *)
(*   "put"  in SynchConsoleOutput::PutChar, before the character is written   *)
(*   "busy" the character is written: in waitFor->P                           *)
EXTENDS Integers, Sequences

CONSTANTS Thread,
          Char,      \* the characters of the terminal
          EndOfFile, \* the char (char) EOF, that of the byte 0xff too
          MaxTyped,  \* bound on the characters typed
          MaxLen     \* bound on the length of a read or write

ASSUME ConsoleAssumption == MaxLen \in Nat

VARIABLES
  keyboard,   \* what is typed and not yet read, as a file of the host
  closed,     \* and whether it ends there
  incoming,   \* ConsoleInput::incoming
  polling,    \* a ConsoleReadInt interrupt is scheduled
  available,  \* SynchConsoleInput::waitFor
  reading,    \* the thread that holds its lock, if any
  putBusy,    \* ConsoleOutput::putBusy: and a ConsoleWriteInt is scheduled
  written,    \* SynchConsoleOutput::waitFor
  writing,    \* as reading
  state,      \* of the threads
  rest,       \* the characters a thread has still to read, or to write
  echoing,    \* the threads in ConsoleTest
  typed,      \* all that was typed (history)
  returned    \* what GetChar returned (history)

input  == <<keyboard, closed, incoming, polling, available>>
output == <<putBusy, written>>
consoleVars == <<input, reading, output, writing, state, rest, echoing, typed, returned>>

ConsolesTypeOK ==
  /\ keyboard \in Seq(Char) /\ closed \in BOOLEAN
  /\ incoming \in Char \cup {EndOfFile}
  /\ polling \in BOOLEAN /\ available \in Nat
  /\ putBusy \in BOOLEAN /\ written \in Nat
  /\ reading \in SUBSET Thread /\ writing \in SUBSET Thread
  /\ state \in [Thread -> {"idle", "get", "got", "put", "busy"}]
  /\ rest \in [Thread -> 0 .. MaxLen]
  /\ echoing \in SUBSET Thread
  /\ typed \in Seq(Char) /\ returned \in Seq(Char \cup {EndOfFile})

ConsolesInit ==
  /\ keyboard = <<>> /\ closed = FALSE
  /\ incoming = EndOfFile /\ polling = TRUE /\ available = 0
  /\ putBusy = FALSE /\ written = 0
  /\ reading = {} /\ writing = {}
  /\ state = [t \in Thread |-> "idle"]
  /\ rest = [t \in Thread |-> 0]
  /\ echoing = {}
  /\ typed = <<>> /\ returned = <<>>

-----------------------------------------------------------------------------
(* The terminal. *)
Type(c) ==
  /\ ~closed /\ Len(typed) < MaxTyped
  /\ keyboard' = Append(keyboard, c) /\ typed' = Append(typed, c)
  /\ UNCHANGED <<closed, incoming, polling, available, reading, output, writing,
                 state, rest, echoing, returned>>

CloseKeyboard ==
  /\ ~closed /\ closed' = TRUE
  /\ UNCHANGED <<keyboard, incoming, polling, available, reading, output, writing,
                 state, rest, echoing, typed, returned>>

(* ConsoleInput::CallBack, when PollFile says that a read returns.  At the    *)
(* end of the file no other interrupt is scheduled.                           *)
Arrive ==
  /\ polling /\ (keyboard # <<>> \/ closed)
  /\ polling' = FALSE
  /\ available' = available + 1
  /\ IF keyboard # <<>>
     THEN incoming' = Head(keyboard) /\ keyboard' = Tail(keyboard)
     ELSE UNCHANGED <<incoming, keyboard>>
  /\ UNCHANGED <<closed, reading, output, writing, state, rest, echoing, typed, returned>>

-----------------------------------------------------------------------------
(* A read of n characters, or ConsoleTest.                                    *)
StartRead(t, n, echo) ==
  /\ state[t] = "idle"
  /\ state' = [state EXCEPT ![t] = "get"]
  /\ rest' = [rest EXCEPT ![t] = n]
  /\ echoing' = IF echo THEN echoing \cup {t} ELSE echoing
  /\ UNCHANGED <<input, reading, output, writing, typed, returned>>

(* lock->Acquire *)
AcquireInput(t) ==
  /\ state[t] = "get" /\ reading = {}
  /\ reading' = {t}
  /\ UNCHANGED <<input, output, writing, state, rest, echoing, typed, returned>>

(* waitFor->P *)
AwaitChar(t) ==
  /\ state[t] = "get" /\ t \in reading /\ available > 0
  /\ available' = available - 1
  /\ state' = [state EXCEPT ![t] = "got"]
  /\ UNCHANGED <<keyboard, closed, incoming, polling, reading, output, writing, rest,
                 echoing, typed, returned>>

(* Mutant: the console is polled again only when more is already there. *)
TakeIncomingLazily == incoming' = EndOfFile /\ polling' = (polling \/ keyboard # <<>>)

(* Mutant: the character stays in incoming. *)
KeepIncoming == incoming' = incoming /\ polling' = (polling \/ incoming # EndOfFile)

(* ConsoleInput::GetChar *)
TakeIncoming ==
  incoming' = EndOfFile /\ polling' = (polling \/ incoming # EndOfFile)

(* What a thread does with the character ch: ConsoleTest echoes it, or ends;  *)
(* SC_Read asks for the next one, whatever this one is.                       *)
Go(t, ch) ==
  IF t \in echoing /\ ch # EndOfFile
  THEN /\ state' = [state EXCEPT ![t] = "put"]
       /\ UNCHANGED <<rest, echoing>>
  ELSE IF t \notin echoing /\ rest[t] > 1
  THEN /\ rest' = [rest EXCEPT ![t] = @ - 1]
       /\ state' = [state EXCEPT ![t] = "get"]
       /\ UNCHANGED echoing
  ELSE /\ rest' = [rest EXCEPT ![t] = 0]
       /\ state' = [state EXCEPT ![t] = "idle"]
       /\ echoing' = echoing \ {t}

(* consoleInput->GetChar and lock->Release *)
GetChar(t) ==
  /\ state[t] = "got"
  /\ TakeIncoming
  /\ returned' = Append(returned, incoming)
  /\ reading' = reading \ {t}
  /\ Go(t, incoming)
  /\ UNCHANGED <<keyboard, closed, available, output, writing, typed>>

-----------------------------------------------------------------------------
(* SC_Write of n characters. *)
StartWrite(t, n) ==
  /\ state[t] = "idle"
  /\ state' = [state EXCEPT ![t] = "put"]
  /\ rest' = [rest EXCEPT ![t] = n]
  /\ UNCHANGED <<input, output, reading, writing, echoing, typed, returned>>

AcquireOutput(t) ==
  /\ state[t] = "put" /\ writing = {}
  /\ writing' = {t}
  /\ UNCHANGED <<input, reading, output, state, rest, echoing, typed, returned>>

(* Mutant: PutChar writes without the lock. *)
PutCharUnlocked(t) ==
  /\ state[t] = "put"
  /\ putBusy' = TRUE
  /\ state' = [state EXCEPT ![t] = "busy"]
  /\ UNCHANGED <<input, written, reading, writing, rest, echoing, typed, returned>>

(* ConsoleOutput::PutChar; it asserts that the device is not busy.            *)
PutChar(t) ==
  /\ state[t] = "put" /\ t \in writing
  /\ putBusy' = TRUE
  /\ state' = [state EXCEPT ![t] = "busy"]
  /\ UNCHANGED <<input, written, reading, writing, rest, echoing, typed, returned>>

(* ConsoleOutput::CallBack *)
Written ==
  /\ putBusy
  /\ putBusy' = FALSE /\ written' = written + 1
  /\ UNCHANGED <<input, reading, writing, state, rest, echoing, typed, returned>>

(* The end of SynchConsoleOutput::PutChar, and the next character: ConsoleTest *)
(* reads it, SC_Write has it.                                                 *)
FinishPut(t) ==
  /\ state[t] = "busy" /\ written > 0
  /\ written' = written - 1
  /\ writing' = writing \ {t}
  /\ IF t \in echoing
     THEN state' = [state EXCEPT ![t] = "get"] /\ UNCHANGED rest
     ELSE IF rest[t] > 1
     THEN state' = [state EXCEPT ![t] = "put"] /\ rest' = [rest EXCEPT ![t] = @ - 1]
     ELSE state' = [state EXCEPT ![t] = "idle"] /\ rest' = [rest EXCEPT ![t] = 0]
  /\ UNCHANGED <<input, reading, putBusy, echoing, typed, returned>>

ConsolesNext ==
  \/ \E c \in Char : Type(c)
  \/ CloseKeyboard \/ Arrive \/ Written
  \/ \E t \in Thread :
       \/ \E n \in 1 .. MaxLen : StartRead(t, n, FALSE) \/ StartWrite(t, n)
       \/ StartRead(t, 0, TRUE)
       \/ AcquireInput(t) \/ AwaitChar(t) \/ GetChar(t)
       \/ AcquireOutput(t) \/ PutChar(t) \/ FinishPut(t)

ConsolesSpec == ConsolesInit /\ [][ConsolesNext]_consoleVars

-----------------------------------------------------------------------------
(* The characters reach the readers one by one, in the order in which they    *)
(* were typed, and none is lost or returned twice; after the last one, or     *)
(* once 0xff was taken for it, EOF is returned once.                          *)
Delivered == IF incoming = EndOfFile THEN returned ELSE Append(returned, incoming)

IsStartOf(s, t) == Len(s) <= Len(t) /\ s = SubSeq(t, 1, Len(s))

InputInOrder ==
  /\ IsStartOf(Delivered, Append(typed, EndOfFile))
  /\ incoming # EndOfFile => typed = Delivered \o keyboard
  /\ Len(returned) > Len(typed) => closed

(* ASSERT(incoming == EOF) when the console is polled, and ASSERT(putBusy ==  *)
(* FALSE) when a character is written: the locks and semaphores keep the      *)
(* requests apart, whoever reads and writes.                                  *)
DevicesReady ==
  /\ polling => incoming = EndOfFile /\ available = 0
  /\ \A t \in Thread : state[t] = "put" /\ t \in writing => ~putBusy

(* No wake-up is lost: the thread that has the lock will get a character when *)
(* one is typed, and the one that writes is told.  Who waits without that     *)
(* waits for ever, with the lock, and only because EOF was returned before.   *)
NeverStalls ==
  /\ \A t \in reading : state[t] = "get" =>
       \/ available > 0 \/ polling
       \/ \E i \in DOMAIN returned : returned[i] = EndOfFile
  /\ \A t \in writing : state[t] = "busy" => putBusy \/ written > 0
=============================================================================
