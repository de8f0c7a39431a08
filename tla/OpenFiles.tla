----------------------------- MODULE OpenFiles -----------------------------
(* The open-file tables of filesys/filetable.cc and the calls that use them:  *)
(* new_Open, Open and Remove_File of filesys/filesys.cc and the cases of      *)
(* SC_Create, SC_Open, SC_Remove, SC_Read, SC_Write, SC_Close, SC_seek and    *)
(* SC_Exec in userprog/exception.cc.                                          *)
(*                                                                            *)
(* Opening and deleting sleep in the disk, and the other processes run then;  *)
(* what lies between is one step.  A call that is refused and changes nothing *)
(* is no step.  The reference counts are left out: they are 1 until an entry  *)
(* is removed, as nothing calls Increase, the copying constructor or the      *)
(* destructor of a process's table.                                           *)
(*                                                                            *)
(* A file is opened by a path.  parse_path follows it to a directory and      *)
(* leaves its last name, and the tables know that name only: "a", "d/a" and   *)
(* "d/../a" share a flag and an id.  User programs run in the root directory, *)
(* and have no calls that make directories.  A path that leads nowhere is     *)
(* refused.                                                                   *)
(*                                                                            *)
(* Stages of a process:                                                       *)
(*   "none"   not created               "user"   runs its program             *)
(*   "open"   Open looked at the flag   "insert" and at the directory         *)
(*   "clear"  deletes a file            "exec"   opens a program              *)
(*   "end"    exited: nothing is closed                                       *)
EXTENDS Integers, FiniteSets

CONSTANTS Program,
          Name,        \* the names of files
          Path,        \* the strings a program may give, names among them
          NameOf,      \* their last components
          DirOf,       \* the directories they lead to
          Executable,  \* the files that Load takes for programs
          TableLen,    \* ALL_OpenFiles_Table::len
          LocalLen,    \* Per_Process_OpenFile_Table::len
          Uncleared,   \* sets of slots that new leaves with something in them
          Free, Garbage

Slot  == 0 .. TableLen - 1
Local == 0 .. LocalLen - 1
Ids   == -1 .. LocalLen - 1    \* what Open returns, and the console's ids

FileOf(path) == <<DirOf[path], NameOf[path]>>
File == {FileOf(path) : path \in Path}

(* Both lengths are 100, more than the ids of the console; NULL and what new  *)
(* leaves are no files.                                                       *)
ASSUME OpenFilesAssumption ==
  /\ Name \subseteq Path /\ NameOf \in [Path -> Name] /\ \A n \in Name : NameOf[n] = n
  /\ TableLen \in Nat /\ TableLen >= 2 /\ LocalLen \in Nat
  /\ Uncleared \in SUBSET (SUBSET Slot)
  /\ Free \notin Path \cup File /\ Garbage \notin File

VARIABLES disk,        \* the files in the directories
          table,       \* openfiles_table: the file of an entry
          local,       \* Per_Process_OpenFile_Table::open_file_id
          nameId,      \* AddrSpace::name_id, -1 for no entry
          removedFlag, \* kernel->removed_flag, by paths; "none" for no entry
          stage,
          call,        \* the call a process is in
          kernel,      \* "undefined" after an access through a bad pointer, "stopped"
                       \* after an ASSERT failed
          late         \* processes whose Open saw a flag that was set since (history)

openFileVars == <<disk, table, local, nameId, removedFlag, stage, call, kernel, late>>

NoCall == [op |-> "none", path |-> Free, found |-> FALSE,  \* what is opened or removed
           slot |-> -1, file |-> Free, local |-> -1]       \* what is deleted

OpenFilesTypeOK ==
  /\ disk \in SUBSET File
  /\ table \in [Slot -> File \cup {Free, Garbage}]
  /\ local \in [Program -> [Local -> Slot \cup {-1}]]
  /\ nameId \in [Program -> [Name -> Slot \cup {-1}]]
  /\ removedFlag \in [Path -> {"none", "no", "yes"}]
  /\ stage \in [Program -> {"none", "user", "open", "insert", "clear", "exec", "end"}]
  /\ call \in [Program ->
       [op : {"none", "Open", "Close", "Remove", "RunUP", "Exec"},
        path : Path \cup {Free}, found : BOOLEAN,
        slot : Slot \cup {-1}, file : File \cup {Free}, local : Local \cup {-1}]]
  /\ kernel \in {"runs", "undefined", "stopped"}
  /\ late \in SUBSET Program

(* The ids of the console are in every process's table, but not in the        *)
(* system's: Write stores nothing for them.                                   *)
NewTable == [i \in Local |-> IF i < 2 THEN i ELSE -1]

OpenFilesInit ==
  /\ disk \in SUBSET File
  /\ \E g \in Uncleared : table = [s \in Slot |-> IF s \in g THEN Garbage ELSE Free]
  /\ local = [p \in Program |-> NewTable]
  /\ nameId = [p \in Program |-> [n \in Name |-> -1]]
  /\ removedFlag = [path \in Path |-> "none"]
  /\ stage = [p \in Program |-> "none"]
  /\ call = [p \in Program |-> NoCall]
  /\ kernel = "runs"
  /\ late = {}

HasEntry(s) == s \in Slot /\ table[s] \in File
EntryName(s) == table[s][2]
InUser(p) == kernel = "runs" /\ stage[p] = "user"

(* removed_flag[path] = TRUE *)
Flag(path) ==
  /\ removedFlag' = [removedFlag EXCEPT ![path] = "yes"]
  /\ late' = late \cup {q \in Program : stage[q] \in {"open", "insert"} /\ call[q].path = path}

Undefined ==
  /\ kernel' = "undefined"
  /\ UNCHANGED <<disk, table, local, nameId, removedFlag, stage, call, late>>

-----------------------------------------------------------------------------
(* A program of the command line, or Exec: FileSystem::Open sets the flag of  *)
(* a file that has none, so that it can be opened once.                       *)
StartProgram(p, path, op) ==
  /\ stage' = [stage EXCEPT ![p] = "exec"]
  /\ call' = [call EXCEPT ![p] = [NoCall EXCEPT !.op = op, !.path = path,
                                                !.found = removedFlag[path] # "yes"]]

StartRunUP(p, path) ==
  /\ kernel = "runs" /\ stage[p] = "none" /\ StartProgram(p, path, "RunUP")
  /\ UNCHANGED <<disk, table, local, nameId, removedFlag, kernel, late>>

StartExec(p, path) ==
  /\ InUser(p) /\ StartProgram(p, path, "Exec")
  /\ UNCHANGED <<disk, table, local, nameId, removedFlag, kernel, late>>

Opened(p) == call[p].found /\ FileOf(call[p].path) \in disk

Running(p, q) ==
  /\ stage' = [stage EXCEPT ![p] = "user", ![q] = "user"]
  /\ call' = [call EXCEPT ![p] = NoCall]
  /\ IF removedFlag[call[p].path] = "none"
     THEN Flag(call[p].path)
     ELSE UNCHANGED <<removedFlag, late>>
  /\ UNCHANGED <<disk, table, local, nameId, kernel>>

(* Exec's child is another process, with a table of its own. *)
LoadsProgram(p, q) ==
  /\ kernel = "runs" /\ stage[p] = "exec" /\ Opened(p) /\ FileOf(call[p].path) \in Executable
  /\ IF call[p].op = "RunUP" THEN q = p ELSE stage[q] = "none"
  /\ Running(p, q)

(* A program of the command line that does not load: ASSERTNOTREACHED.  A file *)
(* that is no program: an ASSERT of Load.                                      *)
LoadStopsAll(p) ==
  /\ kernel = "runs" /\ stage[p] = "exec"
  /\ \/ call[p].op = "RunUP"
     \/ Opened(p) /\ FileOf(call[p].path) \notin Executable
  /\ kernel' = "stopped"
  /\ UNCHANGED <<disk, table, local, nameId, removedFlag, stage, call, late>>

(* Exec does not look at what Load returns, which may refuse by protection as  *)
(* well: its child runs in the frames that AddrSpace's constructor names, which *)
(* are other processes' (Paging.tla follows it).                               *)
ExecFails(p) ==
  /\ kernel = "runs" /\ stage[p] = "exec" /\ call[p].op = "Exec"
  /\ Undefined

-----------------------------------------------------------------------------
Create(p, path) ==
  /\ InUser(p) /\ FileOf(path) \notin disk
  /\ disk' = disk \cup {FileOf(path)}
  /\ UNCHANGED <<table, local, nameId, removedFlag, stage, call, kernel, late>>

(* Mutant: the flag is not looked at. *)
OpenAnyway(p, path) ==
  /\ InUser(p)
  /\ stage' = [stage EXCEPT ![p] = "open"]
  /\ call' = [call EXCEPT ![p] = [NoCall EXCEPT !.op = "Open", !.path = path]]
  /\ UNCHANGED <<disk, table, local, nameId, removedFlag, kernel, late>>

(* new_Open looks for a flag of the path as it is given. *)
Open(p, path) ==
  /\ InUser(p) /\ removedFlag[path] # "yes"
  /\ stage' = [stage EXCEPT ![p] = "open"]
  /\ call' = [call EXCEPT ![p] = [NoCall EXCEPT !.op = "Open", !.path = path]]
  /\ UNCHANGED <<disk, table, local, nameId, removedFlag, kernel, late>>

(* The directory is read; a file whose protection refuses is as good as none  *)
(* opened, and -1 is returned.                                                *)
OpenFinds(p) ==
  /\ kernel = "runs" /\ stage[p] = "open"
  /\ stage' = [stage EXCEPT ![p] = "insert"]
  /\ call' = [call EXCEPT ![p].found = FileOf(call[p].path) \in disk]
  /\ UNCHANGED <<disk, table, local, nameId, removedFlag, kernel, late>>

OpenRefused(p) ==
  /\ kernel = "runs" /\ stage[p] = "open" /\ FileOf(call[p].path) \in disk
  /\ stage' = [stage EXCEPT ![p] = "user"]
  /\ call' = [call EXCEPT ![p] = NoCall]
  /\ late' = late \ {p}
  /\ UNCHANGED <<disk, table, local, nameId, removedFlag, kernel>>

(* System_Wide_Table::Insert looks for NULL. *)
FirstSlot ==
  IF \E s \in Slot : table[s] = Free
  THEN CHOOSE s \in Slot : table[s] = Free /\ \A r \in 0 .. s - 1 : table[r] # Free
  ELSE -1

(* Per_Process_OpenFile_Table::Insert puts the system's id, -1 too, in the    *)
(* first place of its own that is free.                                       *)
InsertLocal(p, s) ==
  LET Room(i) == i >= 2 /\ local[p][i] = -1 IN
  IF \E i \in Local : Room(i)
  THEN local' = [local EXCEPT ![p][CHOOSE i \in Local : Room(i) /\ \A j \in 0 .. i - 1 : ~Room(j)] = s]
  ELSE UNCHANGED local

(* Write does nothing when there is no file, but its slot has been given out. *)
(* It is told the last name of the path.                                      *)
OpenInserts(p) ==
  LET s == FirstSlot
      n == NameOf[call[p].path] IN
  /\ kernel = "runs" /\ stage[p] = "insert"
  /\ InsertLocal(p, s)
  /\ IF s # -1 /\ call[p].found
     THEN /\ table' = [table EXCEPT ![s] = FileOf(call[p].path)]
          /\ nameId' = [nameId EXCEPT ![p][n] = s]
          /\ removedFlag' = [removedFlag EXCEPT ![n] = IF @ = "none" THEN "no" ELSE @]
     ELSE UNCHANGED <<table, nameId, removedFlag>>
  /\ stage' = [stage EXCEPT ![p] = "user"]
  /\ call' = [call EXCEPT ![p] = NoCall]
  /\ late' = late \ {p}
  /\ UNCHANGED <<disk, kernel>>

-----------------------------------------------------------------------------
(* Mutant: the flag is left alone. *)
MarkNot(p, op, n, s, i) ==
  /\ stage' = [stage EXCEPT ![p] = "clear"]
  /\ call' = [call EXCEPT ![p] = [NoCall EXCEPT
                !.op = op, !.path = n, !.slot = s, !.file = table[s], !.local = i]]
  /\ UNCHANGED <<disk, table, local, nameId, removedFlag, kernel, late>>

(* System_Wide_Table::remove sets the flag, which an entry's name always has, *)
(* and counts down to 0; then clear deletes the file.                         *)
Mark(p, op, n, s, i) ==
  /\ Flag(EntryName(s))
  /\ stage' = [stage EXCEPT ![p] = "clear"]
  /\ call' = [call EXCEPT ![p] = [NoCall EXCEPT
                !.op = op, !.path = n, !.slot = s, !.file = table[s], !.local = i]]
  /\ UNCHANGED <<disk, table, local, nameId, kernel>>

ForgetLocal(p, i) ==
  local' = IF i = -1 THEN local ELSE [local EXCEPT ![p][i] = -1]

(* remove(s), and then, for i # -1, open_file_id[i] = -1.                     *)
RemoveEntry(p, op, n, s, i) ==
  \/ HasEntry(s) /\ Mark(p, op, n, s, i)
  \/ s \in Slot /\ table[s] = Garbage /\ Undefined
  \/ /\ s \in Slot => table[s] = Free
     /\ ForgetLocal(p, i)
     /\ UNCHANGED <<disk, table, nameId, removedFlag, stage, call, kernel, late>>

(* SC_Close gives the system's table the id of the process, whatever it is.   *)
Close(p, i) ==
  /\ InUser(p)
  /\ RemoveEntry(p, "Close", Free, i, -1)

(* Remove_File takes the system's id for one of the process.  A path that is  *)
(* no name is never found in name_id.                                         *)
RemoveFile(p, n) ==
  /\ InUser(p) /\ nameId[p][n] \in Local
  /\ RemoveEntry(p, "Remove", n, local[p][nameId[p][n]], nameId[p][n])

(* The file is gone from the directory, and then the entry from the table.    *)
Clear(p) ==
  LET c == call[p] IN
  /\ kernel = "runs" /\ stage[p] = "clear"
  /\ disk' = disk \ {c.file}
  /\ table' = [table EXCEPT ![c.slot] = Free]
  /\ ForgetLocal(p, c.local)
  /\ stage' = [stage EXCEPT ![p] = "user"]
  /\ call' = [call EXCEPT ![p] = NoCall]
  /\ UNCHANGED <<nameId, removedFlag, kernel, late>>

-----------------------------------------------------------------------------
(* convert *)
HasFile(p, i) == i \in Local /\ local[p][i] \in Slot /\ table[local[p][i]] # Free

(* The calls that do not return: Read of a file, whose GetName calls itself;  *)
(* Write without one; SC_seek, which asks the system for the name of the      *)
(* process's id.  The others change nothing here: Read of id 0 and Write to   *)
(* id 1 are the console's (Consoles.tla), and WriteAt at the position that is *)
(* the id finds the end of a file made by Create.                             *)
BadRead(p, i) == i # 0 /\ HasFile(p, i)
BadWrite(p, i) == i # 1 /\ ~HasFile(p, i)
BadSeek(p, i) == HasFile(p, i) /\ ~HasEntry(i)

(* A file whose entry was never cleared: a bad pointer is used.               *)
BadPointer(p, i) == HasFile(p, i) /\ ~HasEntry(local[p][i])

Use(p, i) ==
  /\ InUser(p)
  /\ BadRead(p, i) \/ BadWrite(p, i) \/ BadSeek(p, i) \/ BadPointer(p, i)
  /\ Undefined

(* Nothing of the tables is given back. *)
Exits(p) ==
  /\ InUser(p)
  /\ stage' = [stage EXCEPT ![p] = "end"]
  /\ UNCHANGED <<disk, table, local, nameId, removedFlag, call, kernel, late>>

OpenFilesNext ==
  \E p \in Program :
    \/ \E path \in Path : StartRunUP(p, path) \/ StartExec(p, path)
                          \/ Create(p, path) \/ Open(p, path)
    \/ \E n \in Name : RemoveFile(p, n)
    \/ \E q \in Program : LoadsProgram(p, q)
    \/ LoadStopsAll(p) \/ ExecFails(p)
    \/ OpenFinds(p) \/ OpenRefused(p) \/ OpenInserts(p)
    \/ \E i \in Slot : Close(p, i)
    \/ \E i \in Ids : Use(p, i)
    \/ Clear(p) \/ Exits(p)

OpenFilesSpec == OpenFilesInit /\ [][OpenFilesNext]_openFileVars

-----------------------------------------------------------------------------
(* A file whose entry is in the table is on the disk, unless the flag of its  *)
(* name is set: files are deleted through the table only, whatever Open and   *)
(* Remove of different processes do at the same time, by whatever paths.      *)
LiveOrRemoved ==
  \A s \in Slot : HasEntry(s) => table[s] \in disk \/ removedFlag[EntryName(s)] = "yes"

(* A name that was removed enters the table again in two ways only: by an     *)
(* Open that looked at its flag before it was set and slept in the disk since *)
(* then, and by an Open of a longer path, which looks at another flag.        *)
ReopenedLateOrByPath ==
  [][\A s \in Slot :
       HasEntry(s)' /\ table'[s] # table[s] /\ removedFlag[EntryName(s)'] = "yes"
         => \E p \in Program :
              /\ stage[p] = "insert" /\ FileOf(call[p].path) = table'[s]
              /\ call[p].path \in Name => p \in late]_openFileVars

(* "Close the file, we're done reading and writing to it" (syscall.h): it is  *)
(* still there, and only a Remove deletes files.                              *)
OnlyRemoveDeletes ==
  [][\A f \in disk \ disk' :
       \E p \in Program : stage[p] = "clear" /\ call[p].op = "Remove"]_openFileVars
=============================================================================
