------------------------------- MODULE Paging -------------------------------
(* Demand paging: AddrSpace::Load, the PageFaultException case of             *)
(* userprog/exception.cc, and the replacement lists of userprog/LRU.cc and    *)
(* userprog/random.cc.                                                        *)
(*                                                                            *)
(* A fault, and a Load, sleeps in every access to the swap file; the other    *)
(* processes run meanwhile, and what lies between two sleeps is one step.     *)
(* Which process runs next is the scheduler's business (Semaphores.tla), the  *)
(* disk is SynchDisks.tla's: here any process may take the next step.  States *)
(* of a process:                                                              *)
(*   "none"  not created              "open"  Load opens its program          *)
(*   "load"  its pages are loaded     "exec"  loads a child's program         *)
(*   "user"  runs its program         "out"   writes a victim's page to swap  *)
(*   "in"    reads the page it faulted on                                     *)
(*   "end"   exited: its page table stays, and so do its frames               *)
(* Two things go wrong without an error, and the model follows them: Exec     *)
(* starts a child although Load failed (astray), and the case of an unknown   *)
(* system call runs on into that of a page fault (callPage).  The copy of a   *)
(* page table that SC_ThreadFork makes is used by no instruction.             *)
EXTENDS Integers, Sequences, FiniteSets, SequencesExt

CONSTANTS Process,     \* the user processes
          NumPages,    \* AddrSpace::numPages, the same for all
          NumPhysPages,
          SwapPages,   \* whole pages in the swap file, whose length is fixed
          MaxVersion   \* bound on the stores to a page

ASSUME PagingAssumption ==
  /\ IsFiniteSet(Process) /\ Process # {}
  /\ NumPages \in Nat \ {0} /\ NumPhysPages \in Nat \ {0}
  /\ NumPages <= NumPhysPages    \* an ASSERT of Load
  /\ SwapPages \in Nat /\ MaxVersion \in Nat

(* There are 128 frames, and 100 thread identifiers before they run out.      *)
ASSUME FramesAssumption == Cardinality(Process) <= NumPhysPages

Page  == 0 .. NumPages - 1
Frame == 0 .. NumPhysPages - 1
Key   == Process \X Page      \* a page table entry of a process

(* What a page holds: the number of stores to it since it was loaded.         *)
Junk == [key |-> <<>>, version |-> 0]
Content == [key : Key, version : 0 .. MaxVersion] \cup {Junk}

VARIABLES pc,
          loader,      \* while p's program is loaded: the process whose thread does
          nextPage,    \* the page of p that Load is at
          slot,        \* TranslationEntry::virtualPage, the place in the swap file
          frame,       \* TranslationEntry::physicalPage
          valid,       \* TranslationEntry::valid
          slotCounter, \* kernel->swap_space_counter
          frameMap,    \* kernel->record_free_Map: the frames in use
          list,        \* LRU_Entries or random_list
          randomFlag,  \* kernel->random_flag
          fault,       \* the fault p handles: page, victim, frame, victim's contents
          callPage,    \* the page with the unknown call that p repeats for ever, or -1
          astray,      \* processes that run though their program was not loaded
          memory,      \* mainMemory
          swap,        \* the swap file
          machine,     \* "no victim" once a victim was taken from an empty list
          version,     \* the stores to a page (history)
          damaged,     \* pages whose contents were overwritten (history)
          recency      \* the pages of list, least recently used first (history)

tables == <<loader, nextPage, slot, slotCounter, randomFlag>>
vars == <<pc, tables, frame, valid, frameMap, list, fault, callPage, astray, memory,
          swap, machine, version, damaged, recency>>

NoFault == [page |-> 0, victim |-> <<>>, frame |-> -1, copy |-> Junk]

TypeOK ==
  /\ pc \in [Process -> {"none", "open", "load", "exec", "user", "out", "in", "end"}]
  /\ loader \in [Process -> Process]
  /\ nextPage \in [Process -> 0 .. NumPages]
  /\ slot \in [Key -> Nat \cup {-1}]
  /\ frame \in [Key -> Frame \cup {-1}]
  /\ valid \in [Key -> BOOLEAN]
  /\ \A k \in Key : valid[k] <=> frame[k] # -1
  /\ slotCounter \in Nat
  /\ frameMap \in SUBSET Frame
  /\ list \in Seq(Key)
  /\ randomFlag \in BOOLEAN
  /\ fault \in [Process -> [page : Page, victim : Key \cup {<<>>},
                           frame : Frame \cup {-1}, copy : Content]]
  /\ \A p \in Process : pc[p] = "out" => fault[p].victim \in Key
  /\ \A p \in Process : pc[p] \in {"out", "in"} => fault[p].frame # -1
  /\ callPage \in [Process -> Page \cup {-1}]
  /\ astray \in SUBSET Process
  /\ memory \in [Frame -> Content]
  /\ swap \in [0 .. SwapPages - 1 -> Content]
  /\ machine \in {"runs", "stopped", "undefined", "no victim"}
  /\ version \in [Key -> 0 .. MaxVersion]
  /\ damaged \in SUBSET Key
  /\ recency \in Seq(Key)

Init ==
  /\ pc = [p \in Process |-> "none"]
  /\ loader = [p \in Process |-> p]
  /\ nextPage = [p \in Process |-> 0]
  /\ slot = [k \in Key |-> -1]
  /\ frame = [k \in Key |-> -1]
  /\ valid = [k \in Key |-> FALSE]
  /\ slotCounter = 0
  /\ frameMap = {}
  /\ list = <<>>
  /\ randomFlag \in BOOLEAN
  /\ fault = [p \in Process |-> NoFault]
  /\ callPage = [p \in Process |-> -1]
  /\ astray = {}
  /\ memory = [f \in Frame |-> Junk]
  /\ swap = [s \in 0 .. SwapPages - 1 |-> Junk]
  /\ machine = "runs"
  /\ version = [k \in Key |-> 0]
  /\ damaged = {}
  /\ recency = <<>>

-----------------------------------------------------------------------------
(* The lists, as sequences: head to tail. *)
InList(l, k) == \E i \in DOMAIN l : l[i] = k
Without(l, k) ==
  IF InList(l, k) THEN RemoveAt(l, CHOOSE i \in DOMAIN l : l[i] = k) ELSE l

(* The victims removeFront or remove() may choose. *)
Victims(l) == IF randomFlag THEN {l[i] : i \in DOMAIN l} ELSE {Head(l)}

(* Mutant: the list is taken for full one entry early. *)
LeaversEarly(l, k) ==
  IF ~InList(l, k) /\ l # <<>> /\ Len(l) >= NumPhysPages - 1 THEN Victims(l) ELSE {k}

(* What set(k) takes off the list: of a full one an entry, and nobody tells  *)
(* the page table of that one; otherwise k, which moves to the tail.          *)
Leavers(l, k) ==
  IF ~InList(l, k) /\ Len(l) = NumPhysPages THEN Victims(l) ELSE {k}

(* Mutant: the page just read is not put on the list. *)
InsertNothing(l, k, x) == l

(* The list after set(k), from which x was taken.                             *)
Insert(l, k, x) ==
  IF InList(l, k) /\ randomFlag THEN l ELSE Append(Without(l, x), k)

(* The swap file's WriteAt and ReadAt do nothing past the end of the file.    *)
Stored(s) == s \in 0 .. SwapPages - 1

(* Writing k's place in the swap file ruins what other pages have there.      *)
WriteSwap(k, content) ==
  IF Stored(slot[k])
  THEN /\ swap' = [swap EXCEPT ![slot[k]] = content]
       /\ damaged' = damaged \cup {j \in Key : j # k /\ slot[j] = slot[k]}
  ELSE UNCHANGED <<swap, damaged>>

-----------------------------------------------------------------------------
(* Where p is, in a machine that has not stopped. *)
At(p, state) == machine = "runs" /\ pc[p] = state

(* Load takes the next place in the swap file for a page before it reads the  *)
(* page from the executable.                                                  *)
TakeSlot(k, counter) ==
  /\ slot' = [slot EXCEPT ![k] = counter]
  /\ slotCounter' = counter + 1

(* A program of the command line is loaded by its own thread. *)
RunUP(p) ==
  /\ At(p, "none")
  /\ pc' = [pc EXCEPT ![p] = "open"]
  /\ loader' = [loader EXCEPT ![p] = p]
  /\ UNCHANGED <<nextPage, slot, slotCounter, randomFlag, frame, valid, frameMap, list,
                 fault, callPage, astray, memory, swap, machine, version, damaged, recency>>

(* Exec starts at the beginning of the swap file again, before its Load sleeps *)
(* in opening the program.                                                     *)
Exec(q, p) ==
  /\ At(q, "user") /\ callPage[q] = -1 /\ pc[p] = "none"
  /\ pc' = [pc EXCEPT ![q] = "exec", ![p] = "open"]
  /\ loader' = [loader EXCEPT ![p] = q]
  /\ slotCounter' = 0
  /\ UNCHANGED <<nextPage, slot, randomFlag, frame, valid, frameMap, list, fault,
                 callPage, astray, memory, swap, machine, version, damaged, recency>>

(* The program is open: the first turn of Load's loop starts. *)
LoadStarts(p) ==
  /\ At(p, "open")
  /\ pc' = [pc EXCEPT ![p] = "load"]
  /\ TakeSlot(<<p, 0>>, slotCounter)
  /\ UNCHANGED <<loader, nextPage, randomFlag, frame, valid, frameMap, list, fault,
                 callPage, astray, memory, swap, machine, version, damaged, recency>>

(* RunUP stops when there is no such program, and both when it is none.       *)
LoadStops(p) ==
  /\ At(p, "open")
  /\ machine' = "stopped"
  /\ UNCHANGED <<pc, tables, frame, valid, frameMap, list, fault, callPage, astray,
                 memory, swap, version, damaged, recency>>

(* Exec does not look at what Load returns.  The child runs with the table of *)
(* AddrSpace's constructor, which has every page i in frame i and at place i. *)
LoadFails(p) ==
  /\ At(p, "open") /\ loader[p] # p
  /\ pc' = [pc EXCEPT ![p] = "user", ![loader[p]] = "user"]
  /\ loader' = [loader EXCEPT ![p] = p]
  /\ astray' = astray \cup {p}
  /\ slot'  = [k \in Key |-> IF k[1] = p THEN k[2] ELSE slot[k]]
  /\ frame' = [k \in Key |-> IF k[1] = p THEN k[2] ELSE frame[k]]
  /\ valid' = [k \in Key |-> IF k[1] = p THEN TRUE ELSE valid[k]]
  /\ UNCHANGED <<nextPage, slotCounter, randomFlag, frameMap, list, fault, callPage,
                 memory, swap, machine, version, damaged, recency>>

(* One turn of Load's loop ends with the page in the swap file, and the next  *)
(* one starts.                                                                *)
LoadPage(p) ==
  LET k == <<p, nextPage[p]>> IN
  /\ At(p, "load")
  /\ WriteSwap(k, [key |-> k, version |-> 0])
  /\ nextPage' = [nextPage EXCEPT ![p] = @ + 1]
  /\ IF nextPage[p] + 1 < NumPages
     THEN TakeSlot(<<p, nextPage[p] + 1>>, slotCounter) /\ UNCHANGED <<pc, loader>>
     ELSE /\ pc' = [pc EXCEPT ![p] = "user", ![loader[p]] = "user"]
          /\ loader' = [loader EXCEPT ![p] = p]
          /\ UNCHANGED <<slot, slotCounter>>
  /\ UNCHANGED <<randomFlag, frame, valid, frameMap, list, fault, callPage, astray,
                 memory, machine, version, recency>>

-----------------------------------------------------------------------------
(* A program that repeats an unknown call accesses the page with the call only. *)
Accesses(k) == At(k[1], "user") /\ callPage[k[1]] \in {-1, k[2]}

(* p's program accesses a page that is in memory.                             *)
Touch(k) ==
  /\ Accesses(k) /\ k[1] \notin astray /\ valid[k]
  /\ recency' = IF InList(recency, k) THEN Append(Without(recency, k), k) ELSE recency
  /\ UNCHANGED <<pc, tables, frame, valid, frameMap, list, fault, callPage, astray,
                 swap, machine>>

LoadWord(k) ==
  Touch(k) /\ UNCHANGED <<memory, version, damaged>>

(* A page that is being written out may still be stored to.                   *)
Leaving(k) == \E q \in Process : pc[q] = "out" /\ fault[q].victim = k

StoreWord(k) ==
  /\ Touch(k) /\ callPage[k[1]] = -1
  /\ version[k] < MaxVersion
  /\ version' = [version EXCEPT ![k] = @ + 1]
  /\ memory' = [memory EXCEPT ![frame[k]] = [key |-> k, version |-> version[k] + 1]]
  /\ damaged' = IF Leaving(k) THEN damaged \cup {k} ELSE damaged

(* The page is in its frame, and no longer being read into it.                *)
Resident(k) == valid[k] /\ ~(pc[k[1]] = "in" /\ fault[k[1]].page = k[2])

(* A program that was not loaded runs what it finds, and its table names every *)
(* frame.                                                                      *)
AstrayStore(p, f) ==
  /\ At(p, "user") /\ p \in astray /\ callPage[p] = -1
  /\ memory' = [memory EXCEPT ![f] = Junk]
  /\ damaged' = damaged \cup {k \in Key : k[1] \notin astray /\ Resident(k) /\ frame[k] = f}
  /\ UNCHANGED <<pc, tables, frame, valid, frameMap, list, fault, callPage, astray,
                 swap, machine, version, recency>>

(* Its numPages was never set: it may end before the table or behind it.      *)
AstrayBeyond(p) ==
  /\ At(p, "user") /\ p \in astray
  /\ machine' \in {"stopped", "undefined"}
  /\ UNCHANGED <<pc, tables, frame, valid, frameMap, list, fault, callPage, astray,
                 memory, swap, version, damaged, recency>>

(* FindAndSet finds a frame, the lowest that is free.  A frame that the page   *)
(* has already stays in the map.                                               *)
FaultFree(k) ==
  LET p == k[1] IN
  /\ \E f \in Frame \ frameMap :
       /\ \A g \in Frame \ frameMap : f <= g
       /\ frameMap' = frameMap \cup {f}
       /\ frame' = [frame EXCEPT ![k] = f]
       /\ fault' = [fault EXCEPT ![p] = [NoFault EXCEPT !.page = k[2], !.frame = f]]
  /\ valid' = [valid EXCEPT ![k] = TRUE]
  /\ pc' = [pc EXCEPT ![p] = "in"]
  /\ UNCHANGED <<tables, list, astray, memory, swap, machine, version, damaged, recency>>

(* Otherwise a victim leaves the list, and WriteAt has its contents.  With     *)
(* nothing on the list removeFront follows the NULL behind its tail; a victim  *)
(* without a frame is read before the beginning of mainMemory.                 *)
TakeVictim(k, x) ==
  /\ list' = Without(list, x)
  /\ recency' = Without(recency, x)
  /\ fault' = [fault EXCEPT ![k[1]] =
                 [page |-> k[2], victim |-> x, frame |-> frame[x], copy |-> memory[frame[x]]]]
  /\ pc' = [pc EXCEPT ![k[1]] = "out"]
  /\ UNCHANGED machine

FaultEvict(k) ==
  /\ frameMap = Frame
  /\ \/ list # <<>> /\ \E x \in Victims(list) : valid[x] /\ TakeVictim(k, x)
     \/ /\ list # <<>> => \E x \in Victims(list) : ~valid[x]
        /\ machine' = IF list = <<>> THEN "no victim" ELSE "undefined"
        /\ UNCHANGED <<list, recency, fault, pc>>
  /\ UNCHANGED <<tables, frame, valid, frameMap, astray, memory, swap, version, damaged>>

AccessFaults(k) ==
  /\ Accesses(k) /\ ~valid[k]
  /\ FaultFree(k) \/ FaultEvict(k)
  /\ UNCHANGED callPage

(* A call that no case of the handler is for: it goes on as a fault at address *)
(* 0, which RaiseException left in BadVAddrReg, even if the page is in memory, *)
(* and is made again afterwards.                                               *)
UnknownCall(p) ==
  /\ \E page \in Page :
       /\ Accesses(<<p, page>>) /\ valid[<<p, page>>]
       /\ callPage' = [callPage EXCEPT ![p] = page]
  /\ FaultFree(<<p, 0>>) \/ FaultEvict(<<p, 0>>)

(* Mutant: the victim is dropped without being written. *)
PageOutDrops(p) ==
  LET x == fault[p].victim IN
  /\ At(p, "out")
  /\ frame' = [frame EXCEPT ![x] = -1, ![<<p, fault[p].page>>] = fault[p].frame]
  /\ valid' = [valid EXCEPT ![x] = FALSE, ![<<p, fault[p].page>>] = TRUE]
  /\ pc' = [pc EXCEPT ![p] = "in"]
  /\ UNCHANGED <<tables, frameMap, list, fault, callPage, astray, memory, swap,
                 machine, version, damaged, recency>>

(* The victim is in the swap file; its frame goes to the page that faulted.   *)
PageOut(p) ==
  LET x == fault[p].victim IN
  /\ At(p, "out")
  /\ WriteSwap(x, fault[p].copy)
  /\ frame' = [frame EXCEPT ![x] = -1, ![<<p, fault[p].page>>] = fault[p].frame]
  /\ valid' = [valid EXCEPT ![x] = FALSE, ![<<p, fault[p].page>>] = TRUE]
  /\ pc' = [pc EXCEPT ![p] = "in"]
  /\ UNCHANGED <<tables, frameMap, list, fault, callPage, astray, memory, machine,
                 version, recency>>

(* The page is in its frame and goes on the list; the instruction restarts.   *)
PageIn(p) ==
  LET k == <<p, fault[p].page>> IN
  /\ At(p, "in")
  /\ memory' = IF Stored(slot[k]) THEN [memory EXCEPT ![fault[p].frame] = swap[slot[k]]]
                                  ELSE memory
  /\ \E x \in Leavers(list, k) :
       /\ list' = Insert(list, k, x)
       /\ recency' = Append(Without(Without(recency, k), x), k)
  /\ fault' = [fault EXCEPT ![p] = NoFault]
  /\ pc' = [pc EXCEPT ![p] = "user"]
  /\ UNCHANGED <<tables, frame, valid, frameMap, callPage, astray, swap, machine,
                 version, damaged>>

(* Exit(0).  Nobody clears the process's bits in record_free_Map, and its     *)
(* entries stay on the list.                                                  *)
Exit(p) ==
  /\ At(p, "user") /\ callPage[p] = -1
  /\ pc' = [pc EXCEPT ![p] = "end"]
  /\ UNCHANGED <<tables, frame, valid, frameMap, list, fault, callPage, astray, memory,
                 swap, machine, version, damaged, recency>>

Next ==
  \/ \E p \in Process :
       \/ RunUP(p) \/ LoadStarts(p) \/ LoadStops(p) \/ LoadFails(p) \/ LoadPage(p)
       \/ UnknownCall(p) \/ PageOut(p) \/ PageIn(p) \/ Exit(p) \/ AstrayBeyond(p)
       \/ \E q \in Process : Exec(q, p)
       \/ \E f \in Frame : AstrayStore(p, f)
  \/ \E k \in Key : LoadWord(k) \/ StoreWord(k) \/ AccessFaults(k)

Spec == Init /\ [][Next]_vars

-----------------------------------------------------------------------------
(* Nobody has made an unknown call.  Once somebody did, a page in memory is    *)
(* given a second frame each time, its first is lost, and the list may name    *)
(* pages that are not in memory.                                               *)
KnownCalls == \A p \in Process : callPage[p] = -1

(* The pages that hold a frame: those of a process astray only name the        *)
(* frames of others.                                                           *)
Holds(k) == valid[k] /\ k[1] \notin astray

(* The entries a fault has taken off the list or not yet put on it.           *)
InFlight(p) ==
  CASE pc[p] = "out" -> {fault[p].victim}
    [] pc[p] = "in"  -> {<<p, fault[p].page>>}
    [] OTHER -> {}

(* Each frame in use belongs to one page, each page that holds one is on the  *)
(* list once or in the hands of one fault, and no other is: no two faults take *)
(* the same victim or share a frame, and no frame is lost, as long as there    *)
(* was no unknown call.                                                        *)
FramesAccounted ==
  KnownCalls =>
    /\ \A i, j \in DOMAIN list : list[i] = list[j] => i = j
    /\ \A j, k \in Key : Holds(j) /\ Holds(k) /\ frame[j] = frame[k] => j = k
    /\ frameMap = {frame[k] : k \in {j \in Key : Holds(j)}}
    /\ \A k \in Key : InList(list, k) => Holds(k) /\ \A p \in Process : k \notin InFlight(p)
    /\ \A k \in Key : Holds(k) => InList(list, k) \/ \E p \in Process : k \in InFlight(p)
    /\ \A p, q \in Process : p # q => InFlight(p) \cap InFlight(q) = {}

(* With no more processes than frames a victim can be found although frames in *)
(* the hands of a fault are not on the list and programs that ended never give *)
(* theirs back: only the frames that unknown calls lost can empty it.          *)
VictimExists == machine = "no victim" => ~KnownCalls

(* A page's contents, wherever they are, are what its process stored last,    *)
(* for a page that has a place in the swap file.  The exceptions are the ways *)
(* in which the code loses them: a store while the page is being written out, *)
(* another page that Exec gave the same place, a program that was not loaded  *)
(* and stores to frames of others, and an unknown call.                       *)
Current(k) == IF Resident(k) THEN memory[frame[k]] ELSE swap[slot[k]]

ContentsKept ==
  KnownCalls =>
    \A k \in Key \ damaged :
      k[2] < nextPage[k[1]] /\ Stored(slot[k])
        => Current(k) = [key |-> k, version |-> version[k]]

(* "Front element is the least recent used" (LRU.cc).                         *)
FrontIsLeastRecent ==
  ~randomFlag /\ list # <<>> => Head(list) = Head(recency)
=============================================================================
