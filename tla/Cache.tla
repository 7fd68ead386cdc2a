-------------------------------- MODULE Cache --------------------------------
(***************************************************************************)
(* The artifact cache (src/src/cache.rs): a memory tier with a byte budget *)
(* and an LRU order over a disk tier of one file per key.                  *)
(*                                                                         *)
(* The runtime has one thread, so calls of the cache exclude each other.   *)
(* What runs beside them is the sweep, on a blocking thread (main.rs:401), *)
(* at the grain of its file operations, and the kill of the process. A put *)
(* is therefore two steps towards the disk and one into memory, and a read *)
(* is one. A file is what its name holds: the final name of a key, or a    *)
(* scratch name. Base64 and hashing of names are left out: names differ.   *)
(***************************************************************************)
EXTENDS Integers, Sequences, FiniteSets, FiniteSetsExt, SequencesExt

CONSTANTS
  Stored,        \* keys used with put, get, remove
  MemOnly,       \* keys used with put_mem, get_mem, remove_mem
  Value,
  Marker,        \* those put in memory only
  Size,          \* bytes of a value
  Rank,          \* evict_rank of a stored key
  Scratch,       \* numbers next_temp_id() may give
  Final,         \* the name without such a number
  MemBudget, DiskBudget,
  Ttl,           \* lifetimes that callers name
  Grace,         \* TEMP_GRACE
  MaxTime, MaxFaults,
  None

ASSUME CacheAssumption ==
  /\ IsFiniteSet(Stored) /\ IsFiniteSet(MemOnly) /\ IsFiniteSet(Scratch) /\ Stored \cap MemOnly = {}
  /\ Marker \subseteq Value
  /\ Final \notin Scratch
  /\ Size \in [Value -> Nat \ {0}] /\ Rank \in [Stored -> Nat]
  /\ MemBudget \in Nat /\ DiskBudget \in Nat /\ Grace \in Nat
  /\ Ttl \subseteq Nat \ {0}
  /\ MaxTime \in Nat /\ MaxFaults \in Nat

Key == Stored \cup MemOnly
Entry == [value : Value, expires : Nat]
Name == Stored \X (Scratch \cup {Final})
Content == {"whole", "torn", "garbage"}
File == [entry : Entry, content : Content, written : Nat]

ASSUME NoneAssumption ==
  None \notin Entry \cup File \cup (Key \X Entry) \cup (Name \X Entry) \cup (Name \X File)

VARIABLES
  now,
  mem,       \* the memory tier
  recent,    \* its keys, least recently used first
  bytes,     \* its byte counter
  file,      \* the disk tier's directory
  writer,    \* the put on its way to the disk: its scratch name and its entry
  renamed,   \* has it been renamed into place
  sweep,     \* the sweep's stage, listing, victim, survivors and sum
  due,       \* has the hourly timer fired since the last sweep began
  up,        \* FALSE while Cache::new sweeps
  faults,
  last, tainted   \* history: what was put last, and where the disk refused

memory == <<mem, recent, bytes>>
history == <<last, tainted>>
vars == <<now, mem, recent, bytes, file, writer, renamed, sweep, due, up, faults, last, tainted>>

Seen == Name \X File
TypeOK ==
  /\ now \in Nat /\ bytes \in Nat /\ faults \in Nat /\ up \in BOOLEAN /\ due \in BOOLEAN /\ renamed \in BOOLEAN
  /\ mem \in [Key -> Entry \cup {None}]
  /\ recent \in Seq(Key)
  /\ file \in [Name -> File \cup {None}]
  /\ writer \in (Name \X Entry) \cup {None}
  /\ sweep \in [stage : {"idle", "list", "evict"}, todo : SUBSET Name,
                doomed : Seen \cup {None}, live : SUBSET Seen, total : Nat]
  /\ last \in [Key -> Entry \cup {None}]
  /\ tainted \subseteq Stored

NoSweep == [stage |-> "idle", todo |-> {}, doomed |-> None, live |-> {}, total |-> 0]

Init ==
  /\ now = 0
  /\ mem = [k \in Key |-> None] /\ recent = <<>> /\ bytes = 0
  /\ file = [n \in Name |-> None]
  /\ writer = None /\ renamed = FALSE
  /\ sweep = NoSweep
  /\ due = FALSE /\ up = FALSE
  /\ faults = 0
  /\ last = [k \in Key |-> None] /\ tainted = {}

\* The calls run on the one runtime thread.
Idle == up /\ writer = None

\* One more refusal of the disk.
Fault == faults < MaxFaults /\ faults' = faults + 1

-----------------------------------------------------------------------------
(* The memory tier *)

Fresh(k) == mem[k] # None /\ mem[k].expires > now
SizeOf(e) == IF e = None THEN 0 ELSE Size[e.value]
MemBytes(keys, m) == MapThenSumSet(LAMBDA k : SizeOf(m[k]), keys)

\* The order s without some keys.
Without(s, keys) ==
  LET kept[i \in 0..Len(s)] ==
        IF i = 0 THEN <<>> ELSE IF s[i] \in keys THEN kept[i - 1] ELSE Append(kept[i - 1], s[i])
  IN  kept[Len(s)]

\* The order after key k is touched.
Touched(k) == Append(Without(recent, {k}), k)

\* Entries leave the map and their bytes the counter.
Drop(keys) ==
  /\ mem' = [k \in Key |-> IF k \in keys THEN None ELSE mem[k]]
  /\ recent' = Without(recent, keys)
  /\ bytes' = bytes - MemBytes(keys, mem)

\* Mutant: replacing an entry leaves the bytes of the old one in the counter.
MutMemPut(k, e) ==
  LET order == Touched(k)
      after == bytes + SizeOf(e)
      m == [mem EXCEPT ![k] = e]
      Freed(i) == MemBytes({order[j] : j \in 1..(i - 1)}, m)
      first == CHOOSE i \in 1..(Len(order) + 1) :
                 /\ i = Len(order) + 1 \/ after - Freed(i) <= MemBudget
                 /\ \A j \in 1..(i - 1) : after - Freed(j) > MemBudget
  IN  /\ mem' = [j \in Key |-> IF j \in {order[i] : i \in 1..(first - 1)} THEN None ELSE m[j]]
      /\ recent' = SubSeq(order, first, Len(order))
      /\ bytes' = after - Freed(first)

\* mem_put: the entry is the most recently used; the least recently used go until
\* the rest fits, the new one last.
MemPut(k, e) ==
  LET order == Touched(k)
      after == bytes - SizeOf(mem[k]) + SizeOf(e)
      m == [mem EXCEPT ![k] = e]
      Freed(i) == MemBytes({order[j] : j \in 1..(i - 1)}, m)
      first == CHOOSE i \in 1..(Len(order) + 1) :
                 /\ i = Len(order) + 1 \/ after - Freed(i) <= MemBudget
                 /\ \A j \in 1..(i - 1) : after - Freed(j) > MemBudget
  IN  /\ mem' = [j \in Key |-> IF j \in {order[i] : i \in 1..(first - 1)} THEN None ELSE m[j]]
      /\ recent' = SubSeq(order, first, Len(order))
      /\ bytes' = after - Freed(first)

\* get or get_mem finds it in memory.
MemHit(k) ==
  /\ Idle
  /\ Fresh(k)
  /\ recent' = Touched(k)
  /\ UNCHANGED <<now, mem, bytes, file, writer, renamed, sweep, due, up, faults, history>>

PutMem(k, v, ttl) ==
  /\ Idle
  /\ MemPut(k, [value |-> v, expires |-> now + ttl])
  /\ last' = [last EXCEPT ![k] = [value |-> v, expires |-> now + ttl]]
  /\ UNCHANGED <<now, file, writer, renamed, sweep, due, up, faults, tainted>>

RemoveMem(k) ==
  /\ Idle
  /\ Drop({k})
  /\ last' = [last EXCEPT ![k] = None]
  /\ UNCHANGED <<now, file, writer, renamed, sweep, due, up, faults, tainted>>

-----------------------------------------------------------------------------
(* The disk tier *)

Path(k) == <<k, Final>>
Unlinked(n) == [file EXCEPT ![n] = None]

\* parse_entry is Some.
Readable(k) ==
  /\ file[Path(k)] # None
  /\ file[Path(k)].content = "whole"
  /\ file[Path(k)].entry.expires > now

\* get or ttl: a memory miss that the disk answers fills memory again.
ReadBack(k) ==
  /\ Idle
  /\ ~Fresh(k) /\ Readable(k)
  /\ MemPut(k, file[Path(k)].entry)
  /\ UNCHANGED <<now, file, writer, renamed, sweep, due, up, faults, history>>

\* get or ttl finds nothing: an expired entry leaves memory (get only), and an expired,
\* torn or foreign file is unlinked. A file that cannot be opened stays.
Miss(k) ==
  /\ Idle
  /\ ~Fresh(k)
  /\ Drop({k}) \/ (k \in Stored /\ UNCHANGED memory)
  /\ \/ file' = file
     \/ k \in Stored /\ ~Readable(k) /\ file' = Unlinked(Path(k))
  /\ UNCHANGED <<now, writer, renamed, sweep, due, up, faults, history>>

\* put, to the scratch file: fs::write.
BeginPut(k, v, ttl) ==
  /\ Idle
  /\ \E s \in Scratch :
       LET e == [value |-> v, expires |-> now + ttl]
       IN  /\ writer' = <<<<k, s>>, e>>
           /\ file' = [file EXCEPT ![<<k, s>>] =
                         [entry |-> e, content |-> "whole", written |-> now]]
  /\ renamed' = FALSE
  /\ UNCHANGED <<now, memory, sweep, due, up, faults, history>>

\* put, into place: fs::rename.
Rename ==
  /\ writer # None /\ ~renamed
  /\ file[writer[1]] # None
  /\ file' = [file EXCEPT ![Path(writer[1][1])] = file[writer[1]], ![writer[1]] = None]
  /\ renamed' = TRUE
  /\ tainted' = tainted \ {writer[1][1]}
  /\ UNCHANGED <<now, memory, writer, sweep, due, up, faults, last>>

\* put ends in memory, whether or not the disk took the entry.
EndPut ==
  /\ MemPut(writer[1][1], writer[2])
  /\ last' = [last EXCEPT ![writer[1][1]] = writer[2]]
  /\ writer' = None
  /\ renamed' = FALSE

PutStored ==
  /\ writer # None /\ renamed
  /\ EndPut
  /\ UNCHANGED <<now, file, sweep, due, up, faults, tainted>>

\* The disk refuses the write or the rename, or the scratch file is not there any
\* more: it is unlinked, and what the key's file held stays.
PutUnstored ==
  /\ writer # None /\ ~renamed
  /\ Fault \/ (file[writer[1]] = None /\ UNCHANGED faults)
  /\ EndPut
  /\ file' = Unlinked(writer[1])
  /\ tainted' = tainted \cup {writer[1][1]}
  /\ UNCHANGED <<now, sweep, due, up>>

\* Mutant: a removal forgets the memory tier only.
MutRemoveKey(k) ==
  /\ Idle
  /\ Drop({k})
  /\ last' = [last EXCEPT ![k] = None]
  /\ UNCHANGED <<now, file, tainted, writer, renamed, sweep, due, up, faults>>

RemoveKey(k) ==
  /\ Idle
  /\ Drop({k})
  /\ last' = [last EXCEPT ![k] = None]
  /\ \/ file' = Unlinked(Path(k)) /\ tainted' = tainted \ {k} /\ UNCHANGED faults
     \/ Fault /\ tainted' = tainted \cup {k} /\ UNCHANGED file
  /\ UNCHANGED <<now, writer, renamed, sweep, due, up>>

-----------------------------------------------------------------------------
(* The sweep *)

\* At boot and whenever the hourly timer fires: memory first, under the lock; then the
\* directory is listed.
StartSweep ==
  /\ sweep.stage = "idle"
  /\ due \/ ~up
  /\ due' = FALSE
  /\ Drop({k \in Key : mem[k] # None /\ mem[k].expires <= now})
  /\ sweep' = [NoSweep EXCEPT !.stage = "list", !.todo = {n \in Name : file[n] # None}]
  /\ UNCHANGED <<now, file, writer, renamed, up, faults, history>>

IsScratch(n) == n[2] # Final

\* Mutant: a scratch file is unlinked on sight.
MutAbandoned(n) == IsScratch(n)

\* Longer than any write takes.
Abandoned(n) == IsScratch(n) /\ now - file[n].written > Grace
Expired(n) == ~IsScratch(n) /\ (file[n].content = "garbage" \/ file[n].entry.expires <= now)

\* What has expired, is no entry or was given up is to go; an entry is budgeted; a young
\* scratch file may be in flight and is neither. One whose age cannot be told is budgeted,
\* and a file that cannot be opened is left alone.
Inspect(n) ==
  /\ sweep.stage = "list" /\ sweep.doomed = None
  /\ sweep.todo # {} /\ n = CHOOSE m \in sweep.todo : TRUE
  /\ LET looked == [sweep EXCEPT !.todo = @ \ {n}]
         doom == [looked EXCEPT !.doomed = <<n, file[n]>>]
         budget == [looked EXCEPT !.live = @ \cup {<<n, file[n]>>}]
     IN  \/ file[n] = None /\ sweep' = looked /\ UNCHANGED faults
         \/ file[n] # None /\ (Abandoned(n) \/ Expired(n)) /\ sweep' = doom /\ UNCHANGED faults
         \/ file[n] # None /\ IsScratch(n) /\ ~Abandoned(n) /\ sweep' = looked /\ UNCHANGED faults
         \/ file[n] # None /\ ~IsScratch(n) /\ ~Expired(n) /\ sweep' = budget /\ UNCHANGED faults
         \/ file[n] # None /\ Fault /\ sweep' = IF IsScratch(n) THEN budget ELSE looked
  /\ UNCHANGED <<now, memory, file, writer, renamed, due, up, history>>

\* Whatever bears the name by now is unlinked.
Unlink ==
  /\ sweep.doomed # None
  /\ file' = Unlinked(sweep.doomed[1])
  /\ sweep' = [sweep EXCEPT !.doomed = None]
  /\ UNCHANGED <<now, memory, writer, renamed, due, up, faults, history>>

FileBytes(seen) == MapThenSumSet(LAMBDA x : SizeOf(x[2].entry), seen)

StartEviction ==
  /\ sweep.stage = "list" /\ sweep.todo = {} /\ sweep.doomed = None
  /\ sweep' = [sweep EXCEPT !.stage = "evict", !.total = FileBytes(sweep.live)]
  /\ UNCHANGED <<now, memory, file, writer, renamed, due, up, faults, history>>

Price(x) == IF IsScratch(x[1]) THEN 0 ELSE Rank[x[1][1]]
Age(x) == IF IsScratch(x[1]) THEN 0 ELSE x[2].written

\* Cheapest to rebuild first, then oldest.
Cheaper(x, y) == Price(x) < Price(y) \/ (Price(x) = Price(y) /\ Age(x) < Age(y))

OverBudget == sweep.total > DiskBudget

Evict(x) ==
  /\ sweep.stage = "evict" /\ OverBudget
  /\ x \in sweep.live
  /\ \A y \in sweep.live : ~Cheaper(y, x)
  /\ file' = Unlinked(x[1])
  /\ sweep' = [sweep EXCEPT !.live = @ \ {x},
                            !.total = IF file[x[1]] # None THEN @ - SizeOf(x[2].entry) ELSE @]
  /\ UNCHANGED <<now, memory, writer, renamed, due, up, faults, history>>

EndSweep ==
  /\ sweep.stage = "evict"
  /\ ~OverBudget \/ sweep.live = {}
  /\ sweep' = NoSweep
  /\ up' = TRUE
  /\ UNCHANGED <<now, memory, file, writer, renamed, due, faults, history>>

-----------------------------------------------------------------------------
(* The world *)

\* The process is killed, or the host loses power: a file renamed into place just now
\* may have lost its tail, or its head. The next process sweeps before it serves.
Kill ==
  /\ up
  /\ \/ UNCHANGED <<file, faults>>
     \/ \E k \in Stored, c \in {"torn", "garbage"} :
          /\ Fault
          /\ file[Path(k)] # None /\ file[Path(k)].written = now
          /\ file' = [file EXCEPT ![Path(k)].content = c]
  /\ mem' = [k \in Key |-> None] /\ recent' = <<>> /\ bytes' = 0
  /\ last' = IF writer # None /\ renamed THEN [last EXCEPT ![writer[1][1]] = writer[2]] ELSE last
  /\ writer' = None /\ renamed' = FALSE
  /\ sweep' = NoSweep
  /\ up' = FALSE
  /\ due' = FALSE
  /\ UNCHANGED <<now, tainted>>

\* No write takes longer than the grace.
Tick ==
  /\ now < MaxTime
  /\ writer # None /\ file[writer[1]] # None => now < file[writer[1]].written + Grace
  /\ now' = now + 1
  /\ due' = up
  /\ UNCHANGED <<memory, file, writer, renamed, sweep, up, faults, history>>

-----------------------------------------------------------------------------
Next ==
  \/ \E k \in Key : MemHit(k) \/ Miss(k)
  \/ \E k \in MemOnly : RemoveMem(k) \/ \E v \in Marker, ttl \in Ttl : PutMem(k, v, ttl)
  \/ \E k \in Stored : ReadBack(k) \/ RemoveKey(k) \/ \E v \in Value, ttl \in Ttl : BeginPut(k, v, ttl)
  \/ Rename \/ PutStored \/ PutUnstored
  \/ StartSweep
  \/ \E n \in Name : Inspect(n)
  \/ Unlink
  \/ StartEviction
  \/ \E x \in sweep.live : Evict(x)
  \/ EndSweep
  \/ Kill
  \/ Tick

Spec == Init /\ [][Next]_vars

-----------------------------------------------------------------------------
(* Properties *)

\* The copies of a key that a read could find: in memory, and under its name.
OnDisk(k) ==
  IF k \in Stored /\ Readable(k)
  THEN {IF file[Path(k)].content = "whole" THEN file[Path(k)].entry
        ELSE [file[Path(k)].entry EXCEPT !.value = None]}
  ELSE {}
Copies == [k \in Key |-> (IF Fresh(k) THEN {mem[k]} ELSE {}) \cup OnDisk(k)]
Pending == IF writer = None THEN None ELSE <<writer[1][1], writer[2]>>

\* Two tiers, a sweep beside them and kills at any point are a map that may forget:
\* nothing older, nothing removed and nothing half written is ever served, except
\* where the disk refused a write or an unlink.
M == INSTANCE ForgetfulMap WITH
       Key <- Key, Entry <- Entry, NoEntry <- None, NoPut <- None,
       last <- last, copies <- Copies, pending <- Pending, tainted <- tainted
ImplementsForgetfulMap == M!Spec

\* The byte counter is what the memory tier holds, and never above the budget,
\* whatever is replaced, expires, is evicted or read back.
MemoryAccounted ==
  /\ TypeOK
  /\ bytes = MemBytes(Key, mem) /\ bytes <= MemBudget
  /\ ToSet(recent) = {k \in Key : mem[k] # None} /\ IsInjective(recent)

\* Files that are still what the sweep saw.
Unchanged(seen) == {x \in seen : file[x[1]] = x[2]}

\* The sweep acts on what it saw a while ago. A file it unlinks, if nobody replaced it
\* meanwhile, has expired, is no entry, was given up by its writer, or went to keep the
\* budget when nothing cheaper of what the sweep counted was left.
UnlinksForCause ==
  \A n \in Name :
    sweep' # sweep /\ file[n] # None /\ file'[n] = None
    => \/ file[n].content = "garbage"
       \/ ~IsScratch(n) /\ file[n].entry.expires <= now
       \/ IsScratch(n) /\ now - file[n].written > Grace
       \/ <<n, file[n]>> \notin sweep.live \cup {sweep.doomed}
       \/ /\ <<n, file[n]>> \in sweep.live
          /\ \A x \in Unchanged(sweep.live) : Price(x) >= Price(<<n, file[n]>>)

\* When a sweep ends, what it counted and nobody touched since fits the budget.
FreesEnough ==
  sweep.stage = "evict" /\ sweep'.stage = "idle" /\ up' => FileBytes(Unchanged(sweep.live)) <= DiskBudget

\* The sweep unlinks what it must, and nothing else it saw.
SweepIsExact == [][UnlinksForCause /\ FreesEnough]_vars
=============================================================================
