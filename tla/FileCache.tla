------------------------------ MODULE FileCache ------------------------------
(***************************************************************************)
(* The file cache of src/webserver/server_thread.c, shared by the worker   *)
(* threads: cache_lookup and cache_insert under the mutex locking_cache,   *)
(* and do_server_request, which reads the file between the two without it. *)
(*                                                                         *)
(* What matters of a file is its name, its size, which version of it was   *)
(* on disk when it was read, and whether it has a zero byte before its     *)
(* last one: strdup is used to copy it (lines 247, 329), and copies no     *)
(* further.                                                                *)
(*                                                                         *)
(* A name with a suffix _M... is the definition below it with one mistake; *)
(* no specification uses it.                                               *)
(***************************************************************************)
EXTENDS Integers, Sequences, FiniteSets, SequencesExt, FiniteSetsExt

CONSTANTS
  Workers,   \* the threads that run do_server_request
  Files,     \* names that clients ask for
  Missing,   \* those of them that request_readfile fails on
  Binary,    \* those with a zero byte before the last byte
  MaxSize,   \* the argument max_cache_size of the server
  FileSize,  \* the size of each file on disk
  Bucket,    \* hash_function: the chain of each name
  Rewrites,  \* how often files are replaced on disk, in all
  NoFile     \* not a name

ASSUME FilesAssumption ==
  /\ IsFiniteSet(Files) /\ NoFile \notin Files
  /\ Missing \subseteq Files /\ Binary \subseteq Files
ASSUME SizeAssumption ==
  /\ MaxSize \in Nat /\ FileSize \in [Files -> Nat]
  /\ \A f \in Binary : FileSize[f] >= 2
  /\ Rewrites \in Nat
ASSUME BucketAssumption == DOMAIN Bucket = Files

VARIABLES
  table,     \* sv->cache->hash_table: the chain of entries in each bucket
  wild,      \* buckets whose chain ends in a pointer that was never written
             \* (lines 78, 255) and was not NULL in the memory it got, or
             \* that are memory in front of the table: the hash is a signed
             \* int and overflows (line 61), so the index can be negative
  occupied,  \* sv->cache->occupied_cache
  pc,        \* where each worker is in do_server_request
  file,      \* data->file_name
  data,      \* what is in data->file_buf
  halted,    \* how the process stopped, "no" while it runs
  disk,      \* the version of each file on disk
  known      \* the version of its file in the cache when the request came,
             \* 0 for none (observed only)

cacheVars == <<table, wild, occupied>>
workerVars == <<pc, file, data>>
vars == <<table, wild, occupied, pc, file, data, halted, disk, known>>

Buckets == {Bucket[f] : f \in Files}
PC == {"idle", "lookup", "read", "insert", "send"}
Halt == {"no", "wild", "null"}

(* The bytes in a buffer of a file: of which version they are, and whether  *)
(* all FileSize of them are the file's.                                     *)
Nothing == [version |-> 0, whole |-> TRUE]
Content == [version : 0 .. Rewrites + 1, whole : BOOLEAN]
Entry == [name : Files, content : Content]

EntriesOf(f) == {e \in Range(table[Bucket[f]]) : e.name = f}
Cached(f) == EntriesOf(f) # {}

(* cache_lookup finds the first entry of that name in the chain.            *)
Hit(f) ==
  LET chain == table[Bucket[f]]
  IN  chain[SelectInSeq(chain, LAMBDA e : e.name = f)]

At(w, label) == halted = "no" /\ pc[w] = label

Goto(w, label) == pc' = [pc EXCEPT ![w] = label]

HaltAs(how) ==
  halted' = how /\ UNCHANGED <<cacheVars, workerVars, disk, known>>

-----------------------------------------------------------------------------
(* cache_table_initialization.  The array of chains is not cleared.         *)
Init ==
  /\ table = [b \in Buckets |-> <<>>]
  /\ wild \in SUBSET Buckets
  /\ occupied = 0
  /\ pc = [w \in Workers |-> "idle"]
  /\ file = [w \in Workers |-> NoFile]
  /\ data = [w \in Workers |-> Nothing]
  /\ halted = "no"
  /\ disk = [f \in Files |-> 1]
  /\ known = [w \in Workers |-> 0]

(* Somebody replaces a file by another version of the same size.            *)
Rewrite(f) ==
  /\ halted = "no"
  /\ SumFunction(disk) < Cardinality(Files) + Rewrites
  /\ disk' = [disk EXCEPT ![f] = @ + 1]
  /\ UNCHANGED <<cacheVars, workerVars, halted, known>>

(* request_init.  The size of the file is 0 until it is read, so the test   *)
(* of line 313 never finds a file too large, and every request goes to the  *)
(* cache.                                                                   *)
Start(w) ==
  /\ At(w, "idle")
  /\ \E f \in Files :
       /\ file' = [file EXCEPT ![w] = f]
       /\ known' = [known EXCEPT ![w] = IF Cached(f) THEN Hit(f).content.version ELSE 0]
  /\ Goto(w, "lookup")
  /\ UNCHANGED <<cacheVars, data, halted, disk>>

(* cache_lookup runs off the end of a chain that does not end in NULL.      *)
RunsWild(f) == ~Cached(f) /\ Bucket[f] \in wild

(* strdup stops at the first zero byte; request_sendfile sends what follows *)
(* the copy in memory.                                                      *)
Duplicate(f, content) == [content EXCEPT !.whole = @ /\ f \notin Binary]

(* A buffer without a zero byte is not the string that strdup takes it for: *)
(* it reads on, and ends wild if there is no memory behind the buffer.      *)
MayOverrun(f) == f \notin Binary

(* Lines 324-339.                                                           *)
LookupHit(w) ==
  /\ At(w, "lookup") /\ Cached(file[w])
  /\ data' = [data EXCEPT ![w] = Duplicate(file[w], Hit(file[w]).content)]
  /\ Goto(w, "send")
  /\ UNCHANGED <<cacheVars, file, halted, disk, known>>

LookupMiss(w) ==
  /\ At(w, "lookup") /\ ~Cached(file[w])
  /\ IF RunsWild(file[w])
     THEN HaltAs("wild")
     ELSE Goto(w, "read") /\ UNCHANGED <<cacheVars, file, data, halted, disk, known>>

(* request_destroy and file_data_free.                                      *)
Finished(w) ==
  /\ Goto(w, "idle")
  /\ file' = [file EXCEPT ![w] = NoFile]
  /\ data' = [data EXCEPT ![w] = Nothing]
  /\ known' = [known EXCEPT ![w] = 0]

(* request_readfile.                                                        *)
Read(w) ==
  /\ At(w, "read") /\ file[w] \notin Missing
  /\ data' = [data EXCEPT ![w] = [version |-> disk[file[w]], whole |-> TRUE]]
  /\ Goto(w, "insert")
  /\ UNCHANGED <<cacheVars, file, halted, disk, known>>

ReadFails(w) ==
  /\ At(w, "read") /\ file[w] \in Missing
  /\ Finished(w)
  /\ UNCHANGED <<cacheVars, halted, disk>>

(* cache_insert, lines 349-352.                                             *)
Present_MNoTest(f) == FALSE
Present(f) == Cached(f)

Fits_MOneMore(f) == FileSize[f] <= MaxSize /\ FileSize[f] + occupied - MaxSize <= 1
Fits(f) == FileSize[f] <= MaxSize /\ FileSize[f] + occupied - MaxSize <= 0

Chained_MReplace(e) == <<e>>
Chained_MNested(e) == <<e, table[Bucket[e.name]]>>
Chained(e) == <<e>> \o table[Bucket[e.name]]

InsertSkip(w) ==
  /\ At(w, "insert")
  /\ \/ FileSize[file[w]] > MaxSize
     \/ ~RunsWild(file[w]) /\ (Present(file[w]) \/ ~Fits(file[w]))
  /\ Goto(w, "send")
  /\ UNCHANGED <<cacheVars, file, data, halted, disk, known>>

Insert(w) ==
  LET f == file[w]
      entry == [name |-> f, content |-> Duplicate(f, data[w])]
  IN /\ At(w, "insert")
     /\ FileSize[f] <= MaxSize /\ ~RunsWild(f)
     /\ ~Present(f) /\ Fits(f)
     /\ FileSize[f] > 0
     /\ table' = [table EXCEPT ![Bucket[f]] = Chained(entry)]
     /\ \/ UNCHANGED wild
        \/ table[Bucket[f]] = <<>> /\ wild' = wild \cup {Bucket[f]}
     /\ occupied' = occupied + FileSize[f]
     /\ Goto(w, "send")
     /\ UNCHANGED <<file, data, halted, disk, known>>

(* The lookup of line 233 runs wild, or strdup does; or the file is empty,  *)
(* has no buffer, and strdup gets NULL.                                     *)
InsertFails(w) ==
  /\ At(w, "insert")
  /\ FileSize[file[w]] <= MaxSize
  /\ \/ RunsWild(file[w]) /\ HaltAs("wild")
     \/ /\ ~RunsWild(file[w]) /\ ~Present(file[w]) /\ Fits(file[w])
        /\ IF FileSize[file[w]] = 0
           THEN HaltAs("null")
           ELSE MayOverrun(file[w]) /\ HaltAs("wild")

(* request_sendfile, request_destroy and file_data_free.                    *)
Send(w) ==
  /\ At(w, "send")
  /\ Finished(w)
  /\ UNCHANGED <<cacheVars, halted, disk>>

Stopped == halted # "no" /\ UNCHANGED vars

Next ==
  \/ \E w \in Workers :
       \/ Start(w) \/ LookupHit(w) \/ LookupMiss(w) \/ Read(w) \/ ReadFails(w)
       \/ InsertSkip(w) \/ Insert(w) \/ InsertFails(w)
       \/ Send(w)
  \/ \E f \in Files : Rewrite(f)
  \/ Stopped

Spec == Init /\ [][Next]_vars

-----------------------------------------------------------------------------
(* Properties.                                                             *)

(* Types of the cache, of the workers and of what is observed.              *)
TypeOK ==
  /\ table \in [Buckets -> Seq(Entry)]
  /\ wild \subseteq Buckets
  /\ occupied \in Nat
  /\ pc \in [Workers -> PC]
  /\ file \in [Workers -> Files \cup {NoFile}]
  /\ data \in [Workers -> Content]
  /\ halted \in Halt
  /\ disk \in [Files -> 1 .. Rewrites + 1]
  /\ known \in [Workers -> 0 .. Rewrites + 1]

CachedFiles == {f \in Files : Cached(f)}
TotalSize(names) == MapThenSumSet(LAMBDA f : FileSize[f], names)

(* occupied_cache is the sum of the sizes of the entries, and within the    *)
(* limit, although the decision to insert and the read of the file are not  *)
(* in one critical section.                                                 *)
WithinLimit ==
  /\ occupied <= MaxSize
  /\ occupied = TotalSize(CachedFiles)

(* Two workers that both missed a file do not both insert it, and a file is *)
(* in the chain where cache_lookup looks.                                   *)
OneEntryPerFile ==
  \A b \in Buckets : \A i, j \in DOMAIN table[b] :
    /\ table[b][i].name = table[b][j].name => i = j
    /\ Bucket[table[b][i].name] = b

(* Once a file is in the cache, every request that comes is answered with   *)
(* that version, however many workers still hold another one that they read *)
(* before or after: no entry is replaced, shadowed or taken out.  (So a     *)
(* file that changes on disk is never served anew, README.md:19 speaks of   *)
(* eviction in vain; and of two clients who ask one after the other while   *)
(* the file is not cached, the second can get the older version.)           *)
SameOnceCached ==
  \A w \in Workers :
    pc[w] = "send" /\ known[w] # 0 => data[w].version = known[w]

(* The client compares what it gets with what the file set generator wrote: *)
(* "assert(orig_csum == csum)" (client.c:66).  A file with a zero byte      *)
(* inside, such as the pictures that request.c:90-93 has types for, comes   *)
(* back damaged from the cache.                                             *)
FileIsSentWhole ==
  \A w \in Workers : pc[w] = "send" => data[w].whole

=============================================================================
