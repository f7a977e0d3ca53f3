--------------------------- MODULE LFObjectPoolTLS ---------------------------
(***************************************************************************)
(* LFObjectPoolTLS.h: objects come in chunks.  A thread hands out the      *)
(* objects of its own chunk (kept in thread-local storage) one after the   *)
(* other and replaces the chunk when it gives the last one away; any       *)
(* thread may free any object, and the one that frees the last object of a *)
(* chunk returns the chunk to the shared pool.  chunk_pool_ is an          *)
(* LFObjectPool, whose Alloc and Free are atomic here (module LFStack).    *)
(***************************************************************************)
EXTENDS Naturals, Sequences

CONSTANTS Threads, Chunks, Null,
          ChunkSize           \* CHUNCK_SIZE

VARIABLES pool,               \* chunk_pool_, top first
          made,               \* chunks created so far
          tls,                \* the chunk of each thread, or Null
          allocIndex, freeIndex,
          live,               \* objects given to the program
          pc,
          hand                \* the object Alloc is about to return, the chunk Free returns

vars == <<pool, made, tls, allocIndex, freeIndex, live, pc, hand>>

Objects == Chunks \X (0..(ChunkSize - 1))

Init ==
    /\ pool = <<>> /\ made = {}
    /\ tls = [t \in Threads |-> Null]
    /\ allocIndex = [c \in Chunks |-> 0]
    /\ freeIndex = [c \in Chunks |-> 0]
    /\ live = {}
    /\ pc = [t \in Threads |-> "idle"]
    /\ hand = [t \in Threads |-> Null]

(* chunk_pool_.Alloc, Chunk::Set and TlsSetValue (bound: Chunks). *)
TakeChunk(t) ==
    \E c \in Chunks :
        /\ \/ pool # <<>> /\ c = Head(pool) /\ pool' = Tail(pool) /\ made' = made
           \/ pool = <<>> /\ c \notin made /\ made' = made \cup {c} /\ pool' = pool
        /\ allocIndex' = [allocIndex EXCEPT ![c] = 0]
        /\ freeIndex' = [freeIndex EXCEPT ![c] = 0]
        /\ tls' = [tls EXCEPT ![t] = c]

(* The thread's first Alloc gets it a chunk. *)
FirstChunk(t) ==
    /\ pc[t] = "idle" /\ tls[t] = Null
    /\ TakeChunk(t)
    /\ UNCHANGED <<live, pc, hand>>

(* Chunk::Alloc: the next object of the chunk, returned at once ... *)
Alloc(t) ==
    LET c == tls[t] IN
    /\ pc[t] = "idle" /\ c # Null
    /\ allocIndex' = [allocIndex EXCEPT ![c] = @ + 1]
    /\ \/ /\ allocIndex[c] + 1 # ChunkSize
          /\ live' = live \cup {<<c, allocIndex[c]>>}
          /\ UNCHANGED <<pc, hand>>
       \/ /\ allocIndex[c] + 1 = ChunkSize
          /\ hand' = [hand EXCEPT ![t] = <<c, allocIndex[c]>>]
          /\ pc' = [pc EXCEPT ![t] = "replace"]
          /\ UNCHANGED live
    /\ UNCHANGED <<pool, made, tls, freeIndex>>

(* ... unless it was the last: then the thread replaces its chunk first. *)
Replace(t) ==
    /\ pc[t] = "replace"
    /\ TakeChunk(t)
    /\ live' = live \cup {hand[t]}
    /\ hand' = [hand EXCEPT ![t] = Null]
    /\ pc' = [pc EXCEPT ![t] = "idle"]

(* A plausible slip: the chunk is returned once all objects allocated so far are free. *)
LastFreeTooEarly(c) == freeIndex[c] + 1 = allocIndex[c]

LastFree(c) == freeIndex[c] + 1 = ChunkSize

(* Chunk::Free by any thread: the interlocked increment tells who was last. *)
Free(t) ==
    /\ pc[t] = "idle"
    /\ \E o \in live :
          LET c == o[1] IN
          /\ live' = live \ {o}
          /\ freeIndex' = [freeIndex EXCEPT ![c] = @ + 1]
          /\ \/ LastFree(c) /\ hand' = [hand EXCEPT ![t] = c] /\ pc' = [pc EXCEPT ![t] = "return"]
             \/ ~LastFree(c) /\ UNCHANGED <<hand, pc>>
    /\ UNCHANGED <<pool, made, tls, allocIndex>>

ReturnChunk(t) ==
    /\ pc[t] = "return"
    /\ pool' = <<hand[t]>> \o pool
    /\ hand' = [hand EXCEPT ![t] = Null]
    /\ pc' = [pc EXCEPT ![t] = "idle"]
    /\ UNCHANGED <<made, tls, allocIndex, freeIndex, live>>

Next == \E t \in Threads : FirstChunk(t) \/ Alloc(t) \/ Replace(t) \/ Free(t) \/ ReturnChunk(t)

Spec == Init /\ [][Next]_vars

----------------------------------------------------------------------------
TypeOK ==
    /\ pool \in Seq(made) /\ made \subseteq Chunks
    /\ tls \in [Threads -> made \cup {Null}]
    /\ allocIndex \in [Chunks -> 0..ChunkSize] /\ freeIndex \in [Chunks -> 0..ChunkSize]
    /\ live \subseteq Objects
    /\ pc \in [Threads -> {"idle", "replace", "return"}]
    /\ hand \in [Threads -> Objects \cup Chunks \cup {Null}]

Pooled == {pool[i] : i \in DOMAIN pool}
Returning == {hand[t] : t \in {u \in Threads : pc[u] = "return"}}
InHand == {hand[t] : t \in {u \in Threads : pc[u] = "replace"}}

(* An object has one owner, although its chunk is filled by one thread,    *)
(* emptied by all and used again: a chunk in the pool, or on its way       *)
(* there, is nobody's current chunk and has no object in use; current      *)
(* chunks differ, and what they will hand out next is in nobody's hands.   *)
ChunksRecycledOnce ==
    /\ \A i, j \in DOMAIN pool : i # j => pool[i] # pool[j]
    /\ \A c \in Pooled \cup Returning :
          /\ \A t \in Threads : tls[t] # c
          /\ \A i \in 0..(ChunkSize - 1) : <<c, i>> \notin live \cup InHand
    /\ Pooled \cap Returning = {}
    /\ \A t, u \in Threads : t # u /\ tls[t] # Null => tls[t] # tls[u]
    /\ InHand \cap live = {}
    /\ \A t \in Threads : tls[t] # Null =>
          \A i \in allocIndex[tls[t]]..(ChunkSize - 1) : <<tls[t], i>> \notin live
=============================================================================
