---------------------------- MODULE BufferedSends ----------------------------
(***************************************************************************)
(* The buffer that a rank attaches for its buffered sends, cut into        *)
(* segments (private/p_rqst.c). A segment starts with a header: its size,  *)
(* its two links and the request of the send. The free segments form a     *)
(* list in the order of their addresses, those in use another one.         *)
(***************************************************************************)
EXTENDS Integers, FiniteSets

CONSTANTS
  Length,     \* the size of the attached buffer
  INFO,       \* the size of a header
  Payloads    \* the sizes of the messages

(* A header takes room, and the buffer has some. *)
ASSUME TheBuffer ==
  Length \in Nat \ {0} /\ INFO \in Nat \ {0} /\ Payloads \subseteq Nat

VARIABLES
  buffer,     \* attached or not, and the heads of its two lists
  mem,        \* the headers, by address: size, next, prev, and the size of the message
  done        \* the segments in use whose message has been taken
bufferVars == <<buffer, mem, done>>

NULL      == -1
Addresses == 0 .. Length - 1
MIN       == INFO     \* the smallest rest that is cut off
Detached  == [attached |-> FALSE, avail |-> NULL, active |-> NULL]
NoHeader  == [size |-> 0, next |-> NULL, prev |-> NULL, payload |-> 0]

BufferInit == buffer = Detached /\ mem = [a \in Addresses |-> NoHeader] /\ done = {}

(* A list from its head, as a set of addresses.                            *)
ListOf(m, head) ==
  LET reach[n \in 0 .. Length] ==
        IF n = 0 THEN {head} \ {NULL}
        ELSE LET r == reach[n - 1] IN r \cup ({m[a].next : a \in r} \ {NULL})
  IN  reach[Length]

(* What is not the header of a segment is payload, or garbage.             *)
Headers(b, m) ==
  LET live == ListOf(m, b.avail) \cup ListOf(m, b.active)
  IN  [a \in Addresses |-> IF a \in live THEN m[a] ELSE NoHeader]

(* Writes a field through a pointer, unless it is NULL.                    *)
SetNext(m, a, v) == IF a = NULL THEN m ELSE [m EXCEPT ![a].next = v]
SetPrev(m, a, v) == IF a = NULL THEN m ELSE [m EXCEPT ![a].prev = v]

(* The list without one of its segments: the headers and the new head.     *)
Unlink(m, head, a) ==
  [mem  |-> SetPrev(SetNext(m, m[a].prev, m[a].next), m[a].next, m[a].prev),
   head |-> IF m[a].prev = NULL THEN m[a].next ELSE head]
-----------------------------------------------------------------------------
(* The last free segment before address a, and the first behind it.        *)
Before(m, head, a) ==
  LET low == {b \in ListOf(m, head) : b <= a}
  IN  IF low = {} THEN NULL ELSE CHOOSE b \in low : \A c \in low : c <= b
Behind(m, head, a) ==
  LET high == {b \in ListOf(m, head) : b > a}
  IN  IF high = {} THEN NULL ELSE CHOOSE b \in high : \A c \in high : b <= c

(* Steps 3 and 4 of rqstFreeSegment.                                       *)
MergeNext(m, seg, avail) ==
  IF avail = NULL THEN [m EXCEPT ![seg].next = NULL]
  ELSE IF seg + m[seg].size = avail
  THEN SetPrev([m EXCEPT ![seg].size = @ + m[avail].size, ![seg].next = m[avail].next],
               m[avail].next, seg)
  ELSE [m EXCEPT ![seg].next = avail, ![avail].prev = seg]

(* Mutant: a segment is never merged into the one before it.               *)
LinkPrev(m, seg, before) ==
  IF before = NULL THEN [m EXCEPT ![seg].prev = NULL]
  ELSE [m EXCEPT ![before].next = seg, ![seg].prev = before]

MergePrev(m, seg, before) ==
  IF before = NULL THEN [m EXCEPT ![seg].prev = NULL]
  ELSE IF before + m[before].size = seg
  THEN SetPrev([m EXCEPT ![before].size = @ + m[seg].size, ![before].next = m[seg].next],
               m[seg].next, before)
  ELSE [m EXCEPT ![before].next = seg, ![seg].prev = before]

rqstFreeSegment(b, m, seg) ==
  LET cut    == Unlink(m, b.active, seg)
      before == Before(m, b.avail, seg)
      avail  == Behind(m, b.avail, seg)
  IN  [buffer |-> [b EXCEPT !.active = cut.head,
                            !.avail  = IF before = NULL THEN seg ELSE @],
       mem    |-> MergePrev(MergeNext(cut.mem, seg, avail), seg, before)]

(* RQST_CompleteBsendRqsts: the segments of D, which are in use, are freed *)
(* in the order of the list.                                               *)
FreeAll(b, m, D) ==
  LET sweep[n \in 0 .. Length] ==
        IF n = 0 THEN [buffer |-> b, mem |-> m, at |-> b.active]
        ELSE LET p == sweep[n - 1] IN
             IF p.at = NULL THEN p
             ELSE LET next == p.mem[p.at].next
                      freed == rqstFreeSegment(p.buffer, p.mem, p.at)
                  IN  IF p.at \in D THEN [buffer |-> freed.buffer, mem |-> freed.mem, at |-> next]
                                    ELSE [p EXCEPT !.at = next]
  IN  sweep[Length]

(* The first free segment that is large enough, or NULL.                   *)
FirstFit(b, m, size) ==
  LET fits == {a \in ListOf(m, b.avail) : m[a].size - INFO >= size}
  IN  IF fits = {} THEN NULL ELSE CHOOSE a \in fits : \A c \in fits : a <= c

(* Mutant: the rest starts right behind the payload.                       *)
CutShort(m, seg, size) ==
  LET rest == seg + size IN
  IF m[seg].size < INFO + size + MIN THEN m
  ELSE SetPrev([m EXCEPT ![rest] = [size |-> m[seg].size - size, next |-> m[seg].next, prev |-> seg,
                                    payload |-> 0],
                         ![seg]  = [@ EXCEPT !.next = rest, !.size = size]],
               m[seg].next, rest)

(* Cuts off the rest of a segment when another one fits in there.          *)
Cut(m, seg, size) ==
  LET rest == seg + INFO + size IN
  IF m[seg].size < INFO + size + MIN THEN m
  ELSE SetPrev([m EXCEPT ![rest] = [size |-> m[seg].size - size - INFO,
                                    next |-> m[seg].next, prev |-> seg, payload |-> 0],
                         ![seg]  = [@ EXCEPT !.next = rest, !.size = INFO + size]],
               m[seg].next, rest)

(* Takes segment seg out of the free list, to the head of the other one.   *)
rqstGetSegment(b, m, seg, size) ==
  LET out == Unlink(Cut(m, seg, size), b.avail, seg)
      m2  == SetPrev(out.mem, b.active, seg)
  IN  [buffer |-> [b EXCEPT !.avail = out.head, !.active = seg],
       mem    |-> [m2 EXCEPT ![seg].next = b.active, ![seg].prev = NULL,
                         ![seg].payload = size]]
-----------------------------------------------------------------------------
rqstBufferAttach ==
  /\ ~buffer.attached
  /\ buffer' = [attached |-> TRUE, avail |-> 0, active |-> NULL]
  /\ mem' = [mem EXCEPT ![0] = [NoHeader EXCEPT !.size = Length]]
  /\ UNCHANGED done

(* MPI_Bsend, MPI_Ibsend and MPI_Start of a buffered request: free what is *)
(* done, then take a segment for the message, or fail with MPI_ERR_BUFFER. *)
(* A receiver that waits takes the message at once.                        *)
MPI_Bsend(size) ==
  /\ buffer.attached
  /\ LET swept == FreeAll(buffer, mem, done)
         seg   == FirstFit(swept.buffer, swept.mem, size)
         got   == rqstGetSegment(swept.buffer, swept.mem, seg, size)
     IN  IF seg = NULL
         THEN buffer' = swept.buffer /\ mem' = Headers(swept.buffer, swept.mem) /\ done' = {}
         ELSE /\ buffer' = got.buffer /\ mem' = Headers(got.buffer, got.mem)
              /\ done' \in {{}, {seg}}

(* The receiver of the message in segment a takes it.                      *)
Take(a) ==
  /\ a \in ListOf(mem, buffer.active) \ done
  /\ done' = done \cup {a}
  /\ UNCHANGED <<buffer, mem>>

(* It waits for every message, frees the segments and empties the table,   *)
(* which gives the whole buffer back to the program.                       *)
rqstBufferDetach ==
  /\ buffer.attached
  /\ ListOf(mem, buffer.active) \subseteq done
  /\ buffer' = Detached /\ mem' = [a \in Addresses |-> NoHeader] /\ done' = {}

BufferNext == \/ rqstBufferAttach \/ rqstBufferDetach
              \/ \E size \in Payloads : MPI_Bsend(size)
              \/ \E a \in Addresses : Take(a)

BufferSpec == BufferInit /\ [][BufferNext]_bufferVars
-----------------------------------------------------------------------------
Avail  == ListOf(mem, buffer.avail)
Active == ListOf(mem, buffer.active)
Cells(a) == a .. a + mem[a].size - 1

(* In both lists the links back are the reverse of the links forward, and  *)
(* the free segments are in the order of their addresses.                  *)
ListsLinked ==
  /\ \A a \in Avail \cup Active : mem[a].next # NULL => mem[mem[a].next].prev = a
  /\ \A head \in {buffer.avail, buffer.active} \ {NULL} : mem[head].prev = NULL
  /\ \A a \in Avail : mem[a].next # NULL => a < mem[a].next

(* The segments of the two lists cover the attached buffer, each of its    *)
(* bytes once, and a message fits into its own: none lies where another    *)
(* message or a free header does, and no byte is lost. Neighbours that are *)
(* free have been merged: when nothing is in use, all of it is one segment.*)
BufferTiled ==
  buffer.attached =>
    /\ ListsLinked
    /\ Avail \cap Active = {}
    /\ UNION {Cells(a) : a \in Avail \cup Active} = Addresses
    /\ \A a, b \in Avail \cup Active : a # b => Cells(a) \cap Cells(b) = {}
    /\ \A a \in Active : INFO + mem[a].payload <= mem[a].size
    /\ \A a \in Avail : a + mem[a].size \notin Avail
=============================================================================
