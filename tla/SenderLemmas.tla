---------------------------- MODULE SenderLemmas ----------------------------
(***************************************************************************)
(* Facts about the operators of TCPSender, for every payload size, window, *)
(* stream and timeout.  They lead to FillGoes, AckGoes and TickGoes, which *)
(* say what the three operations of the class keep and how the sequence    *)
(* numbers and the window move.                                            *)
(***************************************************************************)
EXTENDS TCPSender, ReceiverLemmas

SenderFields ==
    {"isn", "segments_out", "stream", "next_seqno", "outstanding", "bytes_in_flight", "syn",
     "fin_sent", "wdn_sz", "abs_ackno", "recv_wdn_sz", "max_abs_seqno", "rto",
     "consecutive_retransmissions", "elapsed_time", "timer_on"}

-----------------------------------------------------------------------------
(* The invariants.                                                         *)

(* Intervals of lengths f[k] that end at k, without overlap and without a  *)
(* gap, from lo to hi.                                                     *)
Tiles(f, lo, hi) ==
    /\ lo \in Nat /\ hi \in Nat /\ lo <= hi
    /\ DOMAIN f \subseteq Nat
    /\ \A k \in DOMAIN f :
           /\ f[k] \in Nat \ {0} /\ lo <= k - f[k] /\ k <= hi
           /\ k - f[k] = lo \/ k - f[k] \in DOMAIN f
    /\ \A k, l \in DOMAIN f : k < l => k <= l - f[l]
    /\ lo < hi => hi \in DOMAIN f

Lengths(map) == [k \in DOMAIN map |-> LengthInSequenceSpace(map[k])]

(* The stream a sender reads from: it holds the bytes written and not yet  *)
(* sent.                                                                   *)
StreamOK(st) ==
    /\ st = [buf |-> st.buf, cap |-> st.cap, total_written |-> st.total_written,
             total_read |-> st.total_read, input_ended |-> st.input_ended,
             error |-> st.error]
    /\ st.cap \in Nat /\ st.total_written \in Nat /\ st.total_read \in Nat
    /\ st.input_ended \in BOOLEAN
    /\ st.total_read <= st.total_written
    /\ st.buf = Substring(st.total_read, st.total_written - st.total_read)

(* seg has been sent, from absolute sequence number abs on: the SYN alone, *)
(* or len bytes of the stream, and the FIN only at its end.                *)
IssuedAt(s, seg, abs, len, syn, fin) ==
    /\ SegmentAt(seg, s.isn, abs, len, syn, fin)
    /\ s.syn
    /\ IF syn THEN len = 0 /\ ~fin
       ELSE abs > 0 /\ abs - 1 + len <= s.stream.total_read
    /\ fin => s.fin_sent /\ abs - 1 + len = s.stream.total_written

Issued(s, seg) ==
    \E abs, len \in Nat, syn, fin \in BOOLEAN : IssuedAt(s, seg, abs, len, syn, fin)

(* What is outstanding tiles the numbers from the last acknowledged        *)
(* segment up to next_seqno.                                               *)
FlightOK(s) ==
    /\ s = [f \in SenderFields |-> s[f]]
    /\ s.next_seqno \in Nat /\ s.bytes_in_flight \in 0..s.next_seqno
    /\ s.elapsed_time \in Nat /\ s.rto \in Nat
    /\ s.outstanding = [k \in DOMAIN s.outstanding |-> s.outstanding[k]]
    /\ Tiles(Lengths(s.outstanding), s.next_seqno - s.bytes_in_flight, s.next_seqno)

(* The inductive invariant of a sender between two calls, for any          *)
(* acknowledgments: next_seqno counts the SYN, the bytes read from the     *)
(* stream and the FIN, and all that is outstanding was sent.               *)
SenderOK(s) ==
    /\ FlightOK(s) /\ StreamOK(s.stream) /\ s.stream.total_written < Word
    /\ s.syn \in BOOLEAN /\ s.fin_sent \in BOOLEAN /\ s.recv_wdn_sz \in 0..MaxWindow
    /\ s.syn => s.next_seqno = s.stream.total_read + (IF s.fin_sent THEN 2 ELSE 1)
    /\ ~s.syn => /\ s.next_seqno = 0 /\ s.stream.total_read = 0
                 /\ s.recv_wdn_sz = 0 /\ ~s.fin_sent
    /\ s.fin_sent => s.stream.input_ended /\ s.stream.total_read = s.stream.total_written
    /\ \A seg \in Range(s.outstanding) : Issued(s, seg)

(* seg carries byte n - 1, the last of a stream of n bytes.                *)
HoldsLast(seg, n) == seg.payload # <<>> /\ seg.payload[Len(seg.payload)] = n - 1

FinWithData(segments) == \E seg \in segments : seg.fin /\ seg.payload # <<>>

-----------------------------------------------------------------------------
(* Tiles.                                                                  *)

(* Tiles leave no gap.                                                     *)
LEMMA TilesCover ==
    ASSUME NEW f, NEW lo, NEW hi, Tiles(f, lo, hi)
    PROVE  UNION {(k - f[k])..(k - 1) : k \in DOMAIN f} = lo..(hi - 1)
<1>1. /\ lo \in Nat /\ hi \in Nat /\ lo <= hi /\ DOMAIN f \subseteq Nat
      /\ \A k \in DOMAIN f :
             /\ f[k] \in Nat \ {0} /\ lo <= k - f[k] /\ k <= hi
             /\ k - f[k] = lo \/ k - f[k] \in DOMAIN f
      /\ lo < hi => hi \in DOMAIN f
  BY DEF Tiles
<1>2. ASSUME NEW k \in DOMAIN f, NEW p \in (k - f[k])..(k - 1)
      PROVE  p \in lo..(hi - 1)
  BY <1>1
<1>3. ASSUME NEW p \in lo..(hi - 1)
      PROVE  \E k \in DOMAIN f : p \in (k - f[k])..(k - 1)
  <2> DEFINE above == {k \in DOMAIN f : p < k}
  <2>1. above \subseteq Nat /\ hi \in above
    BY <1>1
  <2>2. PICK k \in above : \A l \in above : k <= l
    BY <2>1, LeastOfNat, Zenon
  <2>3. k \in DOMAIN f /\ k \in Nat /\ p < k /\ f[k] \in Nat \ {0}
    BY <1>1, <2>2
  <2>4. k - f[k] <= p
    <3>1. CASE k - f[k] = lo
      BY <1>1, <3>1
    <3>2. CASE k - f[k] \in DOMAIN f
      <4>1. k - f[k] < k
        BY <2>3
      <4>2. k - f[k] \notin above
        BY <1>1, <2>2, <2>3, <3>2, <4>1
      <4> QED
        BY <1>1, <2>3, <3>2, <4>2
    <3> QED
      BY <1>1, <2>3, <3>1, <3>2
  <2> QED
    BY <1>1, <2>3, <2>4
<1> QED
  BY <1>2, <1>3

(* The lengths of the tiles add up to the distance they cover.             *)
LEMMA TilesSum ==
    ASSUME NEW f, NEW lo, NEW hi, Tiles(f, lo, hi)
    PROVE  SumFunctionOnSet(f, DOMAIN f) = hi - lo
<1> DEFINE piece == [k \in DOMAIN f |-> (k - f[k])..(k - 1)]
<1>1. /\ lo \in Nat /\ hi \in Nat /\ lo <= hi /\ DOMAIN f \subseteq Nat
      /\ \A k \in DOMAIN f :
             f[k] \in Nat \ {0} /\ lo <= k - f[k] /\ k <= hi
      /\ \A k, l \in DOMAIN f : k < l => k <= l - f[l]
  BY DEF Tiles
<1>2. IsFiniteSet(DOMAIN f)
  <2>1. DOMAIN f \subseteq 0..hi
    BY <1>1
  <2>2. IsFiniteSet(0..hi)
    BY <1>1, FS_Interval
  <2> QED
    BY <2>1, <2>2, FS_Subset, Zenon
<1>3. \A k \in DOMAIN f : IsFiniteSet(piece[k]) /\ Cardinality(piece[k]) = f[k]
  <2> SUFFICES ASSUME NEW k \in DOMAIN f
               PROVE  IsFiniteSet(piece[k]) /\ Cardinality(piece[k]) = f[k]
    OBVIOUS
  <2>1. PICK a \in Nat, b \in Nat : a = k - f[k] /\ b = k /\ a <= b /\ b - a = f[k]
    BY <1>1
  <2>2. IsFiniteSet(a..(b - 1)) /\ Cardinality(a..(b - 1)) = b - a
    BY <2>1, IntervalSize
  <2>3. piece[k] = a..(b - 1)
    BY <2>1
  <2> QED
    BY <2>1, <2>2, <2>3
<1>4. \A k, l \in DOMAIN f : k # l => piece[k] \cap piece[l] = {}
  <2> SUFFICES ASSUME NEW k \in DOMAIN f, NEW l \in DOMAIN f, k # l
               PROVE  \A p : ~(p \in (k - f[k])..(k - 1) /\ p \in (l - f[l])..(l - 1))
    OBVIOUS
  <2>1. k < l \/ l < k
    BY <1>1
  <2>2. k <= l - f[l] \/ l <= k - f[k]
    BY <1>1, <2>1
  <2> QED
    BY <1>1, <2>2
<1>5. SumFunctionOnSet(f, DOMAIN f) = Cardinality(UNION {piece[k] : k \in DOMAIN f})
  <2>1. PICK S : S = DOMAIN f
    OBVIOUS
  <2> HIDE DEF piece
  <2>2. IsFiniteSet(S)
    BY <1>2, <2>1
  <2>3. \A k \in S : IsFiniteSet(piece[k]) /\ Cardinality(piece[k]) = f[k]
    BY <1>3, <2>1
  <2>4. \A k, l \in S : k # l => piece[k] \cap piece[l] = {}
    BY <1>4, <2>1
  <2>5. /\ IsFiniteSet(UNION {piece[k] : k \in S})
        /\ SumFunctionOnSet(f, S) = Cardinality(UNION {piece[k] : k \in S})
    BY <2>2, <2>3, <2>4, SumOfDisjoint
  <2> QED
    BY <2>1, <2>5
<1>6. UNION {piece[k] : k \in DOMAIN f} = lo..(hi - 1)
  BY TilesCover
<1> QED
  BY <1>1, <1>5, <1>6, IntervalSize, Zenon

(* Tiles can be taken away from below, up to the end of one of them.       *)
LEMMA TilesSplit ==
    ASSUME NEW f, NEW lo, NEW hi, Tiles(f, lo, hi), NEW mid \in DOMAIN f,
           NEW g, DOMAIN g = {k \in DOMAIN f : k <= mid}, \A k \in DOMAIN g : g[k] = f[k],
           NEW h, DOMAIN h = DOMAIN f \ DOMAIN g, \A k \in DOMAIN h : h[k] = f[k]
    PROVE  Tiles(g, lo, mid) /\ Tiles(h, mid, hi)
<1>1. /\ lo \in Nat /\ hi \in Nat /\ lo <= hi /\ DOMAIN f \subseteq Nat
      /\ \A k \in DOMAIN f :
             /\ f[k] \in Nat \ {0} /\ lo <= k - f[k] /\ k <= hi
             /\ k - f[k] = lo \/ k - f[k] \in DOMAIN f
      /\ \A k, l \in DOMAIN f : k < l => k <= l - f[l]
      /\ lo < hi => hi \in DOMAIN f
  BY DEF Tiles
<1>2. mid \in Nat /\ lo < mid /\ mid <= hi
  BY <1>1
<1>3. Tiles(g, lo, mid)
  <2>1. \A k \in DOMAIN g : k - g[k] = lo \/ k - g[k] \in DOMAIN g
    BY <1>1, <1>2
  <2> QED
    BY <1>1, <1>2, <2>1 DEF Tiles
<1>4. Tiles(h, mid, hi)
  <2>1. \A k \in DOMAIN h : k \in Nat /\ mid < k /\ mid <= k - h[k] /\ k - h[k] < k
    BY <1>1, <1>2
  <2>2. \A k \in DOMAIN h : k - h[k] = mid \/ k - h[k] \in DOMAIN h
    BY <1>1, <1>2, <2>1
  <2>3. mid < hi => hi \in DOMAIN h
    BY <1>1, <1>2
  <2> QED
    BY <1>1, <1>2, <2>1, <2>2, <2>3 DEF Tiles
<1> QED
  BY <1>3, <1>4

(* The numbers behind which the n segments of lengths lens end, when they  *)
(* are sent one after the other from mid on.                               *)
Chain(ends, lens, n, mid) ==
    /\ n \in Nat \ {0} /\ DOMAIN ends = 1..n
    /\ \A i \in 1..n : /\ lens[i] \in Nat \ {0} /\ ends[i] \in Nat
                       /\ ends[i] - lens[i] = IF i = 1 THEN mid ELSE ends[i - 1]
                       /\ mid <= ends[i] - lens[i] /\ ends[i] <= ends[n]
    /\ \A i, j \in 1..n : i < j => ends[i] <= ends[j] - lens[j]

(* Tiles can be put on top.                                                *)
LEMMA TilesAdd ==
    ASSUME NEW f, NEW lo, NEW mid, Tiles(f, lo, mid),
           NEW ends, NEW lens, NEW n, Chain(ends, lens, n, mid),
           NEW g, DOMAIN g = DOMAIN f \cup {ends[i] : i \in 1..n},
           \A k \in DOMAIN f : g[k] = f[k], \A i \in 1..n : g[ends[i]] = lens[i]
    PROVE  Tiles(g, lo, ends[n])
<1>1. /\ lo \in Nat /\ mid \in Nat /\ lo <= mid /\ DOMAIN f \subseteq Nat
      /\ \A k \in DOMAIN f :
             /\ f[k] \in Nat \ {0} /\ lo <= k - f[k] /\ k <= mid
             /\ k - f[k] = lo \/ k - f[k] \in DOMAIN f
      /\ \A k, l \in DOMAIN f : k < l => k <= l - f[l]
      /\ lo < mid => mid \in DOMAIN f
  BY DEF Tiles
<1>2. /\ n \in Nat \ {0}
      /\ \A i \in 1..n : /\ lens[i] \in Nat \ {0} /\ ends[i] \in Nat
                         /\ ends[i] - lens[i] = IF i = 1 THEN mid ELSE ends[i - 1]
                         /\ mid <= ends[i] - lens[i] /\ ends[i] <= ends[n]
      /\ \A i, j \in 1..n : i < j => ends[i] <= ends[j] - lens[j]
  BY DEF Chain
<1>3. n \in 1..n /\ ends[n] \in Nat /\ mid <= ends[n] /\ ends[n] \in DOMAIN g
  BY <1>2
<1>4. ASSUME NEW k \in DOMAIN g
      PROVE  /\ k \in Nat /\ g[k] \in Nat \ {0} /\ lo <= k - g[k] /\ k <= ends[n]
             /\ k - g[k] = lo \/ k - g[k] \in DOMAIN g
  <2>1. CASE k \in DOMAIN f
    BY <1>1, <1>3, <2>1
  <2>2. ASSUME NEW i \in 1..n, k = ends[i]
        PROVE  /\ k \in Nat /\ g[k] \in Nat \ {0} /\ lo <= k - g[k] /\ k <= ends[n]
               /\ k - g[k] = lo \/ k - g[k] \in DOMAIN g
    <3>1. /\ k \in Nat /\ g[k] = lens[i] /\ lens[i] \in Nat \ {0}
          /\ lo <= k - g[k] /\ k <= ends[n]
      BY <1>1, <1>2, <2>2
    <3>2. CASE i = 1
      <4>1. k - g[k] = mid
        BY <1>2, <2>2, <3>1, <3>2
      <4> QED
        BY <1>1, <3>1, <4>1
    <3>3. CASE i # 1
      <4>1. i - 1 \in 1..n /\ k - g[k] = ends[i - 1]
        BY <1>2, <2>2, <3>1, <3>3
      <4> QED
        BY <3>1, <4>1
    <3> QED
      BY <3>2, <3>3
  <2> QED
    BY <2>1, <2>2
<1>5. ASSUME NEW k \in DOMAIN g, NEW l \in DOMAIN g, k < l
      PROVE  k <= l - g[l]
  <2>1. ASSUME NEW j \in 1..n, l = ends[j]
        PROVE  k <= l - g[l]
    <3>1. g[l] = lens[j] /\ mid <= l - g[l]
      BY <1>2, <2>1
    <3>2. CASE k \in DOMAIN f
      BY <1>1, <1>2, <2>1, <3>1, <3>2
    <3>3. ASSUME NEW i \in 1..n, k = ends[i]
          PROVE  k <= l - g[l]
      <4>1. i < j
        BY <1>2, <1>5, <2>1, <3>3
      <4> QED
        BY <1>2, <2>1, <3>1, <3>3, <4>1
    <3> QED
      BY <3>2, <3>3
  <2>2. CASE l \in DOMAIN f
    <3>1. CASE k \in DOMAIN f
      BY <1>1, <1>5, <2>2, <3>1
    <3>2. ASSUME NEW i \in 1..n, k = ends[i]
          PROVE  FALSE
      BY <1>1, <1>2, <1>5, <2>2, <3>2
    <3> QED
      BY <3>1, <3>2
  <2> QED
    BY <2>1, <2>2
<1> QED
  BY <1>1, <1>3, <1>4, <1>5 DEF Tiles

-----------------------------------------------------------------------------
(* The retransmission timer.                                               *)

(* The inductive invariant, of a sender: TimerRuns, with the shape of the  *)
(* record and of the map of outstanding segments.                          *)
TimerInv(s) ==
    /\ s = [f \in SenderFields |-> s[f]]
    /\ s.outstanding = [k \in DOMAIN s.outstanding |-> s.outstanding[k]]
    /\ s.timer_on \in BOOLEAN
    /\ s.timer_on <=> DOMAIN s.outstanding # {}

(* A map without keys is the empty one.                                    *)
LEMMA NoKeys ==
    ASSUME NEW map, map = [k \in DOMAIN map |-> map[k]]
    PROVE  map = EmptyMap <=> DOMAIN map = {}
BY DEF EmptyMap

(* What the invariant says of a sender is TimerRuns.                       *)
LEMMA TimerInvMeaning ==
    ASSUME NEW s, TimerInv(s)
    PROVE  s.timer_on <=> s.outstanding # EmptyMap
BY NoKeys, Zenon DEF TimerInv

(* send_segment() (tcp_sender.cc:29) starts the timer.                     *)
LEMMA SendKeepsTimer ==
    ASSUME NEW s, TimerInv(s), NEW segments,
           segments = [i \in DOMAIN segments |-> segments[i]]
    PROVE  TimerInv(SendSegments(s, segments))
<1>1. CASE segments = <<>>
  BY <1>1 DEF SendSegments
<1>2. CASE segments # <<>>
  <2> DEFINE first(i) == s.next_seqno + (i - 1) * MaxPayload
             ends == [i \in DOMAIN segments |-> first(i) + LengthInSequenceSpace(segments[i])]
             numbered == [i \in DOMAIN segments |->
                             [segments[i] EXCEPT !.seqno = Wrap(first(i), s.isn)]]
             next == ends[Len(segments)]
             flight == s.bytes_in_flight + next - s.next_seqno
             queue == s.segments_out \o numbered
             map == InsertAll(s.outstanding, ends, numbered)
             sent == [s EXCEPT !.bytes_in_flight = flight, !.next_seqno = next,
                               !.segments_out = queue, !.outstanding = map]
  <2>1. SendSegments(s, segments) = StartTimer(sent)
    BY <1>2, Zenon DEF SendSegments
  <2>2. DOMAIN segments # {}
    <3>1. <<>> = [i \in {} |-> segments[i]]
      OBVIOUS
    <3> QED
      BY <1>2, <3>1, Zenon
  <2>3. map = [k \in DOMAIN map |-> map[k]] /\ DOMAIN map # {}
    <3> DEFINE new == {ends[i] : i \in DOMAIN ends} \ DOMAIN s.outstanding
               keys == DOMAIN s.outstanding \cup new
               value(k) == IF k \in DOMAIN s.outstanding THEN s.outstanding[k]
                           ELSE numbered[CHOOSE i \in DOMAIN ends : ends[i] = k]
    <3>1. DOMAIN ends # {}
      BY <2>2
    <3> HIDE DEF ends
    <3>2. keys # {}
      BY <3>1
    <3>3. map = [k \in keys |-> value(k)]
      BY Zenon DEF InsertAll
    <3> HIDE DEF map, keys, value
    <3> QED
      BY <3>2, <3>3
  <2> HIDE DEF map, queue, flight, next
  <2>4. /\ sent = [f \in SenderFields |-> sent[f]]
        /\ sent.outstanding = map /\ sent.timer_on = s.timer_on
    BY Zenon DEF TimerInv, SenderFields
  <2> HIDE DEF sent
  <2>5. CASE sent.timer_on
    <3>1. StartTimer(sent) = sent
      BY <2>5 DEF StartTimer
    <3> QED
      BY <2>1, <2>3, <2>4, <2>5, <3>1, Zenon DEF TimerInv
  <2>6. CASE ~sent.timer_on
    <3> DEFINE started == [sent EXCEPT !.elapsed_time = 0, !.rto = InitialRto, !.timer_on = TRUE]
    <3>1. StartTimer(sent) = started
      BY <2>6 DEF StartTimer
    <3>2. /\ started = [f \in SenderFields |-> started[f]]
          /\ started.outstanding = map /\ started.timer_on = TRUE
      BY <2>4, Zenon DEF SenderFields
    <3> HIDE DEF started
    <3> QED
      BY <2>1, <2>3, <3>1, <3>2, Zenon DEF TimerInv
  <2> QED
    BY <2>5, <2>6
<1> QED
  BY <1>1, <1>2

(* fill_window() (tcp_sender.cc:48).                                       *)
LEMMA FillKeepsTimer ==
    ASSUME NEW s, TimerInv(s)
    PROVE  TimerInv(FillWindow(s))
<1> DEFINE synned == [s EXCEPT !.syn = TRUE]
           syn == <<[EmptySegment EXCEPT !.syn = TRUE]>>
           data == PeekOutput(s.stream, s.recv_wdn_sz)
           left == s.recv_wdn_sz - Len(data)
           stream == PopOutput(s.stream, Len(data))
           window == IF FinFits(s) THEN left - 1 ELSE left
           fin == s.fin_sent \/ FinFits(s)
           filled == [s EXCEPT !.stream = stream, !.recv_wdn_sz = window, !.fin_sent = fin]
<1>1. FillWindow(s) = IF ~s.syn THEN SendSegments(synned, syn)
                      ELSE SendSegments(filled, WindowSegments(s))
  BY Zenon DEF FillWindow
<1>2. TimerInv(synned)
  BY Zenon DEF TimerInv, SenderFields
<1>3. syn = [i \in DOMAIN syn |-> syn[i]]
  OBVIOUS
<1>4. WindowSegments(s) = [i \in DOMAIN WindowSegments(s) |-> WindowSegments(s)[i]]
  BY Zenon DEF WindowSegments
<1> HIDE DEF stream, window, fin, synned, syn
<1>5. TimerInv(filled)
  BY Zenon DEF TimerInv, SenderFields
<1> HIDE DEF filled
<1> QED
  BY <1>1, <1>2, <1>3, <1>4, <1>5, SendKeepsTimer

(* ack_received() (tcp_sender.cc:95) stops the timer with the last         *)
(* outstanding segment, and fills the window afterwards.                   *)
LEMMA AckKeepsTimer ==
    ASSUME NEW s, TimerInv(s), NEW ackno, NEW window_size
    PROVE  TimerInv(AckReceived(s, ackno, window_size))
<1> DEFINE abs == Unwrap(ackno, s.isn, s.abs_ackno)
           acked == Acknowledged(s, abs)
           left == Erase(s.outstanding, acked)
           newer == abs > s.max_abs_seqno
           flight == s.bytes_in_flight - SumFunctionOnSet(
                        [k \in acked |-> LengthInSequenceSpace(s.outstanding[k])], acked)
           window == WindowLeft(s, abs, window_size)
           max_abs == IF newer THEN abs ELSE s.max_abs_seqno
           rto == IF newer THEN InitialRto ELSE s.rto
           retx == IF newer THEN 0 ELSE s.consecutive_retransmissions
           elapsed == IF newer /\ left # EmptyMap THEN 0 ELSE s.elapsed_time
           on == s.timer_on /\ left # EmptyMap
           freed == [s EXCEPT !.abs_ackno = abs, !.wdn_sz = window_size,
                              !.bytes_in_flight = flight, !.outstanding = left,
                              !.recv_wdn_sz = window, !.max_abs_seqno = max_abs, !.rto = rto,
                              !.consecutive_retransmissions = retx,
                              !.elapsed_time = elapsed, !.timer_on = on]
           closed == [s EXCEPT !.recv_wdn_sz = 0]
<1>1. AckReceived(s, ackno, window_size) =
         IF abs > s.next_seqno THEN s
         ELSE IF abs + window_size < s.next_seqno THEN closed ELSE FillWindow(freed)
  BY Zenon DEF AckReceived
<1>2. TimerInv(closed)
  BY DEF TimerInv, SenderFields
<1>3. /\ left = [k \in DOMAIN left |-> left[k]]
      /\ DOMAIN left \subseteq DOMAIN s.outstanding
  <2> HIDE DEF acked
  <2> QED
    BY DEF Erase, Restrict
<1>4. on \in BOOLEAN /\ (on <=> DOMAIN left # {})
  <2>1. left = EmptyMap <=> DOMAIN left = {}
    BY <1>3, NoKeys
  <2>2. s.timer_on \in BOOLEAN /\ (s.timer_on <=> DOMAIN s.outstanding # {})
    BY DEF TimerInv
  <2> HIDE DEF left
  <2> QED
    BY <1>3, <2>1, <2>2, Zenon
<1> HIDE DEF abs, left, flight, window, max_abs, rto, retx, elapsed, on
<1>5. /\ freed = [f \in SenderFields |-> freed[f]]
      /\ freed.outstanding = left /\ freed.timer_on = on
  BY Zenon DEF TimerInv, SenderFields
<1> HIDE DEF freed, closed
<1>6. TimerInv(freed)
  BY <1>3, <1>4, <1>5, Zenon DEF TimerInv
<1> QED
  BY <1>1, <1>2, <1>6, FillKeepsTimer

(* tick() (tcp_sender.cc:147) neither starts nor stops the timer.          *)
LEMMA TickKeepsTimer ==
    ASSUME NEW s, TimerInv(s), NEW ms
    PROVE  TimerInv(SenderTick(s, ms))
<1> DEFINE idle == s.outstanding = EmptyMap
           elapsed == IF idle THEN 0 ELSE s.elapsed_time + ms
           rto == IF idle THEN InitialRto ELSE s.rto
           expired == elapsed >= rto
           backoff == expired /\ s.wdn_sz > 0
           time == IF expired THEN 0 ELSE elapsed
           doubled == IF backoff THEN 2 * rto ELSE rto
           retx == IF backoff THEN s.consecutive_retransmissions + 1
                   ELSE s.consecutive_retransmissions
           queue == IF expired /\ ~idle
                    THEN Append(s.segments_out, s.outstanding[Min(DOMAIN s.outstanding)])
                    ELSE s.segments_out
           ticked == [s EXCEPT !.elapsed_time = time, !.rto = doubled,
                               !.consecutive_retransmissions = retx, !.segments_out = queue]
<1>1. SenderTick(s, ms) = IF ~s.timer_on THEN s ELSE ticked
  BY Zenon DEF SenderTick
<1> HIDE DEF time, doubled, retx, queue
<1>2. TimerInv(ticked)
  BY Zenon DEF TimerInv, SenderFields
<1> QED
  BY <1>1, <1>2

-----------------------------------------------------------------------------
(* send_segment().                                                         *)

SegmentFields == {"seqno", "ackno", "ack", "rst", "syn", "fin", "win", "payload"}

(* The segments as they are put into the queue.                            *)
Numbered(s, segments) ==
    [i \in DOMAIN segments |->
        [segments[i] EXCEPT !.seqno = Wrap(s.next_seqno + (i - 1) * MaxPayload, s.isn)]]

(* n segments that fill one another up: all but the last are full.         *)
Batch(segments, n) ==
    /\ n \in Nat \ {0} /\ segments = [i \in 1..n |-> segments[i]]
    /\ \A i \in 1..n :
           /\ segments[i] = [f \in SegmentFields |-> segments[i][f]]
           /\ LengthInSequenceSpace(segments[i]) \in Nat \ {0}
           /\ i < n => LengthInSequenceSpace(segments[i]) = MaxPayload

(* Multiples of the payload size.                                          *)
LEMMA Multiples ==
    /\ \A i \in Nat : i * MaxPayload \in Nat
    /\ \A i \in Nat : (i + 1) * MaxPayload = i * MaxPayload + MaxPayload
    /\ 0 * MaxPayload = 0
    /\ \A i, j \in Nat : i < j => i * MaxPayload + MaxPayload <= j * MaxPayload
<1>1. PICK m \in Nat : m = MaxPayload /\ m > 0
  BY SenderAssumption
<1>2. \A i \in Nat : i * m \in Nat /\ (i + 1) * m = i * m + m
  BY <1>1
<1>3. \A i, j \in Nat : i < j => i * m + m <= j * m
  <2> SUFFICES ASSUME NEW i \in Nat, NEW j \in Nat, i < j PROVE i * m + m <= j * m
    OBVIOUS
  <2>1. PICK d \in Nat : j = i + 1 + d
    <3>1. j - i - 1 \in Nat /\ j = i + 1 + (j - i - 1)
      OBVIOUS
    <3> QED
      BY <3>1
  <2>2. j * m = (i + 1) * m + d * m
    BY <1>1, <2>1
  <2> QED
    BY <1>2, <2>2
<1> QED
  BY <1>1, <1>2, <1>3

(* What the queue and the map keep of a segment.                           *)
LEMMA NumberedFields ==
    ASSUME NEW s, NEW segments, NEW n, Batch(segments, n), NEW i \in 1..n
    PROVE  LET seg == Numbered(s, segments)[i]
           IN  /\ seg.seqno = Wrap(s.next_seqno + (i - 1) * MaxPayload, s.isn)
               /\ seg.syn = segments[i].syn /\ seg.fin = segments[i].fin
               /\ seg.payload = segments[i].payload
               /\ LengthInSequenceSpace(seg) = LengthInSequenceSpace(segments[i])
<1> DEFINE no == Wrap(s.next_seqno + (i - 1) * MaxPayload, s.isn)
           seg == Numbered(s, segments)[i]
<1>1. /\ i \in DOMAIN segments
      /\ segments[i] = [f \in SegmentFields |-> segments[i][f]]
  BY DEF Batch
<1>2. seg = [segments[i] EXCEPT !.seqno = no]
  BY <1>1 DEF Numbered
<1> HIDE DEF no
<1>3. /\ seg.seqno = no /\ seg.payload = segments[i].payload
      /\ seg.syn = segments[i].syn /\ seg.fin = segments[i].fin
  <2> HIDE DEF seg
  <2> QED
    BY <1>1, <1>2 DEF SegmentFields
<1> HIDE DEF seg
<1>4. LengthInSequenceSpace(seg) = LengthInSequenceSpace(segments[i])
  BY <1>3 DEF LengthInSequenceSpace
<1> QED
  BY <1>3, <1>4 DEF no, seg

(* The offsets of the segments of a batch.                                 *)
Offsets(off) ==
    /\ off \in [Nat -> Nat] /\ off[0] = 0
    /\ \A i \in Nat : off[i + 1] = off[i] + MaxPayload
    /\ \A i, j \in Nat : i < j => off[i] + MaxPayload <= off[j]

LEMMA OffsetsExist == \E off : Offsets(off) /\ \A i \in Nat : off[i] = i * MaxPayload
<1> DEFINE off == [i \in Nat |-> i * MaxPayload]
<1>1. off \in [Nat -> Nat] /\ \A i \in Nat : off[i] = i * MaxPayload
  BY Multiples
<1> HIDE DEF off
<1>2. off[0] = 0
  BY <1>1, Multiples
<1>3. ASSUME NEW i \in Nat PROVE off[i + 1] = off[i] + MaxPayload
  <2>1. i + 1 \in Nat
    OBVIOUS
  <2>2. off[i] = i * MaxPayload /\ off[i + 1] = (i + 1) * MaxPayload
    BY <1>1, <2>1
  <2>3. (i + 1) * MaxPayload = i * MaxPayload + MaxPayload
    BY Multiples
  <2> QED
    BY <2>2, <2>3
<1>4. \A i, j \in Nat : i < j => off[i] + MaxPayload <= off[j]
  BY <1>1, Multiples, Zenon
<1> QED
  BY <1>1, <1>2, <1>3, <1>4 DEF Offsets

(* The numbers the segments of a batch end at.                             *)
BatchEnds(segments, n, mid, off, ends, lens) ==
    /\ DOMAIN ends = 1..n
    /\ \A i \in 1..n : /\ lens[i] = LengthInSequenceSpace(segments[i])
                       /\ ends[i] = mid + off[i - 1] + lens[i]

LEMMA BatchChain ==
    ASSUME NEW segments, NEW n, Batch(segments, n), NEW mid \in Nat,
           NEW off, Offsets(off), NEW ends, NEW lens,
           BatchEnds(segments, n, mid, off, ends, lens)
    PROVE  Chain(ends, lens, n, mid)
<1>1. /\ n \in Nat \ {0} /\ MaxPayload \in Nat
      /\ \A i \in 1..n : lens[i] \in Nat \ {0} /\ (i < n => lens[i] = MaxPayload)
  BY SenderAssumption DEF Batch, BatchEnds
<1>2. off \in [Nat -> Nat]
  BY DEF Offsets
<1>3. \A i, j \in Nat : i < j => off[i] + MaxPayload <= off[j]
  BY DEF Offsets
<1>4. ASSUME NEW i \in 1..n
      PROVE  /\ i \in Nat /\ i - 1 \in Nat
             /\ \E a \in Nat : a = off[i - 1] /\ ends[i] = mid + a + lens[i]
  <2>1. i \in Nat /\ i - 1 \in Nat
    BY <1>1
  <2>2. ends[i] = mid + off[i - 1] + lens[i]
    BY DEF BatchEnds
  <2>3. off[i - 1] \in Nat
    BY <1>2, <2>1
  <2> QED
    BY <2>1, <2>2, <2>3
<1>6. ASSUME NEW i \in 1..n, NEW j \in 1..n, i < j
      PROVE  ends[i] <= ends[j] - lens[j]
  <2>1. lens[i] = MaxPayload
    BY <1>1, <1>6
  <2>2. PICK a \in Nat : a = off[i - 1] /\ ends[i] = mid + a + lens[i]
    BY <1>4
  <2>3. PICK b \in Nat : b = off[j - 1] /\ ends[j] = mid + b + lens[j]
    BY <1>4
  <2>4. a + MaxPayload <= b
    <3>1. i - 1 \in Nat /\ j - 1 \in Nat /\ i - 1 < j - 1
      BY <1>1, <1>6
    <3> QED
      BY <1>3, <2>2, <2>3, <3>1
  <2>5. PICK l \in Nat : l = lens[j]
    BY <1>1
  <2> QED
    BY <1>1, <2>1, <2>2, <2>3, <2>4, <2>5
<1>7. ASSUME NEW i \in 1..n
      PROVE  /\ lens[i] \in Nat \ {0} /\ ends[i] \in Nat
             /\ ends[i] - lens[i] = IF i = 1 THEN mid ELSE ends[i - 1]
             /\ mid <= ends[i] - lens[i]
  <2>1. PICK a \in Nat : a = off[i - 1] /\ ends[i] = mid + a + lens[i]
    BY <1>4
  <2>2. PICK l \in Nat \ {0} : l = lens[i]
    BY <1>1
  <2>3. i = 1 => a = 0
    BY <2>1 DEF Offsets
  <2>4. ASSUME i # 1 PROVE ends[i - 1] = mid + a
    <3>1. i - 1 \in 1..n /\ i - 1 < n
      BY <1>1, <2>4
    <3>2. PICK b \in Nat : b = off[(i - 1) - 1] /\ ends[i - 1] = mid + b + lens[i - 1]
      BY <1>4, <3>1
    <3>3. lens[i - 1] = MaxPayload
      BY <1>1, <3>1
    <3>4. a = b + MaxPayload
      <4>1. \A k \in Nat : off[k + 1] = off[k] + MaxPayload
        BY DEF Offsets
      <4>2. (i - 1) - 1 \in Nat /\ (i - 1) - 1 + 1 = i - 1
        BY <1>1, <2>4
      <4> QED
        BY <2>1, <3>2, <4>1, <4>2
    <3> QED
      BY <1>1, <3>2, <3>3, <3>4
  <2>5. /\ ends[i] = mid + a + l
        /\ mid + a + l \in Nat /\ mid + a + l - l = mid + a /\ mid <= mid + a
    BY <2>1, <2>2
  <2>6. ends[i] - lens[i] = mid + a
    BY <2>2, <2>5
  <2>7. ends[i] - lens[i] = IF i = 1 THEN mid ELSE ends[i - 1]
    <3>1. CASE i = 1
      BY <2>3, <2>6, <3>1
    <3>2. CASE i # 1
      BY <2>4, <2>6, <3>2
    <3> QED
      BY <3>1, <3>2
  <2> QED
    BY <2>2, <2>5, <2>6, <2>7
<1>8. ASSUME NEW i \in 1..n PROVE ends[i] <= ends[n]
  <2>1. n \in 1..n
    BY <1>1
  <2>2. CASE i = n
    BY <1>7, <2>2
  <2>3. CASE i < n
    <3>1. ends[i] <= ends[n] - lens[n]
      BY <1>6, <2>1, <2>3
    <3>2. ends[i] \in Nat /\ ends[n] \in Nat /\ lens[n] \in Nat
      BY <1>7, <2>1
    <3> QED
      BY <3>1, <3>2
  <2> QED
    BY <1>1, <2>2, <2>3
<1> QED
  BY <1>1, <1>6, <1>7, <1>8 DEF Chain, BatchEnds

(* std::map::insert of keys that are new.                                  *)
Inserted(map, keys, values, n, m) ==
    /\ m = [k \in DOMAIN m |-> m[k]]
    /\ DOMAIN m = DOMAIN map \cup {keys[i] : i \in 1..n}
    /\ \A k \in DOMAIN map : m[k] = map[k]
    /\ \A i \in 1..n : m[keys[i]] = values[i]

LEMMA InsertNew ==
    ASSUME NEW map, NEW keys, NEW values, NEW n \in Nat, DOMAIN keys = 1..n,
           \A i, j \in 1..n : keys[i] = keys[j] => i = j,
           \A i \in 1..n : keys[i] \notin DOMAIN map
    PROVE  Inserted(map, keys, values, n, InsertAll(map, keys, values))
<1> DEFINE new == {keys[i] : i \in DOMAIN keys} \ DOMAIN map
           m == InsertAll(map, keys, values)
<1>1. m = [k \in DOMAIN map \cup new |->
              IF k \in DOMAIN map THEN map[k]
              ELSE values[CHOOSE i \in DOMAIN keys : keys[i] = k]]
  BY Zenon DEF InsertAll
<1>2. new = {keys[i] : i \in 1..n}
  BY Zenon
<1> HIDE DEF m, new
<1>3. DOMAIN m = DOMAIN map \cup new /\ m = [k \in DOMAIN m |-> m[k]]
  <2>1. DOMAIN m = DOMAIN map \cup new
    BY <1>1, Zenon
  <2>2. m = [k \in DOMAIN m |-> m[k]]
    BY <1>1
  <2> QED
    BY <2>1, <2>2
<1>4. \A k \in DOMAIN map : m[k] = map[k]
  BY <1>1, Zenon
<1>5. ASSUME NEW i \in 1..n PROVE m[keys[i]] = values[i]
  <2>1. keys[i] \in new /\ keys[i] \notin DOMAIN map
    BY <1>2, Zenon
  <2>2. m[keys[i]] = values[CHOOSE j \in DOMAIN keys : keys[j] = keys[i]]
    BY <1>1, <2>1, Zenon
  <2>3. PICK c : c = CHOOSE j \in DOMAIN keys : keys[j] = keys[i]
    OBVIOUS
  <2>4. c \in DOMAIN keys /\ keys[c] = keys[i]
    BY <2>3, Zenon
  <2>5. c = i
    BY <2>4, Zenon
  <2> QED
    BY <2>2, <2>3, <2>5, Zenon
<1> QED
  BY <1>2, <1>3, <1>4, <1>5, Zenon DEF m, Inserted

(* w is s with n more segments in flight.                                  *)
SameButFlight(s, w) ==
    /\ w.isn = s.isn /\ w.stream = s.stream /\ w.syn = s.syn /\ w.fin_sent = s.fin_sent
    /\ w.recv_wdn_sz = s.recv_wdn_sz /\ w.abs_ackno = s.abs_ackno

SentBatch(s, segments, n, w) ==
    /\ FlightOK(w) /\ SameButFlight(s, w)
    /\ w.next_seqno = s.next_seqno + (n - 1) * MaxPayload
                        + LengthInSequenceSpace(segments[n])
    /\ w.next_seqno - w.bytes_in_flight = s.next_seqno - s.bytes_in_flight
    /\ w.segments_out = s.segments_out \o Numbered(s, segments)
    /\ Range(w.outstanding) \subseteq Range(s.outstanding) \cup Range(Numbered(s, segments))

(* StartTimer touches nothing but the timer.                               *)
LEMMA StartTimerFrame ==
    ASSUME NEW s, FlightOK(s)
    PROVE  LET w == StartTimer(s)
           IN  /\ FlightOK(w) /\ SameButFlight(s, w)
               /\ w.next_seqno = s.next_seqno /\ w.bytes_in_flight = s.bytes_in_flight
               /\ w.segments_out = s.segments_out /\ w.outstanding = s.outstanding
<1> DEFINE w == [s EXCEPT !.elapsed_time = 0, !.rto = InitialRto, !.timer_on = TRUE]
<1>1. s = [f \in SenderFields |-> s[f]]
  BY DEF FlightOK
<1>2. /\ w = [f \in SenderFields |-> w[f]]
      /\ w.elapsed_time = 0 /\ w.rto = InitialRto
      /\ SameButFlight(s, w)
      /\ w.next_seqno = s.next_seqno /\ w.bytes_in_flight = s.bytes_in_flight
      /\ w.segments_out = s.segments_out /\ w.outstanding = s.outstanding
  BY <1>1, Zenon DEF SenderFields, SameButFlight
<1>3. InitialRto \in Nat /\ 0 \in Nat
  BY SenderAssumption
<1>4. StartTimer(s) = IF s.timer_on THEN s ELSE w
  BY Zenon DEF StartTimer
<1> HIDE DEF w
<1>5. FlightOK(w)
  BY <1>2, <1>3, Zenon DEF FlightOK
<1>6. SameButFlight(s, s)
  BY DEF SameButFlight
<1> QED
  BY <1>2, <1>4, <1>5, <1>6, Zenon

(* send_segment() for the segments of a batch (tcp_sender.cc:29): they are *)
(* queued and kept as outstanding, and what is outstanding stays without a *)
(* gap.                                                                    *)
LEMMA SendBatch ==
    ASSUME NEW s, FlightOK(s), NEW segments, NEW n, Batch(segments, n)
    PROVE  SentBatch(s, segments, n, SendSegments(s, segments))
<1> DEFINE numbered == Numbered(s, segments)
           first(i) == s.next_seqno + (i - 1) * MaxPayload
           ends == [i \in DOMAIN segments |-> first(i) + LengthInSequenceSpace(segments[i])]
           next == ends[Len(segments)]
           flight == s.bytes_in_flight + next - s.next_seqno
           map == InsertAll(s.outstanding, ends, numbered)
           queue == s.segments_out \o numbered
           sent == [s EXCEPT !.bytes_in_flight = flight, !.next_seqno = next,
                             !.segments_out = queue, !.outstanding = map]
<1>1. /\ n \in Nat \ {0} /\ DOMAIN segments = 1..n /\ Len(segments) = n
      /\ n \in 1..n /\ segments # <<>>
  BY DEF Batch
<1>2. SendSegments(s, segments) = StartTimer(sent)
  BY <1>1, Zenon DEF SendSegments, Numbered
<1>3. /\ s.next_seqno \in Nat /\ s.bytes_in_flight \in 0..s.next_seqno
      /\ s = [f \in SenderFields |-> s[f]]
      /\ Tiles(Lengths(s.outstanding), s.next_seqno - s.bytes_in_flight, s.next_seqno)
  BY DEF FlightOK
<1>4. PICK off : Offsets(off) /\ \A i \in Nat : off[i] = i * MaxPayload
  BY OffsetsExist
<1> DEFINE lens == [i \in 1..n |-> LengthInSequenceSpace(segments[i])]
<1>5. BatchEnds(segments, n, s.next_seqno, off, ends, lens)
  <2>1. DOMAIN ends = 1..n
    BY <1>1
  <2>2. ASSUME NEW i \in 1..n
        PROVE  /\ lens[i] = LengthInSequenceSpace(segments[i])
               /\ ends[i] = s.next_seqno + off[i - 1] + lens[i]
    <3>1. i - 1 \in Nat
      BY <1>1
    <3>2. off[i - 1] = (i - 1) * MaxPayload
      BY <1>4, <3>1
    <3> QED
      BY <1>1, <3>2, Zenon
  <2> QED
    BY <2>1, <2>2 DEF BatchEnds
<1>6. next = s.next_seqno + (n - 1) * MaxPayload + LengthInSequenceSpace(segments[n])
  BY <1>1, Zenon
<1>7. next = ends[n]
  BY <1>1
<1>8. DOMAIN ends = 1..n
  BY <1>1
<1>9. \A i \in 1..n : lens[i] = LengthInSequenceSpace(segments[i])
  OBVIOUS
<1> HIDE DEF ends, lens, numbered, next
<1>10. Chain(ends, lens, n, s.next_seqno)
  BY <1>3, <1>4, <1>5, BatchChain
<1>11. /\ \A i \in 1..n : /\ lens[i] \in Nat \ {0} /\ ends[i] \in Nat
                          /\ s.next_seqno <= ends[i] - lens[i] /\ ends[i] <= ends[n]
       /\ \A i, j \in 1..n : i < j => ends[i] <= ends[j] - lens[j]
  BY <1>10 DEF Chain
<1>12. \A i \in 1..n : ends[i] > s.next_seqno
  BY <1>3, <1>11
<1>13. \A i, j \in 1..n : ends[i] = ends[j] => i = j
  <2> SUFFICES ASSUME NEW i \in 1..n, NEW j \in 1..n, ends[i] = ends[j], i # j PROVE FALSE
    OBVIOUS
  <2>1. i < j \/ j < i
    BY <1>1
  <2> QED
    BY <1>11, <2>1
<1>14. DOMAIN s.outstanding \subseteq Nat /\ \A k \in DOMAIN s.outstanding : k <= s.next_seqno
  <2>1. DOMAIN Lengths(s.outstanding) = DOMAIN s.outstanding
    BY DEF Lengths
  <2> QED
    BY <1>3, <2>1, Zenon DEF Tiles
<1>15. \A i \in 1..n : ends[i] \notin DOMAIN s.outstanding
  <2> SUFFICES ASSUME NEW i \in 1..n, ends[i] \in DOMAIN s.outstanding PROVE FALSE
    OBVIOUS
  <2>1. ends[i] <= s.next_seqno /\ ends[i] > s.next_seqno /\ ends[i] \in Nat
    BY <1>11, <1>12, <1>14
  <2> QED
    BY <1>3, <2>1
<1>16. /\ map = [k \in DOMAIN map |-> map[k]]
       /\ DOMAIN map = DOMAIN s.outstanding \cup {ends[i] : i \in 1..n}
       /\ \A k \in DOMAIN s.outstanding : map[k] = s.outstanding[k]
       /\ \A i \in 1..n : map[ends[i]] = numbered[i]
  <2>1. n \in Nat
    BY <1>1
  <2>2. Inserted(s.outstanding, ends, numbered, n, map)
    BY <1>8, <1>13, <1>15, <2>1, InsertNew
  <2> QED
    BY <2>2, Zenon DEF Inserted
<1> HIDE DEF map, flight, queue
<1>17. Tiles(Lengths(map), s.next_seqno - s.bytes_in_flight, next)
  <2>1. /\ DOMAIN Lengths(map) = DOMAIN Lengths(s.outstanding) \cup {ends[i] : i \in 1..n}
        /\ \A k \in DOMAIN Lengths(s.outstanding) :
               Lengths(map)[k] = Lengths(s.outstanding)[k]
    BY <1>16, Zenon DEF Lengths
  <2>2. \A i \in 1..n : Lengths(map)[ends[i]] = lens[i]
    <3> SUFFICES ASSUME NEW i \in 1..n PROVE Lengths(map)[ends[i]] = lens[i]
      OBVIOUS
    <3>1. LengthInSequenceSpace(numbered[i]) = lens[i]
      BY <1>9, NumberedFields DEF numbered
    <3>2. ends[i] \in DOMAIN map /\ map[ends[i]] = numbered[i]
      BY <1>16
    <3> QED
      BY <3>1, <3>2, Zenon DEF Lengths
  <2> QED
    BY <1>3, <1>7, <1>10, <2>1, <2>2, TilesAdd
<1>18. /\ next \in Nat /\ next > s.next_seqno
       /\ flight \in 0..next /\ next - flight = s.next_seqno - s.bytes_in_flight
  <2>1. PICK a \in Nat, b \in Nat : a = s.next_seqno /\ b = s.bytes_in_flight /\ b <= a
    BY <1>3
  <2>2. PICK c \in Nat : c = next /\ c > a
    BY <1>1, <1>7, <1>11, <1>12, <2>1
  <2>3. flight = b + c - a
    BY <2>1, <2>2 DEF flight
  <2> QED
    BY <2>1, <2>2, <2>3
<1>19. /\ sent = [f \in SenderFields |-> sent[f]]
       /\ sent.next_seqno = next /\ sent.bytes_in_flight = flight
       /\ sent.segments_out = queue /\ sent.outstanding = map
       /\ sent.elapsed_time = s.elapsed_time /\ sent.rto = s.rto
       /\ SameButFlight(s, sent)
  BY <1>3, Zenon DEF SenderFields, SameButFlight
<1> HIDE DEF sent
<1>20. FlightOK(sent)
  BY <1>16, <1>17, <1>18, <1>19, Zenon DEF FlightOK
<1>21. Range(map) \subseteq Range(s.outstanding) \cup Range(numbered)
  <2>1. DOMAIN numbered = 1..n
    BY <1>1, Zenon DEF numbered, Numbered
  <2>2. ASSUME NEW k \in DOMAIN map
        PROVE  map[k] \in Range(s.outstanding) \cup Range(numbered)
    <3>1. CASE k \in DOMAIN s.outstanding
      BY <1>16, <3>1, Zenon DEF Range
    <3>2. ASSUME NEW i \in 1..n, k = ends[i]
          PROVE  map[k] \in Range(s.outstanding) \cup Range(numbered)
      <4>1. map[k] = numbered[i]
        BY <1>16, <3>2, Zenon
      <4> QED
        BY <2>1, <4>1, Zenon DEF Range
    <3> QED
      BY <1>16, <3>1, <3>2, Zenon
  <2> QED
    BY <2>2, Zenon DEF Range
<1> DEFINE w == StartTimer(sent)
<1>22. /\ FlightOK(w) /\ SameButFlight(sent, w)
       /\ w.next_seqno = next /\ w.bytes_in_flight = flight
       /\ w.segments_out = queue /\ w.outstanding = map
  BY <1>19, <1>20, StartTimerFrame
<1> HIDE DEF w
<1>23. SameButFlight(s, w)
  BY <1>19, <1>22, Zenon DEF SameButFlight
<1>24. SentBatch(s, segments, n, w)
  BY <1>6, <1>18, <1>21, <1>22, <1>23, Zenon DEF SentBatch, queue, numbered
<1> QED
  BY <1>2, <1>24 DEF w

-----------------------------------------------------------------------------
(* fill_window().                                                          *)

(* The first m bytes of the stream leave it.                               *)
Popped(st, m, w) ==
    /\ StreamOK(w) /\ w.total_read = st.total_read + m
    /\ w.total_written = st.total_written /\ w.input_ended = st.input_ended
    /\ w.cap = st.cap

(* m of the bytes of a stream fit into len.                                *)
CutsTo(st, len, m) ==
    /\ m \in Nat /\ m <= len /\ m <= st.total_written - st.total_read
    /\ m = len \/ m = st.total_written - st.total_read

(* pop_output() of a stream in order.                                      *)
LEMMA PopStream ==
    ASSUME NEW st, StreamOK(st), NEW len \in Nat, NEW m, CutsTo(st, len, m)
    PROVE  /\ Popped(st, m, PopOutput(st, len))
           /\ PeekOutput(st, len) = Substring(st.total_read, m)
           /\ BufferSize(st) = st.total_written - st.total_read
           /\ BufferSize(PopOutput(st, len)) = st.total_written - st.total_read - m
<1>1. PICK tr \in Nat, tw \in Nat, b \in Nat :
          tr = st.total_read /\ tw = st.total_written /\ b = tw - tr /\ tw = tr + b
  BY DEF StreamOK
<1>2. st.buf = Substring(tr, b)
  BY <1>1 DEF StreamOK
<1>3. BufferSize(st) = b
  <2>1. Len(Substring(tr, b)) = b
    BY SubstringSeq
  <2> QED
    BY <1>2, <2>1 DEF BufferSize
<1>4. m \in Nat /\ m = Least(len, b) /\ m <= b
  BY <1>1 DEF Least, CutsTo
<1>5. PeekOutput(st, len) = Substring(tr, m)
  <2>1. PeekOutput(st, len) = SubSeq(Substring(tr, b), 0 + 1, m)
    <3>1. PeekOutput(st, len) = SubSeq(Substring(tr, b), 1, m)
      BY <1>2, <1>3, <1>4, Zenon DEF PeekOutput, Take
    <3>2. 0 + 1 = 1
      OBVIOUS
    <3> QED
      BY <3>1, <3>2, Zenon
  <2>2. Inside(tr, b, 0, m)
    BY <1>4 DEF Inside
  <2>3. SubSeq(Substring(tr, b), 0 + 1, m) = Substring(tr + 0, m - 0)
    BY <2>2, SubstringInside
  <2>4. tr + 0 = tr /\ m - 0 = m
    BY <1>4
  <2> QED
    BY <2>1, <2>3, <2>4, Zenon
<1> DEFINE w == PopOutput(st, len)
           buf == Drop(st.buf, m)
<1>6. buf = Substring(tr + m, b - m) /\ tr + m \in Nat /\ b - m \in Nat
  <2>1. Drop(Substring(tr, b), m) = Substring(tr + m, b - m)
    BY <1>4, SubstringDrop, Zenon
  <2> QED
    BY <1>2, <1>4, <2>1
<1>7. w = [st EXCEPT !.buf = buf, !.total_read = st.total_read + m]
  BY <1>3, <1>4, Zenon DEF PopOutput
<1> HIDE DEF w, buf
<1>8. /\ w = [buf |-> buf, cap |-> st.cap, total_written |-> tw, total_read |-> tr + m,
              input_ended |-> st.input_ended, error |-> st.error]
  BY <1>1, <1>7, Zenon DEF StreamOK
<1>9. /\ w.buf = buf /\ w.cap = st.cap /\ w.total_written = tw /\ w.total_read = tr + m
      /\ w.input_ended = st.input_ended
      /\ w = [buf |-> w.buf, cap |-> w.cap, total_written |-> w.total_written,
              total_read |-> w.total_read, input_ended |-> w.input_ended,
              error |-> w.error]
  BY <1>8
<1>10. st.cap \in Nat /\ st.input_ended \in BOOLEAN
  BY DEF StreamOK
<1>11. tw - (tr + m) = b - m /\ tr + m <= tw
  BY <1>1, <1>4
<1>12. StreamOK(w)
  BY <1>1, <1>6, <1>9, <1>10, <1>11, Zenon DEF StreamOK
<1>13. Popped(st, m, w)
  BY <1>1, <1>9, <1>12 DEF Popped
<1>14. BufferSize(w) = b - m
  BY <1>6, <1>9, SubstringSeq DEF BufferSize
<1> QED
  BY <1>1, <1>3, <1>5, <1>13, <1>14, Zenon DEF w

(* The number of segments that m bytes fill.                               *)
LEMMA CutCount ==
    ASSUME NEW off, Offsets(off), \A i \in Nat : off[i] = i * MaxPayload,
           NEW m \in Nat \ {0}, NEW n, n = (m + MaxPayload - 1) \div MaxPayload
    PROVE  n \in Nat \ {0} /\ off[n - 1] < m /\ m <= off[n] /\ off[n] = off[n - 1] + MaxPayload
<1>1. PICK p \in Nat : p = MaxPayload /\ p > 0
  BY SenderAssumption
<1>2. PICK a \in Nat : a = m + p - 1
  BY <1>1
<1>3. PICK q \in Int, r \in Nat : q = a \div p /\ r < p /\ a = p * q + r
  BY <1>1, <1>2, Quotient, Remainder
<1>4. n = q
  BY <1>1, <1>2, <1>3
<1>5. q <= 0 => p * q <= 0
  BY <1>1, <1>3
<1>6. PICK t \in Int : t = p * q
  BY <1>1, <1>3
<1>7. q > 0
  BY <1>1, <1>2, <1>3, <1>5, <1>6
<1>8. q \in Nat \ {0} /\ q - 1 \in Nat /\ q - 1 + 1 = q
  BY <1>3, <1>7
<1>9. off[q] = q * MaxPayload /\ off[q - 1] \in Nat
  BY <1>8 DEF Offsets
<1>10. q * MaxPayload = t
  BY <1>1, <1>3, <1>6
<1>11. off[q] = off[q - 1] + p
  <2>1. off[(q - 1) + 1] = off[q - 1] + MaxPayload
    BY <1>8, Zenon DEF Offsets
  <2> QED
    BY <1>1, <1>8, <2>1
<1>12. t <= m + p - 1 /\ m + p - 1 < t + p
  BY <1>1, <1>2, <1>3, <1>6
<1>13. PICK o \in Nat : o = off[q - 1]
  BY <1>9
<1>14. o + p = t
  BY <1>9, <1>10, <1>11, <1>13
<1> QED
  BY <1>1, <1>4, <1>8, <1>9, <1>10, <1>11, <1>12, <1>13, <1>14

(* When the FIN goes out.                                                  *)
LEMMA FinFitsMeaning ==
    ASSUME NEW s, StreamOK(s.stream), s.recv_wdn_sz \in Nat, s.fin_sent \in BOOLEAN,
           s.fin_sent => s.stream.total_read = s.stream.total_written,
           NEW m, CutsTo(s.stream, s.recv_wdn_sz, m)
    PROVE  /\ FinFits(s) \in BOOLEAN
           /\ FinFits(s) <=>
                 /\ s.stream.input_ended /\ ~s.fin_sent
                 /\ s.stream.total_written - s.stream.total_read < s.recv_wdn_sz
           /\ FinFits(s) => m = s.stream.total_written - s.stream.total_read
<1>1. PICK b \in Nat, rw \in Nat :
          /\ b = s.stream.total_written - s.stream.total_read /\ rw = s.recv_wdn_sz
          /\ s.fin_sent => b = 0
  BY DEF StreamOK
<1>2. m \in Nat /\ m <= b /\ m <= rw /\ (m = rw \/ m = b)
  BY <1>1 DEF CutsTo
<1>3. /\ BufferSize(s.stream) = b
      /\ BufferSize(PopOutput(s.stream, rw)) = b - m
      /\ PopOutput(s.stream, rw).input_ended = s.stream.input_ended
  BY <1>1, PopStream DEF Popped
<1>4. FinFits(s) <=> /\ s.stream.input_ended /\ b - m = 0
                     /\ rw > b /\ (b = 0 => ~s.fin_sent)
  BY <1>1, <1>3, Zenon DEF FinFits, Eof
<1>5. FinFits(s) \in BOOLEAN
  BY DEF FinFits, Eof
<1> QED
  BY <1>1, <1>2, <1>4, <1>5

(* The next m bytes of a stream, and the FIN behind them or not, as n      *)
(* segments.                                                               *)
CutAt(st, segments, n, m, fin, off) ==
    /\ Batch(segments, n)
    /\ off[n - 1] + LengthInSequenceSpace(segments[n]) = m + (IF fin THEN 1 ELSE 0)
    /\ \A i \in 1..n :
           /\ segments[i].syn = FALSE /\ segments[i].fin = (fin /\ i = n)
           /\ \E len \in Nat :
                 /\ segments[i].payload = Substring(st.total_read + off[i - 1], len)
                 /\ off[i - 1] + len <= m /\ (off[i - 1] + len = m <=> i = n)

(* The ends of the segments that m bytes, and the FIN or not, take.        *)
LEMMA CutEnds ==
    ASSUME NEW off, Offsets(off), \A i \in Nat : off[i] = i * MaxPayload,
           NEW m \in Nat, NEW fin \in BOOLEAN, m > 0 \/ fin
    PROVE  LET n == IF m = 0 /\ fin THEN 1 ELSE (m + MaxPayload - 1) \div MaxPayload
           IN  /\ n \in Nat \ {0} /\ m <= off[n] /\ off[n - 1] <= m
               /\ m > 0 => off[n - 1] < m
               /\ \A i \in 1..n : /\ off[i - 1] \in Nat /\ off[i] = off[i - 1] + MaxPayload
                                  /\ i < n => off[i] < m
<1> DEFINE n == IF m = 0 /\ fin THEN 1 ELSE (m + MaxPayload - 1) \div MaxPayload
<1>1. MaxPayload \in Nat \ {0} /\ off \in [Nat -> Nat] /\ off[0] = 0
  BY SenderAssumption, Zenon DEF Offsets
<1>2. /\ n \in Nat \ {0} /\ m <= off[n] /\ off[n - 1] <= m
      /\ m > 0 => off[n - 1] < m
  <2>1. CASE m = 0
    <3>1. n = 1
      BY <2>1
    <3>2. off[1] \in Nat /\ 1 - 1 = 0
      BY <1>1
    <3> QED
      BY <1>1, <2>1, <3>1, <3>2
  <2>2. CASE m > 0
    <3>1. n = (m + MaxPayload - 1) \div MaxPayload
      BY <2>2
    <3>2. PICK k : k = (m + MaxPayload - 1) \div MaxPayload
      OBVIOUS
    <3>3. k \in Nat \ {0} /\ off[k - 1] < m /\ m <= off[k]
      BY <2>2, <3>2, CutCount
    <3>4. k - 1 \in Nat /\ off[k - 1] \in Nat
      BY <1>1, <3>3
    <3>5. n = k
      BY <3>1, <3>2
    <3> HIDE DEF n
    <3> QED
      BY <2>2, <3>3, <3>4, <3>5
  <2> QED
    BY <2>1, <2>2
<1> HIDE DEF n
<1>3. ASSUME NEW i \in 1..n
      PROVE  /\ off[i - 1] \in Nat /\ off[i] = off[i - 1] + MaxPayload
             /\ i < n => off[i] < m
  <2>1. i \in Nat /\ i - 1 \in Nat /\ i - 1 + 1 = i /\ n - 1 \in Nat
    BY <1>2
  <2>2. off[i - 1 + 1] = off[i - 1] + MaxPayload
    BY <2>1, Zenon DEF Offsets
  <2>3. ASSUME i < n PROVE off[i] < m
    <3>1. i = n - 1 \/ i < n - 1
      BY <1>2, <2>1, <2>3
    <3>2. m > 0
      <4> SUFFICES ASSUME m = 0 PROVE FALSE
        OBVIOUS
      <4>1. n = 1
        BY DEF n
      <4> QED
        BY <2>3, <4>1
    <3>3. i < n - 1 => off[i] + MaxPayload <= off[n - 1]
      BY <2>1, Zenon DEF Offsets
    <3>4. off[i] \in Nat /\ off[n - 1] \in Nat /\ off[n - 1] < m
      BY <1>1, <1>2, <2>1, <3>2
    <3> QED
      BY <1>1, <3>1, <3>3, <3>4
  <2>4. off[i - 1] \in Nat
    BY <1>1, <2>1
  <2> QED
    BY <2>1, <2>2, <2>3, <2>4
<1> QED
  BY <1>2, <1>3 DEF n

(* One of the segments fill_window() cuts.                                 *)
LEMMA OneSegment ==
    ASSUME NEW seg, NEW fin \in BOOLEAN, NEW payload,
           seg = [EmptySegment EXCEPT !.fin = fin, !.payload = payload]
    PROVE  /\ seg = [f \in SegmentFields |-> seg[f]]
           /\ seg.syn = FALSE /\ seg.fin = fin /\ seg.payload = payload
BY Zenon DEF EmptySegment, SegmentFields

(* The length of a segment without a SYN.                                  *)
LEMMA LengthOf ==
    ASSUME NEW seg, seg.syn = FALSE, seg.fin \in BOOLEAN,
           NEW i \in Nat, NEW len \in Nat, seg.payload = Substring(i, len)
    PROVE  LengthInSequenceSpace(seg) = len + (IF seg.fin THEN 1 ELSE 0)
<1>1. Len(seg.payload) = len
  BY SubstringSeq
<1>2. PICK e \in {0, 1} : e = IF seg.fin THEN 1 ELSE 0
  BY Zenon
<1>3. LengthInSequenceSpace(seg) = len + 0 + e
  BY <1>1, <1>2, Zenon DEF LengthInSequenceSpace
<1> QED
  BY <1>2, <1>3

(* The loop of fill_window() (tcp_sender.cc:64) cuts the bytes that fit    *)
(* the window into segments that follow one another, all of them full but  *)
(* the last one.                                                           *)
LEMMA WindowSegmentsCut ==
    ASSUME NEW s, StreamOK(s.stream), s.recv_wdn_sz \in Nat,
           NEW m, CutsTo(s.stream, s.recv_wdn_sz, m), FinFits(s) \in BOOLEAN,
           NEW off, Offsets(off), \A i \in Nat : off[i] = i * MaxPayload
    PROVE  IF m = 0 /\ ~FinFits(s) THEN WindowSegments(s) = <<>>
           ELSE \E n : CutAt(s.stream, WindowSegments(s), n, m, FinFits(s), off)
<1>1. PICK fin \in BOOLEAN : fin = FinFits(s)
  OBVIOUS
<1>2. PICK tr \in Nat : tr = s.stream.total_read
  BY DEF StreamOK
<1>3. m \in Nat
  BY DEF CutsTo
<1>4. PICK data : data = PeekOutput(s.stream, s.recv_wdn_sz)
  OBVIOUS
<1>5. data = Substring(tr, m)
  BY <1>2, <1>4, PopStream
<1>6. Len(data) = m /\ (data = <<>> <=> m = 0)
  BY <1>2, <1>3, <1>5, SubstringSeq, Zenon
<1> DEFINE n == IF m = 0 /\ fin THEN 1 ELSE (m + MaxPayload - 1) \div MaxPayload
           payload(i) == SubSeq(data, (i - 1) * MaxPayload + 1, Least(i * MaxPayload, m))
           segments == WindowSegments(s)
<1>7. segments = [i \in 1..n |-> [EmptySegment EXCEPT !.fin = fin /\ i = n,
                                                      !.payload = payload(i)]]
  BY <1>1, <1>4, <1>6, Zenon DEF WindowSegments
<1>8. CASE m = 0 /\ ~fin
  <2>1. PICK p \in Nat : p = MaxPayload /\ p > 0
    BY SenderAssumption
  <2>2. (p - 1) \div p = 0
    BY <2>1
  <2>3. n = 0
    BY <1>8, <2>1, <2>2
  <2> HIDE DEF n, payload
  <2>4. segments = <<>>
    BY <1>7, <2>3
  <2> QED
    BY <1>1, <1>8, <2>4
<1>9. CASE m > 0 \/ fin
  <2>1. /\ n \in Nat \ {0} /\ m <= off[n] /\ off[n - 1] <= m
        /\ m > 0 => off[n - 1] < m
        /\ \A i \in 1..n : /\ off[i - 1] \in Nat /\ off[i] = off[i - 1] + MaxPayload
                           /\ i < n => off[i] < m
    BY <1>3, <1>9, CutEnds
  <2> HIDE DEF n
  <2>2. MaxPayload \in Nat \ {0}
    BY SenderAssumption
  <2>3. ASSUME NEW i \in 1..n
        PROVE  \E len \in Nat : /\ payload(i) = Substring(tr + off[i - 1], len)
                                /\ off[i - 1] + len = IF i = n THEN m ELSE off[i]
    <3>1. PICK a \in Nat, b \in Nat :
              a = off[i - 1] /\ b = off[i] /\ b = a + MaxPayload
      <4>1. PICK a \in Nat : a = off[i - 1]
        BY <2>1
      <4>2. off[i] = a + MaxPayload
        BY <2>1, <4>1
      <4>3. a + MaxPayload \in Nat
        BY <2>2
      <4> QED
        BY <4>1, <4>2, <4>3
    <3>2. /\ (i - 1) * MaxPayload = a /\ i * MaxPayload = b
      <4>1. i - 1 \in Nat /\ i \in Nat
        BY <2>1
      <4> QED
        BY <3>1, <4>1, Zenon
    <3>3. PICK hi \in Nat : hi = Least(b, m)
      BY <1>3, <3>1 DEF Least
    <3>4. hi = (IF i = n THEN m ELSE off[i]) /\ a <= hi /\ hi <= m
      <4>1. CASE i = n
        BY <1>3, <2>1, <3>1, <3>3, <4>1 DEF Least
      <4>2. CASE i # n
        <5>1. i < n
          BY <2>1, <4>2
        <5>2. b < m
          BY <2>1, <3>1, <5>1, Zenon
        <5> QED
          BY <1>3, <2>2, <3>1, <3>3, <4>2, <5>2 DEF Least
      <4> QED
        BY <4>1, <4>2
    <3>5. payload(i) = SubSeq(Substring(tr, m), a + 1, hi)
      BY <1>5, <3>2, <3>3, Zenon
    <3>6. Inside(tr, m, a, hi)
      BY <1>3, <3>4 DEF Inside
    <3>7. payload(i) = Substring(tr + a, hi - a)
      <4>1. SubSeq(Substring(tr, m), a + 1, hi) = Substring(tr + a, hi - a)
        BY <3>6, SubstringInside
      <4> QED
        BY <3>5, <4>1, Zenon
    <3>8. hi - a \in Nat /\ a + (hi - a) = hi
      BY <3>4
    <3> HIDE DEF payload
    <3> QED
      BY <3>1, <3>4, <3>7, <3>8, Zenon
  <2>4. ASSUME NEW i \in 1..n
        PROVE  /\ segments[i] = [f \in SegmentFields |-> segments[i][f]]
               /\ segments[i].syn = FALSE /\ segments[i].fin = (fin /\ i = n)
               /\ segments[i].payload = payload(i)
    <3>1. segments[i] = [EmptySegment EXCEPT !.fin = fin /\ i = n, !.payload = payload(i)]
      BY <1>7, Zenon
    <3>2. (fin /\ i = n) \in BOOLEAN
      OBVIOUS
    <3> HIDE DEF segments, payload
    <3> QED
      BY <3>1, <3>2, OneSegment, Zenon
  <2> HIDE DEF segments, payload
  <2>5. ASSUME NEW i \in 1..n
        PROVE  /\ segments[i].syn = FALSE /\ segments[i].fin = (fin /\ i = n)
               /\ \E len \in Nat :
                     /\ segments[i].payload = Substring(tr + off[i - 1], len)
                     /\ off[i - 1] + len = (IF i = n THEN m ELSE off[i])
                     /\ off[i - 1] + len <= m /\ (off[i - 1] + len = m <=> i = n)
                     /\ LengthInSequenceSpace(segments[i])
                            = len + (IF fin /\ i = n THEN 1 ELSE 0)
    <3>1. PICK len \in Nat : /\ payload(i) = Substring(tr + off[i - 1], len)
                             /\ off[i - 1] + len = IF i = n THEN m ELSE off[i]
      BY <2>3
    <3>2. tr + off[i - 1] \in Nat
      BY <2>1
    <3>3. LengthInSequenceSpace(segments[i]) = len + (IF segments[i].fin THEN 1 ELSE 0)
      <4>1. /\ segments[i].syn = FALSE /\ segments[i].fin \in BOOLEAN
            /\ segments[i].payload = Substring(tr + off[i - 1], len)
        BY <2>4, <3>1, Zenon
      <4> QED
        BY <3>2, <4>1, LengthOf, Zenon
    <3>4. off[i - 1] + len <= m /\ (off[i - 1] + len = m <=> i = n)
      <4>1. CASE i = n
        BY <1>3, <3>1, <4>1
      <4>2. CASE i # n
        <5>1. i < n /\ off[i] \in Nat
          BY <2>1, <2>2, <4>2
        <5> QED
          BY <1>3, <2>1, <3>1, <4>2, <5>1
      <4> QED
        BY <4>1, <4>2
    <3>5. LengthInSequenceSpace(segments[i]) = len + (IF fin /\ i = n THEN 1 ELSE 0)
      BY <2>4, <3>3, Zenon
    <3> QED
      BY <2>4, <3>1, <3>4, <3>5, Zenon
  <2>6. ASSUME NEW i \in 1..n
        PROVE  /\ LengthInSequenceSpace(segments[i]) \in Nat \ {0}
               /\ i < n => LengthInSequenceSpace(segments[i]) = MaxPayload
    <3>1. PICK len \in Nat :
              /\ off[i - 1] + len = (IF i = n THEN m ELSE off[i])
              /\ LengthInSequenceSpace(segments[i])
                     = len + (IF fin /\ i = n THEN 1 ELSE 0)
      BY <2>5, Zenon
    <3>2. off[i - 1] \in Nat /\ off[i] = off[i - 1] + MaxPayload
      BY <2>1
    <3>3. CASE i = n
      <4>1. off[n - 1] \in Nat /\ off[n - 1] + len = m
        BY <3>1, <3>2, <3>3
      <4>2. len > 0 \/ fin
        BY <1>3, <1>9, <2>1, <4>1
      <4> QED
        BY <2>1, <3>1, <3>3, <4>2
    <3>4. CASE i # n
      <4>1. len = MaxPayload
        BY <2>2, <3>1, <3>2, <3>4
      <4>2. LengthInSequenceSpace(segments[i]) = len
        BY <3>1, <3>4
      <4> QED
        BY <2>2, <4>1, <4>2
    <3> QED
      BY <3>3, <3>4
  <2>7. segments = [i \in 1..n |-> segments[i]]
    BY <1>7, Zenon
  <2>8. Batch(segments, n)
    BY <2>1, <2>4, <2>6, <2>7, Zenon DEF Batch
  <2>9. off[n - 1] + LengthInSequenceSpace(segments[n]) = m + (IF fin THEN 1 ELSE 0)
    <3>1. n \in 1..n
      BY <2>1
    <3>2. PICK len \in Nat :
              /\ off[n - 1] + len = m
              /\ LengthInSequenceSpace(segments[n]) = len + (IF fin THEN 1 ELSE 0)
      BY <2>5, <3>1, Zenon
    <3>3. off[n - 1] \in Nat
      BY <2>1, <3>1
    <3>4. PICK e \in Nat : e = IF fin THEN 1 ELSE 0
      OBVIOUS
    <3> QED
      BY <3>2, <3>3, <3>4
  <2>10. CutAt(s.stream, segments, n, m, fin, off)
    BY <1>2, <2>5, <2>8, <2>9, Zenon DEF CutAt
  <2> QED
    BY <1>1, <1>9, <2>10 DEF segments
<1> QED
  BY <1>3, <1>8, <1>9

(* One of the segments that carry the next m bytes, and the FIN or not.    *)
Carried(s, seg, m, fin) ==
    \E a, len \in Nat :
        /\ seg.seqno = Wrap(s.next_seqno + a, s.isn) /\ seg.syn = FALSE
        /\ seg.payload = Substring(s.stream.total_read + a, len)
        /\ m > 0 \/ fin
        /\ a + len <= m /\ seg.fin = (fin /\ a + len = m)

(* w is s after it has sent m bytes, and the FIN or not.                   *)
Filled(s, m, fin, w) ==
    LET e == IF fin THEN 1 ELSE 0
    IN  /\ FlightOK(w)
        /\ w.isn = s.isn /\ w.syn = s.syn /\ w.abs_ackno = s.abs_ackno
        /\ Popped(s.stream, m, w.stream) /\ w.fin_sent = (s.fin_sent \/ fin)
        /\ w.recv_wdn_sz = s.recv_wdn_sz - m - e
        /\ w.next_seqno = s.next_seqno + m + e
        /\ w.next_seqno - w.bytes_in_flight = s.next_seqno - s.bytes_in_flight
        /\ Range(w.outstanding) \subseteq Range(s.outstanding) \cup Range(w.segments_out)
        /\ \A seg \in Range(w.segments_out) : Carried(s, seg, m, fin)

(* fill_window() after the handshake sends what the window takes.          *)
LEMMA FillSends ==
    ASSUME NEW s, FlightOK(s), StreamOK(s.stream), s.recv_wdn_sz \in Nat,
           s.segments_out = <<>>, s.syn = TRUE,
           NEW m, CutsTo(s.stream, s.recv_wdn_sz, m), FinFits(s) \in BOOLEAN,
           s.fin_sent \in BOOLEAN
    PROVE  Filled(s, m, FinFits(s), FillWindow(s))
<1>1. PICK fin \in BOOLEAN : fin = FinFits(s)
  OBVIOUS
<1>2. PICK e \in {0, 1} : e = IF fin THEN 1 ELSE 0
  BY Zenon
<1>3. m \in Nat
  BY DEF CutsTo
<1> DEFINE data == PeekOutput(s.stream, s.recv_wdn_sz)
           left == s.recv_wdn_sz - Len(data)
           stream == PopOutput(s.stream, Len(data))
           window == IF FinFits(s) THEN left - 1 ELSE left
           sent == s.fin_sent \/ FinFits(s)
           filled == [s EXCEPT !.stream = stream, !.recv_wdn_sz = window, !.fin_sent = sent]
           segments == WindowSegments(s)
           w == FillWindow(s)
<1>4. w = SendSegments(filled, segments)
  BY Zenon DEF FillWindow
<1>5. Len(data) = m
  <2>1. data = Substring(s.stream.total_read, m)
    BY PopStream
  <2>2. s.stream.total_read \in Nat
    BY DEF StreamOK
  <2> QED
    BY <1>3, <2>1, <2>2, SubstringSeq, Zenon
<1>6. Popped(s.stream, m, stream)
  <2>1. CutsTo(s.stream, m, m)
    BY DEF CutsTo
  <2>2. Popped(s.stream, m, PopOutput(s.stream, m))
    BY <1>3, <2>1, PopStream
  <2> QED
    BY <1>5, <2>2, Zenon
<1>7. window = s.recv_wdn_sz - m - e
  <2>1. CASE fin
    BY <1>1, <1>2, <1>3, <1>5, <2>1
  <2>2. CASE ~fin
    BY <1>1, <1>2, <1>3, <1>5, <2>2
  <2> QED
    BY <2>1, <2>2
<1>8. sent = (s.fin_sent \/ fin)
  BY <1>1
<1> HIDE DEF stream, window, sent, segments, w, data
<1>9. /\ filled = [f \in SenderFields |-> filled[f]]
      /\ filled.stream = stream /\ filled.recv_wdn_sz = window /\ filled.fin_sent = sent
      /\ filled.isn = s.isn /\ filled.segments_out = s.segments_out
      /\ filled.next_seqno = s.next_seqno /\ filled.outstanding = s.outstanding
      /\ filled.bytes_in_flight = s.bytes_in_flight /\ filled.syn = s.syn
      /\ filled.abs_ackno = s.abs_ackno
      /\ filled.elapsed_time = s.elapsed_time /\ filled.rto = s.rto
  BY Zenon DEF FlightOK, SenderFields
<1> HIDE DEF filled
<1>10. FlightOK(filled)
  BY <1>9, Zenon DEF FlightOK
<1>11. PICK off : Offsets(off) /\ \A i \in Nat : off[i] = i * MaxPayload
  BY OffsetsExist
<1>12. PICK next \in Nat : next = s.next_seqno
  BY DEF FlightOK
<1>13. IF m = 0 /\ ~fin THEN segments = <<>>
       ELSE \E n : CutAt(s.stream, segments, n, m, fin, off)
  BY <1>1, <1>11, WindowSegmentsCut, Zenon DEF segments
<1>14. CASE m = 0 /\ ~fin
  <2>1. w = filled
    BY <1>4, <1>13, <1>14, Zenon DEF SendSegments
  <2>2. w.next_seqno = s.next_seqno + m + e
    BY <1>2, <1>9, <1>12, <1>14, <2>1
  <2>3. Range(w.segments_out) = {}
    BY <1>9, <2>1 DEF Range
  <2>4. Filled(s, m, fin, w)
    BY <1>2, <1>6, <1>7, <1>8, <1>9, <1>10, <2>1, <2>2, <2>3, Zenon DEF Filled
  <2> QED
    BY <1>1, <2>4 DEF w
<1>15. CASE ~(m = 0 /\ ~fin)
  <2>1. PICK n : CutAt(s.stream, segments, n, m, fin, off)
    BY <1>13, <1>15
  <2>2. /\ Batch(segments, n)
        /\ off[n - 1] + LengthInSequenceSpace(segments[n]) = m + e
    BY <1>2, <2>1, Zenon DEF CutAt
  <2>3. SentBatch(filled, segments, n, w)
    BY <1>4, <1>10, <2>2, SendBatch
  <2>4. /\ n \in Nat \ {0} /\ DOMAIN segments = 1..n
        /\ LengthInSequenceSpace(segments[n]) \in Nat
    BY <2>2 DEF Batch
  <2>5. ASSUME NEW i \in 1..n PROVE i - 1 \in Nat /\ off[i - 1] = (i - 1) * MaxPayload
                                    /\ off[i - 1] \in Nat
    <3>1. i - 1 \in Nat
      BY <2>4
    <3> QED
      BY <1>11, <3>1, Zenon DEF Offsets
  <2>6. w.next_seqno = s.next_seqno + m + e
    <3>1. n \in 1..n
      BY <2>4
    <3>2. PICK o \in Nat : o = off[n - 1] /\ o = (n - 1) * MaxPayload
      BY <2>5, <3>1
    <3>3. PICK l \in Nat : l = LengthInSequenceSpace(segments[n])
      BY <2>4
    <3>4. w.next_seqno = next + o + l
      BY <1>9, <1>12, <2>3, <3>2, <3>3, Zenon DEF SentBatch
    <3>5. o + l = m + e
      BY <2>2, <3>2, <3>3, Zenon
    <3>6. next + o + l = next + m + e
      BY <1>3, <3>5
    <3> QED
      BY <1>12, <3>4, <3>6, Zenon
  <2>7. w.segments_out = Numbered(filled, segments)
    <3> DEFINE q == Numbered(filled, segments)
    <3>1. w.segments_out = <<>> \o q
      BY <1>9, <2>3 DEF SentBatch
    <3>2. q = [i \in 1..n |-> q[i]]
      BY <2>4 DEF Numbered
    <3> HIDE DEF q
    <3>3. q \in Seq({q[i] : i \in 1..n})
      BY <2>4, <3>2
    <3>4. <<>> \o q = q
      BY <3>3, ConcatEmptySeq
    <3> QED
      BY <3>1, <3>4 DEF q
  <2>8. ASSUME NEW seg \in Range(w.segments_out) PROVE Carried(s, seg, m, fin)
    <3>1. PICK i \in 1..n : seg = Numbered(filled, segments)[i]
      BY <2>4, <2>7 DEF Range, Numbered
    <3>2. /\ seg.seqno = Wrap(filled.next_seqno + (i - 1) * MaxPayload, filled.isn)
          /\ seg.syn = segments[i].syn /\ seg.fin = segments[i].fin
          /\ seg.payload = segments[i].payload
      BY <2>2, <3>1, NumberedFields
    <3>3. PICK a \in Nat : a = off[i - 1] /\ a = (i - 1) * MaxPayload
      BY <2>5
    <3>4. /\ segments[i].syn = FALSE /\ segments[i].fin = (fin /\ i = n)
          /\ \E len \in Nat : /\ segments[i].payload = Substring(s.stream.total_read + a, len)
                              /\ a + len <= m /\ (a + len = m <=> i = n)
      BY <2>1, <3>3, Zenon DEF CutAt
    <3>5. seg.seqno = Wrap(s.next_seqno + a, s.isn)
      BY <1>9, <3>2, <3>3, Zenon
    <3>6. m > 0 \/ fin
      BY <1>3, <1>15
    <3> QED
      BY <3>2, <3>4, <3>5, <3>6, Zenon DEF Carried
  <2>9. SameButFlight(filled, w) /\ FlightOK(w)
        /\ w.next_seqno - w.bytes_in_flight = filled.next_seqno - filled.bytes_in_flight
        /\ Range(w.outstanding) \subseteq Range(filled.outstanding)
                                              \cup Range(Numbered(filled, segments))
    BY <2>3 DEF SentBatch
  <2>10. /\ w.isn = s.isn /\ w.syn = s.syn /\ w.abs_ackno = s.abs_ackno
         /\ w.stream = stream /\ w.fin_sent = sent /\ w.recv_wdn_sz = window
    BY <1>9, <2>9 DEF SameButFlight
  <2>11. Filled(s, m, fin, w)
    BY <1>2, <1>6, <1>7, <1>8, <1>9, <2>6, <2>7, <2>8, <2>9, <2>10, Zenon DEF Filled
  <2> QED
    BY <1>1, <2>11 DEF w
<1> QED
  BY <1>14, <1>15

-----------------------------------------------------------------------------
(* A call of the sender.                                                   *)

(* w comes after s: no number is used twice.                               *)
Onward(s, w) ==
    /\ w.isn = s.isn /\ (s.syn => w.syn)
    /\ s.stream.total_read <= w.stream.total_read
    /\ s.stream.total_written <= w.stream.total_written
    /\ s.fin_sent => w.fin_sent /\ w.stream.total_written = s.stream.total_written

(* The segments in the queue of w are new, not sent again: the FIN was not *)
(* sent before and, if it comes with data, comes with the last byte.       *)
Fresh(s, w) ==
    LET queue == Range(w.segments_out)
    IN  /\ ~s.fin_sent
        /\ FinWithData(queue) =>
              /\ s.stream.total_read < w.stream.total_written
              /\ \A seg \in queue : HoldsLast(seg, w.stream.total_written) => seg.fin

Goes(s, w) ==
    /\ SenderOK(w) /\ Onward(s, w)
    /\ \A seg \in Range(w.segments_out) : Issued(w, seg)
    /\ Range(w.outstanding) \subseteq Range(s.outstanding) \cup Range(w.segments_out)
    /\ Range(w.segments_out) \subseteq Range(s.outstanding) \/ Fresh(s, w)

(* What was sent stays sent.                                               *)
LEMMA IssuedStays ==
    ASSUME NEW s, NEW w, Onward(s, w), StreamOK(s.stream), StreamOK(w.stream),
           NEW seg, Issued(s, seg)
    PROVE  Issued(w, seg)
<1>1. PICK abs \in Nat, len \in Nat, syn \in BOOLEAN, fin \in BOOLEAN :
          IssuedAt(s, seg, abs, len, syn, fin)
  BY DEF Issued
<1>2. PICK tr \in Nat, ntr \in Nat :
          tr = s.stream.total_read /\ ntr = w.stream.total_read /\ tr <= ntr
  BY DEF StreamOK, Onward
<1>3. SegmentAt(seg, w.isn, abs, len, syn, fin) /\ w.syn
  BY <1>1 DEF IssuedAt, Onward
<1>4. IF syn THEN len = 0 /\ ~fin ELSE abs > 0 /\ abs - 1 + len <= ntr
  <2>1. IF syn THEN len = 0 /\ ~fin ELSE abs > 0 /\ abs - 1 + len <= tr
    BY <1>1, <1>2 DEF IssuedAt
  <2> QED
    BY <1>2, <2>1
<1>5. fin => w.fin_sent /\ abs - 1 + len = w.stream.total_written
  BY <1>1 DEF IssuedAt, Onward
<1>6. IssuedAt(w, seg, abs, len, syn, fin)
  BY <1>2, <1>3, <1>4, <1>5, Zenon DEF IssuedAt
<1> QED
  BY <1>1, <1>6 DEF Issued

(* The quantities of a sender.                                             *)
LEMMA SenderNumbers ==
    ASSUME NEW s, SenderOK(s)
    PROVE  /\ s.next_seqno \in Nat /\ s.bytes_in_flight \in Nat
           /\ s.bytes_in_flight <= s.next_seqno /\ s.recv_wdn_sz \in Nat
           /\ s.stream.total_read \in Nat /\ s.stream.total_written \in Nat
           /\ s.stream.total_read <= s.stream.total_written
           /\ s.stream.total_written < Word /\ Word \in Nat
           /\ s.recv_wdn_sz <= MaxWindow
<1>1. /\ FlightOK(s) /\ StreamOK(s.stream) /\ s.stream.total_written < Word
      /\ s.recv_wdn_sz \in 0..MaxWindow
  BY DEF SenderOK
<1>2. s.next_seqno \in Nat /\ s.bytes_in_flight \in 0..s.next_seqno
  BY <1>1 DEF FlightOK
<1>3. /\ s.stream.total_read \in Nat /\ s.stream.total_written \in Nat
      /\ s.stream.total_read <= s.stream.total_written
  BY <1>1 DEF StreamOK
<1>4. MaxWindow \in Nat /\ Word \in Nat
  BY WordAssumption DEF MaxWindow
<1> QED
  BY <1>1, <1>2, <1>3, <1>4

(* What the window takes is sent, in order.                                *)
LEMMA FilledGoes ==
    ASSUME NEW s, SenderOK(s), s.syn = TRUE, NEW m, NEW fin \in BOOLEAN, NEW w,
           CutsTo(s.stream, s.recv_wdn_sz, m), Filled(s, m, fin, w),
           fin => /\ s.stream.input_ended /\ ~s.fin_sent
                  /\ m = s.stream.total_written - s.stream.total_read
                  /\ m < s.recv_wdn_sz
    PROVE  /\ Goes(s, w) /\ w.abs_ackno = s.abs_ackno
           /\ w.stream.total_written = s.stream.total_written
           /\ w.next_seqno - w.bytes_in_flight = s.next_seqno - s.bytes_in_flight
           /\ w.next_seqno + w.recv_wdn_sz = s.next_seqno + s.recv_wdn_sz
<1>1. PICK tr \in Nat, tw \in Nat, next \in Nat, rw \in Nat :
          /\ tr = s.stream.total_read /\ tw = s.stream.total_written
          /\ next = s.next_seqno /\ rw = s.recv_wdn_sz
          /\ tr <= tw /\ tw < Word /\ rw <= MaxWindow
  BY SenderNumbers
<1>2. m \in Nat /\ m <= rw /\ tr + m <= tw
  BY <1>1 DEF CutsTo
<1>3. PICK e \in {0, 1} : e = IF fin THEN 1 ELSE 0
  BY Zenon
<1>4. s.fin_sent \in BOOLEAN /\ StreamOK(s.stream) /\ s.syn
  BY DEF SenderOK
<1>5. /\ FlightOK(w)
      /\ w.isn = s.isn /\ w.syn = s.syn /\ w.abs_ackno = s.abs_ackno
      /\ Popped(s.stream, m, w.stream) /\ w.fin_sent = (s.fin_sent \/ fin)
      /\ w.recv_wdn_sz = rw - m - e
      /\ w.next_seqno = next + m + e
      /\ w.next_seqno - w.bytes_in_flight = s.next_seqno - s.bytes_in_flight
      /\ Range(w.outstanding) \subseteq Range(s.outstanding) \cup Range(w.segments_out)
      /\ \A seg \in Range(w.segments_out) : Carried(s, seg, m, fin)
  BY <1>1, <1>3, Zenon DEF Filled
<1>6. /\ StreamOK(w.stream) /\ w.stream.total_read = tr + m
      /\ w.stream.total_written = tw /\ w.stream.input_ended = s.stream.input_ended
  BY <1>1, <1>5 DEF Popped
<1>7. /\ s.fin_sent => tr = tw /\ next = tr + 2 /\ s.stream.input_ended
      /\ ~s.fin_sent => next = tr + 1
  BY <1>1, <1>4 DEF SenderOK
<1>8. fin => m = tw - tr /\ m < rw /\ s.stream.input_ended /\ ~s.fin_sent
  BY <1>1
<1>9. Onward(s, w)
  <2>1. tr <= tr + m /\ tw <= tw
    BY <1>2
  <2> QED
    BY <1>1, <1>4, <1>5, <1>6, <2>1, Zenon DEF Onward
<1>10. w.recv_wdn_sz \in 0..MaxWindow /\ w.next_seqno + w.recv_wdn_sz = next + rw
  <2>1. MaxWindow \in Nat
    BY DEF MaxWindow
  <2>2. rw - m - e \in 0..MaxWindow
    BY <1>1, <1>2, <1>3, <1>8, <2>1
  <2>3. next + m + e + (rw - m - e) = next + rw
    BY <1>2, <1>3
  <2> QED
    BY <1>5, <2>2, <2>3
<1>11. w.syn => w.next_seqno = w.stream.total_read + (IF w.fin_sent THEN 2 ELSE 1)
  <2>1. CASE s.fin_sent
    <3>1. m = 0 /\ ~fin /\ e = 0 /\ w.fin_sent
      <4>1. ~fin /\ w.fin_sent
        BY <1>5, <1>8, <2>1, Zenon
      <4>2. e = 0
        BY <1>3, <4>1
      <4>3. tr = tw
        BY <1>7, <2>1
      <4>4. m = 0
        BY <1>2, <4>3
      <4> QED
        BY <4>1, <4>2, <4>4
    <3> QED
      BY <1>1, <1>5, <1>6, <1>7, <2>1, <3>1
  <2>2. CASE ~s.fin_sent /\ fin
    <3>1. e = 1 /\ w.fin_sent
      BY <1>3, <1>5, <2>2, Zenon
    <3> QED
      BY <1>1, <1>2, <1>5, <1>6, <1>7, <2>2, <3>1
  <2>3. CASE ~s.fin_sent /\ ~fin
    <3>1. e = 0 /\ ~w.fin_sent
      BY <1>3, <1>5, <2>3
    <3> QED
      BY <1>1, <1>2, <1>5, <1>6, <1>7, <2>3, <3>1
  <2> QED
    BY <2>1, <2>2, <2>3
<1>12. w.fin_sent => w.stream.input_ended /\ w.stream.total_read = w.stream.total_written
  <2>1. CASE s.fin_sent
    <3>1. tr + m = tw
      BY <1>2, <1>7, <2>1
    <3> QED
      BY <1>6, <1>7, <2>1, <3>1
  <2>2. CASE fin
    <3>1. tr + m = tw
      BY <1>2, <1>8, <2>2
    <3> QED
      BY <1>6, <1>8, <2>2, <3>1
  <2>3. w.fin_sent => s.fin_sent \/ fin
    BY <1>5, Zenon
  <2> QED
    BY <2>1, <2>2, <2>3, Zenon
<1>13. ASSUME NEW seg \in Range(w.segments_out)
       PROVE  /\ Issued(w, seg) /\ ~s.fin_sent
              /\ HoldsLast(seg, tw) => seg.fin \/ ~fin
              /\ seg.fin => fin
              /\ seg.payload # <<>> => m > 0
  <2>1. PICK a \in Nat, len \in Nat :
            /\ seg.seqno = Wrap(s.next_seqno + a, s.isn) /\ seg.syn = FALSE
            /\ seg.payload = Substring(s.stream.total_read + a, len)
            /\ m > 0 \/ fin
            /\ a + len <= m /\ seg.fin = (fin /\ a + len = m)
    BY <1>5 DEF Carried
  <2>2. ~s.fin_sent /\ next = tr + 1
    BY <1>1, <1>2, <1>7, <1>8, <2>1
  <2>3. PICK abs \in Nat : abs = tr + 1 + a
    OBVIOUS
  <2>4. seg.payload = Substring(abs - 1, len) /\ seg.seqno = Wrap(abs, w.isn)
    <3>1. abs - 1 = tr + a /\ next + a = abs
      BY <2>2, <2>3
    <3> QED
      BY <1>1, <1>5, <2>1, <3>1
  <2>5. abs > 0 /\ abs + len <= Word /\ abs - 1 + len <= tr + m
    BY <1>1, <1>2, <2>1, <2>3, WordAssumption
  <2>6. PICK f \in BOOLEAN : f = (fin /\ a + len = m)
    BY Zenon
  <2>7. SegmentAt(seg, w.isn, abs, len, FALSE, f)
    BY <2>1, <2>4, <2>5, <2>6, Zenon DEF SegmentAt
  <2>8. f => w.fin_sent /\ abs - 1 + len = tw
    <3>1. f => a + len = tw - tr /\ fin
      BY <1>8, <2>6, Zenon
    <3>2. f => w.fin_sent
      BY <1>5, <3>1, Zenon
    <3>3. f => tr + 1 + a - 1 + len = tw
      BY <3>1
    <3> QED
      BY <2>3, <3>2, <3>3
  <2>9. IssuedAt(w, seg, abs, len, FALSE, f)
    BY <1>4, <1>5, <1>6, <2>5, <2>7, <2>8, Zenon DEF IssuedAt
  <2>10. tr + a \in Nat /\ seg.payload = Substring(tr + a, len)
    BY <1>1, <2>1
  <2>11. ASSUME HoldsLast(seg, tw), fin PROVE seg.fin
    <3>1. len \in 1..len
      <4>1. len # 0
        BY <2>10, <2>11, SubstringSeq DEF HoldsLast
      <4> QED
        BY <4>1
    <3>2. tr + a + len - 1 = tw - 1
      <4>1. Len(seg.payload) = len /\ seg.payload[len] = tr + a + len - 1
        BY <2>10, <3>1, SubstringSeq
      <4> QED
        BY <2>11, <4>1 DEF HoldsLast
    <3>3. a + len = m
      BY <1>8, <2>11, <3>2
    <3> QED
      BY <2>1, <2>11, <3>3, Zenon
  <2>12. seg.payload # <<>> => m > 0
    <3>1. seg.payload # <<>> => len # 0
      BY <2>10, SubstringSeq
    <3> QED
      BY <1>2, <2>1, <3>1
  <2> QED
    BY <2>1, <2>2, <2>9, <2>11, <2>12, Zenon DEF Issued
<1>14. \A seg \in Range(w.outstanding) : Issued(w, seg)
  <2>1. \A seg \in Range(s.outstanding) : Issued(w, seg)
    BY <1>4, <1>6, <1>9, IssuedStays DEF SenderOK
  <2> QED
    BY <1>5, <1>13, <2>1
<1>15. SenderOK(w)
  <2>1. w.fin_sent \in BOOLEAN /\ w.syn \in BOOLEAN
    BY <1>4, <1>5, Zenon
  <2>2. w.stream.total_written < Word
    BY <1>1, <1>6
  <2> QED
    BY <1>4, <1>5, <1>6, <1>10, <1>11, <1>12, <1>14, <2>1, <2>2, Zenon DEF SenderOK
<1>16. Range(w.segments_out) \subseteq Range(s.outstanding) \/ Fresh(s, w)
  <2>1. CASE s.fin_sent
    BY <1>13, <2>1
  <2>2. CASE ~s.fin_sent
    <3>1. ASSUME FinWithData(Range(w.segments_out))
          PROVE  /\ tr < tw
                 /\ \A seg \in Range(w.segments_out) : HoldsLast(seg, tw) => seg.fin
      <4>1. fin /\ m > 0
        BY <1>13, <3>1 DEF FinWithData
      <4> QED
        BY <1>2, <1>8, <1>13, <4>1
    <3> QED
      BY <1>1, <1>6, <2>2, <3>1, Zenon DEF Fresh
  <2> QED
    BY <2>1, <2>2
<1>17. Goes(s, w)
  BY <1>5, <1>9, <1>13, <1>15, <1>16 DEF Goes
<1> QED
  BY <1>1, <1>5, <1>6, <1>10, <1>17

(* What fill_window() makes of s.                                          *)
FillResult(s, w) ==
    /\ Goes(s, w) /\ w.abs_ackno = s.abs_ackno
    /\ w.stream.total_written = s.stream.total_written
    /\ w.next_seqno - w.bytes_in_flight = s.next_seqno - s.bytes_in_flight
    /\ IF s.syn THEN w.next_seqno + w.recv_wdn_sz = s.next_seqno + s.recv_wdn_sz
       ELSE w.next_seqno = 1 /\ w.recv_wdn_sz = 0

(* fill_window() before the handshake sends the SYN.                       *)
LEMMA SynGoes ==
    ASSUME NEW s, SenderOK(s), s.segments_out = <<>>, s.syn = FALSE
    PROVE  FillResult(s, FillWindow(s))
<1> DEFINE synned == [s EXCEPT !.syn = TRUE]
           first == [EmptySegment EXCEPT !.syn = TRUE]
           segments == <<first>>
           w == FillWindow(s)
<1>1. w = SendSegments(synned, segments)
  BY Zenon DEF FillWindow
<1>2. FlightOK(s) /\ StreamOK(s.stream)
  BY DEF SenderOK
<1>3. /\ s.next_seqno = 0 /\ s.stream.total_read = 0 /\ s.recv_wdn_sz = 0
      /\ s.fin_sent = FALSE
  BY Zenon DEF SenderOK
<1>4. /\ synned = [f \in SenderFields |-> synned[f]] /\ synned.syn = TRUE
      /\ synned.stream = s.stream /\ synned.recv_wdn_sz = s.recv_wdn_sz
      /\ synned.fin_sent = s.fin_sent
      /\ synned.isn = s.isn /\ synned.segments_out = s.segments_out
      /\ synned.next_seqno = s.next_seqno /\ synned.outstanding = s.outstanding
      /\ synned.bytes_in_flight = s.bytes_in_flight /\ synned.abs_ackno = s.abs_ackno
      /\ synned.elapsed_time = s.elapsed_time /\ synned.rto = s.rto
  BY <1>2, Zenon DEF FlightOK, SenderFields
<1>5. /\ first = [f \in SegmentFields |-> first[f]]
      /\ first.syn = TRUE /\ first.fin = FALSE /\ first.payload = <<>>
  <2>1. PICK on, off : on = TRUE /\ off = FALSE
    OBVIOUS
  <2>2. first = [seqno |-> 0, ackno |-> 0, ack |-> off, rst |-> off, syn |-> on,
                 fin |-> off, win |-> 0, payload |-> <<>>]
    <3>1. first = [EmptySegment EXCEPT !.syn = on]
      BY <2>1, Zenon
    <3>2. EmptySegment = [seqno |-> 0, ackno |-> 0, ack |-> off, rst |-> off, syn |-> off,
                          fin |-> off, win |-> 0, payload |-> <<>>]
      BY <2>1, Zenon DEF EmptySegment
    <3> HIDE DEF first
    <3> QED
      BY <3>1, <3>2
  <2> HIDE DEF first
  <2>3. first = [f \in SegmentFields |-> first[f]]
    BY <2>2 DEF SegmentFields
  <2>4. first.syn = on /\ first.fin = off /\ first.payload = <<>>
    BY <2>2
  <2> QED
    BY <2>1, <2>3, <2>4, Zenon
<1> HIDE DEF synned, w, first
<1>6. LengthInSequenceSpace(first) = 1
  <2>1. LengthInSequenceSpace(first) = Len(<<>>) + 1 + 0
    BY <1>5, Zenon DEF LengthInSequenceSpace
  <2> QED
    BY <2>1
<1>7. segments = [i \in 1..1 |-> segments[i]] /\ segments[1] = first
  OBVIOUS
<1> HIDE DEF segments
<1>8. Batch(segments, 1)
  <2>1. \A i \in 1..1 : i = 1
    OBVIOUS
  <2> QED
    BY <1>5, <1>6, <1>7, <2>1 DEF Batch
<1>9. FlightOK(synned)
  BY <1>2, <1>4, Zenon DEF FlightOK
<1>10. SentBatch(synned, segments, 1, w)
  BY <1>1, <1>8, <1>9, SendBatch
<1>11. (1 - 1) * MaxPayload = 0
  BY Multiples
<1>12. w.next_seqno = 1
  BY <1>3, <1>4, <1>6, <1>7, <1>10, <1>11 DEF SentBatch
<1> DEFINE q == Numbered(synned, segments)
<1>13. /\ q[1].seqno = Wrap(0, s.isn) /\ q[1].syn = TRUE /\ q[1].fin = FALSE
       /\ q[1].payload = <<>>
  <2>1. 1 \in 1..1
    OBVIOUS
  <2>2. /\ q[1].seqno = Wrap(synned.next_seqno + (1 - 1) * MaxPayload, synned.isn)
        /\ q[1].syn = segments[1].syn /\ q[1].fin = segments[1].fin
        /\ q[1].payload = segments[1].payload
    BY <1>8, <2>1, NumberedFields
  <2>3. synned.next_seqno + (1 - 1) * MaxPayload = 0
    BY <1>3, <1>4, <1>11
  <2> QED
    BY <1>4, <1>5, <1>7, <2>2, <2>3, Zenon
<1>14. q = <<q[1]>>
  <2>1. DOMAIN segments = 1..1
    BY <1>7
  <2>2. q = [i \in 1..1 |-> q[i]]
    BY <2>1 DEF Numbered
  <2> HIDE DEF q
  <2> QED
    BY <2>2
<1> HIDE DEF q
<1>15. w.segments_out = q
  BY <1>4, <1>10, <1>14 DEF SentBatch, q
<1>16. Range(w.segments_out) = {q[1]}
  BY <1>14, <1>15 DEF Range
<1>17. /\ FlightOK(w) /\ w.isn = s.isn /\ w.stream = s.stream /\ w.syn = TRUE
       /\ w.fin_sent = FALSE /\ w.recv_wdn_sz = 0 /\ w.abs_ackno = s.abs_ackno
       /\ w.next_seqno - w.bytes_in_flight = s.next_seqno - s.bytes_in_flight
       /\ Range(w.outstanding) \subseteq Range(s.outstanding) \cup {q[1]}
  BY <1>3, <1>4, <1>10, <1>15, <1>16, Zenon DEF SentBatch, SameButFlight, q
<1>18. s.stream.total_read \in Nat /\ s.stream.total_written \in Nat
  BY SenderNumbers
<1>19. Onward(s, w)
  BY <1>3, <1>17, <1>18 DEF Onward
<1>20. Issued(w, q[1])
  <2>1. Substring(0, 0) = <<>>
    BY DEF Substring
  <2>2. q[1].payload = Substring(IF TRUE THEN 0 ELSE 0 - 1, 0)
    BY <1>13, <2>1
  <2>3. 0 \in Nat /\ ~(0 > 0)
    OBVIOUS
  <2>4. SegmentAt(q[1], w.isn, 0, 0, TRUE, FALSE)
    BY <1>13, <1>17, <2>2, <2>3, Zenon DEF SegmentAt
  <2>5. IssuedAt(w, q[1], 0, 0, TRUE, FALSE)
    BY <1>17, <2>4, Zenon DEF IssuedAt
  <2> QED
    BY <2>3, <2>5, Zenon DEF Issued
<1>21. \A seg \in Range(w.outstanding) : Issued(w, seg)
  <2>1. \A seg \in Range(s.outstanding) : Issued(w, seg)
    BY <1>2, <1>17, <1>19, IssuedStays DEF SenderOK
  <2> QED
    BY <1>17, <1>20, <2>1
<1>22. SenderOK(w)
  <2>1. w.recv_wdn_sz \in 0..MaxWindow
    BY <1>17 DEF MaxWindow
  <2>2. w.next_seqno = w.stream.total_read + (IF w.fin_sent THEN 2 ELSE 1)
    BY <1>3, <1>12, <1>17
  <2>3. s.stream.total_written < Word
    BY SenderNumbers
  <2> QED
    BY <1>2, <1>17, <1>21, <2>1, <2>2, <2>3, Zenon DEF SenderOK
<1>23. Fresh(s, w)
  <2>1. ~FinWithData(Range(w.segments_out))
    BY <1>13, <1>16 DEF FinWithData
  <2> QED
    BY <1>3, <2>1 DEF Fresh
<1>24. Goes(s, w)
  BY <1>16, <1>17, <1>19, <1>20, <1>22, <1>23 DEF Goes
<1> QED
  BY <1>12, <1>17, <1>24 DEF FillResult, w

(* fill_window() (tcp_sender.cc:48).                                       *)
LEMMA FillGoes ==
    ASSUME NEW s, SenderOK(s), s.segments_out = <<>>
    PROVE  FillResult(s, FillWindow(s))
<1>1. s.syn \in BOOLEAN /\ s.fin_sent \in BOOLEAN /\ FlightOK(s) /\ StreamOK(s.stream)
  BY DEF SenderOK
<1>2. CASE s.syn = FALSE
  BY <1>2, SynGoes, Zenon
<1>3. CASE s.syn = TRUE
  <2>1. /\ s.recv_wdn_sz \in Nat
        /\ s.stream.total_read \in Nat /\ s.stream.total_written \in Nat
        /\ s.stream.total_read <= s.stream.total_written
    BY SenderNumbers
  <2>2. PICK m : CutsTo(s.stream, s.recv_wdn_sz, m)
    <3> DEFINE b == s.stream.total_written - s.stream.total_read
    <3>1. b \in Nat /\ b <= b
      BY <2>1
    <3>2. s.recv_wdn_sz <= b => CutsTo(s.stream, s.recv_wdn_sz, s.recv_wdn_sz)
      BY <2>1 DEF CutsTo
    <3>3. b <= s.recv_wdn_sz => CutsTo(s.stream, s.recv_wdn_sz, b)
      BY <3>1 DEF CutsTo
    <3> QED
      BY <2>1, <3>1, <3>2, <3>3
  <2>3. s.fin_sent => s.stream.total_read = s.stream.total_written
    BY DEF SenderOK
  <2>4. /\ FinFits(s) \in BOOLEAN
        /\ FinFits(s) => /\ s.stream.input_ended /\ ~s.fin_sent
                         /\ m = s.stream.total_written - s.stream.total_read
                         /\ m < s.recv_wdn_sz
    BY <1>1, <2>1, <2>2, <2>3, FinFitsMeaning, Zenon
  <2>5. Filled(s, m, FinFits(s), FillWindow(s))
    BY <1>1, <1>3, <2>1, <2>2, <2>4, FillSends, Zenon
  <2>6. /\ Goes(s, FillWindow(s)) /\ FillWindow(s).abs_ackno = s.abs_ackno
        /\ FillWindow(s).stream.total_written = s.stream.total_written
        /\ FillWindow(s).next_seqno - FillWindow(s).bytes_in_flight
                = s.next_seqno - s.bytes_in_flight
        /\ FillWindow(s).next_seqno + FillWindow(s).recv_wdn_sz
                = s.next_seqno + s.recv_wdn_sz
    BY <1>3, <2>2, <2>4, <2>5, FilledGoes, Zenon
  <2> QED
    BY <1>3, <2>6, Zenon DEF FillResult
<1> QED
  BY <1>1, <1>2, <1>3, Zenon

(* What an acknowledgment of abs leaves outstanding: what lies behind mid. *)
Frees(s, abs, mid, left, freed) ==
    /\ mid \in Nat /\ freed = mid - (s.next_seqno - s.bytes_in_flight)
    /\ s.next_seqno - s.bytes_in_flight <= mid /\ mid <= s.next_seqno
    /\ mid = s.next_seqno - s.bytes_in_flight \/ mid = abs
    /\ abs = s.next_seqno => mid = s.next_seqno
    /\ left = [k \in DOMAIN left |-> left[k]]
    /\ Range(left) \subseteq Range(s.outstanding)
    /\ Tiles(Lengths(left), mid, s.next_seqno)

(* The segments an acknowledgment frees are the first ones, and the bytes  *)
(* in flight are reduced by what they hold (tcp_sender.cc:121).            *)
LEMMA AcknowledgedFrees ==
    ASSUME NEW s, FlightOK(s), NEW abs \in Nat
    PROVE  LET acked == Acknowledged(s, abs)
           IN  \E mid : Frees(s, abs, mid, Erase(s.outstanding, acked),
                              SumFunctionOnSet([k \in acked |->
                                  LengthInSequenceSpace(s.outstanding[k])], acked))
<1> DEFINE out == s.outstanding
           acked == Acknowledged(s, abs)
           left == Erase(out, acked)
           g == [k \in acked |-> LengthInSequenceSpace(out[k])]
<1>1. PICK lo \in Nat, hi \in Nat :
          /\ hi = s.next_seqno /\ lo = s.next_seqno - s.bytes_in_flight /\ lo <= hi
  <2>1. s.next_seqno \in Nat /\ s.bytes_in_flight \in 0..s.next_seqno
    BY DEF FlightOK
  <2>2. /\ s.next_seqno - s.bytes_in_flight \in Nat
        /\ s.next_seqno - s.bytes_in_flight <= s.next_seqno
    BY <2>1
  <2> QED
    BY <2>1, <2>2
<1>2. Tiles(Lengths(out), lo, hi)
  BY <1>1 DEF FlightOK
<1>3. /\ DOMAIN Lengths(out) = DOMAIN out
      /\ \A k \in DOMAIN out : Lengths(out)[k] = LengthInSequenceSpace(out[k])
  BY Zenon DEF Lengths
<1>4. acked \subseteq DOMAIN out
  BY DEF Acknowledged
<1>5. DOMAIN g = acked /\ \A k \in acked : g[k] = Lengths(out)[k]
  BY <1>3, <1>4, Zenon
<1>6. /\ left = [k \in DOMAIN left |-> left[k]] /\ DOMAIN left = DOMAIN out \ acked
      /\ \A k \in DOMAIN left : left[k] = out[k]
  <2> HIDE DEF out, acked
  <2> QED
    BY DEF Erase, Restrict
<1> HIDE DEF left, g
<1>7. /\ DOMAIN Lengths(left) = DOMAIN Lengths(out) \ DOMAIN g
      /\ \A k \in DOMAIN Lengths(left) : Lengths(left)[k] = Lengths(out)[k]
  BY <1>3, <1>5, <1>6, Zenon DEF Lengths
<1>8. Range(left) \subseteq Range(out)
  BY <1>6, Zenon DEF Range
<1>9. lo < hi => hi \in DOMAIN out
  BY <1>2, <1>3 DEF Tiles
<1> DEFINE freed == SumFunctionOnSet(g, acked)
<1>10. CASE abs \in DOMAIN out
  <2>1. acked = {k \in DOMAIN out : k <= abs}
    BY <1>10, Zenon DEF Acknowledged
  <2>2. Tiles(g, lo, abs) /\ Tiles(Lengths(left), abs, hi)
    <3>1. DOMAIN g = {k \in DOMAIN Lengths(out) : k <= abs}
      BY <1>3, <1>5, <2>1
    <3>2. abs \in DOMAIN Lengths(out)
      BY <1>3, <1>10
    <3>3. \A k \in DOMAIN g : g[k] = Lengths(out)[k]
      BY <1>5
    <3> HIDE DEF out, acked
    <3> QED
      BY <1>2, <1>7, <3>1, <3>2, <3>3, TilesSplit
  <2>3. freed = abs - lo
    BY <1>5, <2>2, TilesSum
  <2>4. lo <= abs /\ abs <= hi
    BY <2>2 DEF Tiles
  <2> QED
    BY <1>1, <1>6, <1>8, <2>2, <2>3, <2>4 DEF Frees, left, g
<1>11. CASE abs \notin DOMAIN out
  <2>1. acked = {}
    BY <1>11, Zenon DEF Acknowledged
  <2>2. Tiles(g, lo, lo)
    BY <1>5, <2>1 DEF Tiles
  <2>3. freed = lo - lo
    BY <1>5, <2>2, TilesSum
  <2>4. Lengths(left) = Lengths(out)
    <3>1. left = out
      <4>1. out = [k \in DOMAIN out |-> out[k]]
        BY DEF FlightOK
      <4>2. DOMAIN left = DOMAIN out
        BY <1>6, <2>1
      <4> HIDE DEF out
      <4> QED
        BY <1>6, <4>1, <4>2
    <3> QED
      BY <3>1
  <2>5. abs = hi => lo = hi
    BY <1>1, <1>9, <1>11
  <2> QED
    BY <1>1, <1>2, <1>6, <1>8, <2>3, <2>4, <2>5 DEF Frees, left, g
<1> QED
  BY <1>10, <1>11

(* What an acknowledgment of abs makes of s, when the receiver has a       *)
(* window of win.  When it has none, all that was sent is acknowledged.    *)
AckResult(s, abs, win, w) ==
    /\ Goes(s, w) /\ w.abs_ackno \in {s.abs_ackno, abs}
    /\ w.stream.total_written = s.stream.total_written
    /\ w.next_seqno - w.bytes_in_flight \in {s.next_seqno - s.bytes_in_flight, abs}
    /\ \/ w.next_seqno = s.next_seqno /\ w.recv_wdn_sz \in {0, s.recv_wdn_sz}
             /\ w.bytes_in_flight = s.bytes_in_flight
       \/ /\ win > 0 /\ abs <= s.next_seqno
          /\ w.next_seqno + w.recv_wdn_sz = abs + win
       \/ /\ win = 0 /\ abs = s.next_seqno
          /\ w.next_seqno - w.bytes_in_flight = abs
          /\ w.next_seqno + w.recv_wdn_sz = abs + 1

(* s1 has sent what s has sent.                                            *)
SameSent(s, s1) ==
    /\ s1.isn = s.isn /\ s1.syn = s.syn /\ s1.fin_sent = s.fin_sent
    /\ s1.stream.total_read = s.stream.total_read
    /\ s.stream.total_written <= s1.stream.total_written
    /\ s.fin_sent => s1.stream.total_written = s.stream.total_written
    /\ Range(s1.outstanding) \subseteq Range(s.outstanding)

(* The calls that prepare fill_window() send nothing themselves.           *)
LEMMA GoesOn ==
    ASSUME NEW s, NEW s1, NEW w, SameSent(s, s1), Goes(s1, w),
           StreamOK(s.stream), StreamOK(s1.stream)
    PROVE  Goes(s, w)
<1>1. SenderOK(w)
  BY DEF Goes
<1>2. Onward(s, w)
  <2>1. PICK a \in Nat, b \in Nat, c \in Nat :
            /\ a = s.stream.total_written /\ b = s1.stream.total_written
            /\ c = w.stream.total_written /\ a <= b /\ b <= c
    BY <1>1, SenderNumbers DEF StreamOK, SameSent, Goes, Onward
  <2>2. s.stream.total_written <= w.stream.total_written
    BY <2>1
  <2> QED
    BY <2>2 DEF SameSent, Goes, Onward
<1>3. Range(w.outstanding) \subseteq Range(s.outstanding) \cup Range(w.segments_out)
  BY DEF Goes, SameSent
<1>4. Range(w.segments_out) \subseteq Range(s.outstanding) \/ Fresh(s, w)
  <2>1. CASE Range(w.segments_out) \subseteq Range(s1.outstanding)
    BY <2>1 DEF SameSent
  <2>2. CASE Fresh(s1, w)
    BY <2>2, Zenon DEF SameSent, Fresh
  <2> QED
    BY <2>1, <2>2 DEF Goes
<1> QED
  BY <1>1, <1>2, <1>3, <1>4 DEF Goes

(* A sender that does nothing.                                             *)
LEMMA GoesNowhere ==
    ASSUME NEW s, SenderOK(s), s.segments_out = <<>>, NEW w, SenderOK(w),
           SameSent(s, w), w.segments_out = <<>>
    PROVE  Goes(s, w)
<1>1. Range(w.segments_out) = {}
  BY DEF Range
<1>2. s.stream.total_read \in Nat /\ w.stream.total_read \in Nat
  BY SenderNumbers
<1> QED
  BY <1>1, <1>2 DEF Goes, Onward, SameSent

(* The largest window.                                                     *)
LEMMA MaxWindowNat == MaxWindow \in Nat /\ 1 <= MaxWindow
BY DEF MaxWindow

(* ack_received() (tcp_sender.cc:95): what is freed is the beginning of    *)
(* what was in flight, and the window that is left is the receiver's.      *)
LEMMA AckGoes ==
    ASSUME NEW s, SenderOK(s), s.segments_out = <<>>, s.syn = TRUE,
           NEW ackno, NEW win \in 0..MaxWindow,
           NEW abs \in Nat, abs = Unwrap(ackno, s.isn, s.abs_ackno)
    PROVE  AckResult(s, abs, win, AckReceived(s, ackno, win))
<1> DEFINE un == Unwrap(ackno, s.isn, s.abs_ackno)
           acked == Acknowledged(s, un)
           left == Erase(s.outstanding, acked)
           newer == un > s.max_abs_seqno
           gone == SumFunctionOnSet(
                        [k \in acked |-> LengthInSequenceSpace(s.outstanding[k])], acked)
           flight == s.bytes_in_flight - gone
           window == WindowLeft(s, un, win)
           max_abs == IF newer THEN un ELSE s.max_abs_seqno
           rto == IF newer THEN InitialRto ELSE s.rto
           retx == IF newer THEN 0 ELSE s.consecutive_retransmissions
           elapsed == IF newer /\ left # EmptyMap THEN 0 ELSE s.elapsed_time
           on == s.timer_on /\ left # EmptyMap
           freed == [s EXCEPT !.abs_ackno = un, !.wdn_sz = win,
                              !.bytes_in_flight = flight, !.outstanding = left,
                              !.recv_wdn_sz = window, !.max_abs_seqno = max_abs, !.rto = rto,
                              !.consecutive_retransmissions = retx,
                              !.elapsed_time = elapsed, !.timer_on = on]
           closed == [s EXCEPT !.recv_wdn_sz = 0]
           w == AckReceived(s, ackno, win)
<1>1. w = IF un > s.next_seqno THEN s
          ELSE IF un + win < s.next_seqno THEN closed ELSE FillWindow(freed)
  BY Zenon DEF AckReceived
<1>2. un = abs
  OBVIOUS
<1>3. PICK mid : Frees(s, un, mid, left, gone)
  BY <1>2, AcknowledgedFrees, Zenon DEF SenderOK
<1>4. window = WindowLeft(s, abs, win)
  BY <1>2
<1>5. rto \in Nat /\ elapsed \in Nat
  <2>1. s.rto \in Nat /\ s.elapsed_time \in Nat
    BY DEF SenderOK, FlightOK
  <2>2. InitialRto \in Nat /\ 0 \in Nat
    BY SenderAssumption
  <2> HIDE DEF newer, left
  <2> QED
    BY <2>1, <2>2, Zenon
<1> HIDE DEF un, left, flight, window, max_abs, rto, retx, elapsed, on, gone, w
<1>6. FlightOK(s) /\ StreamOK(s.stream) /\ s = [f \in SenderFields |-> s[f]]
  BY DEF SenderOK, FlightOK
<1>7. /\ freed = [f \in SenderFields |-> freed[f]]
      /\ freed.abs_ackno = un /\ freed.bytes_in_flight = flight
      /\ freed.outstanding = left /\ freed.recv_wdn_sz = window
      /\ freed.rto = rto /\ freed.elapsed_time = elapsed
      /\ freed.isn = s.isn /\ freed.syn = s.syn /\ freed.fin_sent = s.fin_sent
      /\ freed.stream = s.stream /\ freed.next_seqno = s.next_seqno
      /\ freed.segments_out = s.segments_out
  BY <1>6, Zenon DEF SenderFields
<1>8. /\ closed = [f \in SenderFields |-> closed[f]]
      /\ closed.abs_ackno = s.abs_ackno /\ closed.bytes_in_flight = s.bytes_in_flight
      /\ closed.outstanding = s.outstanding /\ closed.recv_wdn_sz = 0
      /\ closed.rto = s.rto /\ closed.elapsed_time = s.elapsed_time
      /\ closed.isn = s.isn /\ closed.syn = s.syn /\ closed.fin_sent = s.fin_sent
      /\ closed.stream = s.stream /\ closed.next_seqno = s.next_seqno
      /\ closed.segments_out = s.segments_out
  BY <1>6 DEF SenderFields
<1> HIDE DEF freed, closed
<1>9. PICK next \in Nat, bif \in Nat, tw \in Nat :
          /\ next = s.next_seqno /\ bif = s.bytes_in_flight /\ bif <= next
          /\ tw = s.stream.total_written /\ s.stream.total_read \in Nat
  BY SenderNumbers
<1>10. SameSent(s, s)
  BY <1>9 DEF SameSent
<1>11. MaxWindow \in Nat
  BY MaxWindowNat
<1>12. CASE abs > next
  <2>1. w = s
    BY <1>1, <1>2, <1>9, <1>12
  <2>2. Goes(s, s)
    BY <1>10, GoesNowhere
  <2> QED
    BY <2>1, <2>2 DEF AckResult, w
<1>13. CASE ~(abs > next) /\ abs + win < next
  <2>1. w = closed
    BY <1>1, <1>2, <1>9, <1>13
  <2>2. SenderOK(closed)
    <3>1. FlightOK(closed)
      BY <1>6, <1>8, Zenon DEF FlightOK
    <3>2. closed.recv_wdn_sz \in 0..MaxWindow
      BY <1>8, <1>11
    <3>3. \A seg \in Range(s.outstanding) : Issued(closed, seg)
      <4>1. Onward(s, closed)
        BY <1>8, <1>9 DEF Onward
      <4> QED
        BY <1>6, <1>8, <4>1, IssuedStays DEF SenderOK
    <3> QED
      BY <1>8, <3>1, <3>2, <3>3, Zenon DEF SenderOK
  <2>3. SameSent(s, closed)
    BY <1>8, <1>10, Zenon DEF SameSent
  <2>4. Goes(s, closed)
    BY <1>8, <2>2, <2>3, GoesNowhere
  <2> QED
    BY <1>8, <2>1, <2>4, Zenon DEF AckResult, w
<1>14. CASE ~(abs > next) /\ ~(abs + win < next)
  <2>1. w = FillWindow(freed)
    BY <1>1, <1>2, <1>9, <1>14
  <2>2. /\ mid \in Nat /\ gone = mid - (next - bif) /\ next - bif <= mid /\ mid <= next
        /\ mid = next - bif \/ mid = abs
        /\ abs = next => mid = next
        /\ left = [k \in DOMAIN left |-> left[k]]
        /\ Range(left) \subseteq Range(s.outstanding)
        /\ Tiles(Lengths(left), mid, next)
    BY <1>2, <1>3, <1>9, Zenon DEF Frees
  <2>3. flight \in 0..next /\ next - flight = mid
    BY <1>9, <2>2 DEF flight
  <2>4. window = IF win = 0 THEN 1 ELSE abs + win - next
    BY <1>4, <1>9 DEF WindowLeft
  <2>5. window \in 0..MaxWindow
    <3>1. 1 \in 0..MaxWindow
      BY MaxWindowNat
    <3>2. win # 0 => abs + win - next \in 0..MaxWindow
      BY <1>11, <1>14
    <3> QED
      BY <2>4, <3>1, <3>2
  <2>6. FlightOK(freed)
    BY <1>5, <1>7, <1>9, <2>2, <2>3, Zenon DEF FlightOK
  <2>7. SenderOK(freed)
    <3>1. \A seg \in Range(s.outstanding) : Issued(freed, seg)
      <4>1. Onward(s, freed)
        BY <1>7, <1>9 DEF Onward
      <4> QED
        BY <1>6, <1>7, <4>1, IssuedStays DEF SenderOK
    <3>2. \A seg \in Range(left) : Issued(freed, seg)
      BY <2>2, <3>1
    <3> QED
      BY <1>7, <2>5, <2>6, <3>2, Zenon DEF SenderOK
  <2>8. SameSent(s, freed)
    BY <1>7, <1>10, <2>2, Zenon DEF SameSent
  <2>9. FillResult(freed, w)
    BY <1>7, <2>1, <2>7, FillGoes
  <2>10. Goes(s, w)
    BY <1>6, <1>7, <2>8, <2>9, GoesOn DEF FillResult
  <2>11. /\ w.abs_ackno = abs /\ w.stream.total_written = tw
         /\ w.next_seqno - w.bytes_in_flight = mid
         /\ w.next_seqno + w.recv_wdn_sz = next + window
    BY <1>2, <1>7, <1>9, <2>3, <2>9, Zenon DEF FillResult
  <2>12. mid \in {next - bif, abs}
    BY <2>2
  <2>13. CASE win = 0
    <3>1. abs = next
      BY <1>14, <2>13
    <3>2. mid = abs /\ next + window = abs + 1
      BY <2>2, <2>4, <2>13, <3>1
    <3> QED
      BY <1>9, <2>10, <2>11, <2>12, <2>13, <3>1, <3>2, Zenon DEF AckResult, w
  <2>14. CASE win # 0
    <3>1. win > 0 /\ abs <= next /\ next + window = abs + win
      BY <1>14, <2>4, <2>14
    <3> QED
      BY <1>9, <2>10, <2>11, <2>12, <3>1, Zenon DEF AckResult, w
  <2> QED
    BY <2>13, <2>14
<1> QED
  BY <1>12, <1>13, <1>14

(* Only the stream, the timer and the window of s1 may differ from s.      *)
SameNumbers(s, s1) ==
    /\ s1.next_seqno = s.next_seqno /\ s1.bytes_in_flight = s.bytes_in_flight
    /\ s1.recv_wdn_sz = s.recv_wdn_sz /\ s1.abs_ackno = s.abs_ackno
    /\ s1.syn = s.syn

(* tick() (tcp_sender.cc:147) sends nothing but what is outstanding.       *)
LEMMA TickGoes ==
    ASSUME NEW s, SenderOK(s), s.segments_out = <<>>
    PROVE  LET w == SenderTick(s, 1)
           IN  /\ Goes(s, w) /\ SameNumbers(s, w)
               /\ w.stream.total_written = s.stream.total_written
<1> DEFINE idle == s.outstanding = EmptyMap
           elapsed == IF idle THEN 0 ELSE s.elapsed_time + 1
           rto == IF idle THEN InitialRto ELSE s.rto
           expired == elapsed >= rto
           backoff == expired /\ s.wdn_sz > 0
           time == IF expired THEN 0 ELSE elapsed
           doubled == IF backoff THEN 2 * rto ELSE rto
           retx == IF backoff THEN s.consecutive_retransmissions + 1
                   ELSE s.consecutive_retransmissions
           queue == IF expired /\ ~idle
                    THEN Append(s.segments_out, s.outstanding[Min(DOMAIN s.outstanding)])
                    ELSE s.segments_out
           ticked == [s EXCEPT !.elapsed_time = time, !.rto = doubled,
                               !.consecutive_retransmissions = retx, !.segments_out = queue]
           w == SenderTick(s, 1)
<1>1. w = IF ~s.timer_on THEN s ELSE ticked
  BY Zenon DEF SenderTick
<1>2. FlightOK(s) /\ StreamOK(s.stream) /\ s = [f \in SenderFields |-> s[f]]
  BY DEF SenderOK, FlightOK
<1>3. time \in Nat /\ doubled \in Nat
  <2>1. s.rto \in Nat /\ s.elapsed_time \in Nat
    BY <1>2 DEF FlightOK
  <2>2. InitialRto \in Nat
    BY SenderAssumption
  <2> HIDE DEF idle
  <2>3. elapsed \in Nat /\ rto \in Nat
    BY <2>1, <2>2
  <2> HIDE DEF elapsed, rto
  <2>4. 2 * rto \in Nat
    BY <2>3
  <2> HIDE DEF expired
  <2> QED
    BY <2>3, <2>4
<1>4. Range(queue) \subseteq Range(s.outstanding)
  <2>1. CASE expired /\ ~idle
    <3>1. DOMAIN s.outstanding # {}
      BY <1>2, <2>1, NoKeys, Zenon DEF FlightOK
    <3>2. DOMAIN s.outstanding \subseteq Nat
      <4>1. DOMAIN Lengths(s.outstanding) = DOMAIN s.outstanding
        BY DEF Lengths
      <4> QED
        BY <1>2, <4>1 DEF FlightOK, Tiles
    <3>3. Min(DOMAIN s.outstanding) \in DOMAIN s.outstanding
      BY <3>1, <3>2, MinOfNat
    <3>4. PICK seg : seg = s.outstanding[Min(DOMAIN s.outstanding)]
      OBVIOUS
    <3>5. queue = Append(<<>>, seg)
      BY <2>1, <3>4, Zenon
    <3> HIDE DEF queue
    <3>6. Range(queue) = {seg}
      BY <3>5 DEF Range
    <3> QED
      BY <3>3, <3>4, <3>6 DEF Range
  <2>2. CASE ~(expired /\ ~idle)
    <3>1. queue = <<>>
      BY <2>2, Zenon
    <3> HIDE DEF queue
    <3> QED
      BY <3>1 DEF Range
  <2> QED
    BY <2>1, <2>2
<1> HIDE DEF time, doubled, retx, queue, w
<1>5. /\ ticked = [f \in SenderFields |-> ticked[f]]
      /\ ticked.elapsed_time = time /\ ticked.rto = doubled /\ ticked.segments_out = queue
      /\ ticked.isn = s.isn /\ ticked.syn = s.syn /\ ticked.fin_sent = s.fin_sent
      /\ ticked.stream = s.stream /\ ticked.next_seqno = s.next_seqno
      /\ ticked.bytes_in_flight = s.bytes_in_flight /\ ticked.outstanding = s.outstanding
      /\ ticked.recv_wdn_sz = s.recv_wdn_sz /\ ticked.abs_ackno = s.abs_ackno
  BY <1>2, Zenon DEF SenderFields
<1> HIDE DEF ticked
<1>6. s.stream.total_read \in Nat /\ s.stream.total_written \in Nat
  BY SenderNumbers
<1>7. FlightOK(ticked)
  BY <1>2, <1>3, <1>5, Zenon DEF FlightOK
<1>8. Onward(s, ticked)
  BY <1>5, <1>6 DEF Onward
<1>9. \A seg \in Range(s.outstanding) : Issued(ticked, seg)
  BY <1>2, <1>5, <1>8, IssuedStays DEF SenderOK
<1>10. SenderOK(ticked)
  BY <1>5, <1>7, <1>9, Zenon DEF SenderOK
<1>11. Goes(s, ticked)
  BY <1>4, <1>5, <1>8, <1>9, <1>10 DEF Goes
<1>12. SameSent(s, s)
  BY <1>6 DEF SameSent
<1>13. Goes(s, s)
  BY <1>12, GoesNowhere
<1>14. SameNumbers(s, s) /\ SameNumbers(s, ticked)
  BY <1>5, Zenon DEF SameNumbers
<1>15. /\ Goes(s, w) /\ SameNumbers(s, w)
       /\ w.stream.total_written = s.stream.total_written
  BY <1>1, <1>5, <1>11, <1>13, <1>14, Zenon
<1> QED
  BY <1>15 DEF w

(* An application that writes, or ends its input, before the FIN is sent.  *)
LEMMA NewStream ==
    ASSUME NEW s, SenderOK(s), ~s.stream.input_ended,
           NEW st, StreamOK(st), st.total_written < Word,
           st.total_read = s.stream.total_read,
           s.stream.total_written <= st.total_written
    PROVE  LET s1 == [s EXCEPT !.stream = st]
           IN  /\ SenderOK(s1) /\ SameSent(s, s1) /\ SameNumbers(s, s1)
               /\ s1.stream = st /\ s1.segments_out = s.segments_out
<1> DEFINE s1 == [s EXCEPT !.stream = st]
<1>1. FlightOK(s) /\ StreamOK(s.stream) /\ s = [f \in SenderFields |-> s[f]]
  BY DEF SenderOK, FlightOK
<1>2. s.fin_sent = FALSE
  BY Zenon DEF SenderOK
<1>3. /\ s1 = [f \in SenderFields |-> s1[f]] /\ s1.stream = st
      /\ s1.elapsed_time = s.elapsed_time /\ s1.rto = s.rto
      /\ s1.segments_out = s.segments_out
      /\ s1.isn = s.isn /\ s1.syn = s.syn /\ s1.fin_sent = s.fin_sent
      /\ s1.next_seqno = s.next_seqno
      /\ s1.bytes_in_flight = s.bytes_in_flight /\ s1.outstanding = s.outstanding
      /\ s1.recv_wdn_sz = s.recv_wdn_sz /\ s1.abs_ackno = s.abs_ackno
  BY <1>1 DEF SenderFields
<1> HIDE DEF s1
<1>4. s.stream.total_read \in Nat
  BY SenderNumbers
<1>5. FlightOK(s1)
  BY <1>1, <1>3, Zenon DEF FlightOK
<1>6. Onward(s, s1)
  BY <1>2, <1>3, <1>4 DEF Onward
<1>7. \A seg \in Range(s.outstanding) : Issued(s1, seg)
  BY <1>1, <1>3, <1>6, IssuedStays DEF SenderOK
<1>8. SenderOK(s1)
  BY <1>2, <1>3, <1>5, <1>7, Zenon DEF SenderOK
<1>9. SameSent(s, s1) /\ SameNumbers(s, s1)
  BY <1>2, <1>3 DEF SameSent, SameNumbers
<1> QED
  BY <1>3, <1>8, <1>9 DEF s1

(* write() of a stream in order (byte_stream.cc:20).                       *)
LEMMA WriteStream ==
    ASSUME NEW st, StreamOK(st), NEW len \in Nat
    PROVE  LET w == StreamWrite(st, Substring(st.total_written, len))
           IN  /\ StreamOK(w) /\ w.total_read = st.total_read
               /\ st.total_written <= w.total_written
               /\ w.total_written <= st.total_written + len
<1>1. PICK tr \in Nat, tw \in Nat, b \in Nat :
          tr = st.total_read /\ tw = st.total_written /\ b = tw - tr /\ tw = tr + b
  BY DEF StreamOK
<1>2. st.buf = Substring(tr, b) /\ st.cap \in Nat
  BY <1>1 DEF StreamOK
<1>3. BufferSize(st) = b
  <2>1. Len(Substring(tr, b)) = b
    BY SubstringSeq
  <2> QED
    BY <1>2, <2>1 DEF BufferSize
<1>4. PICK n \in Nat : n <= len /\ n = Least(RemainingCapacity(st), len)
  <2>1. RemainingCapacity(st) \in Nat
    BY <1>2, <1>3 DEF RemainingCapacity
  <2> QED
    BY <2>1 DEF Least
<1> DEFINE w == StreamWrite(st, Substring(tw, len))
           buf == st.buf \o Take(Substring(tw, len), n)
<1>5. w = [st EXCEPT !.buf = buf, !.total_written = st.total_written + n]
  <2>1. Len(Substring(tw, len)) = len
    BY SubstringSeq
  <2> QED
    BY <1>4, <2>1, Zenon DEF StreamWrite
<1>6. buf = Substring(tr, b + n)
  <2>1. Inside(tw, len, 0, n)
    BY <1>4 DEF Inside
  <2>2. SubSeq(Substring(tw, len), 0 + 1, n) = Substring(tw + 0, n - 0)
    BY <2>1, SubstringInside
  <2>3. 0 + 1 = 1 /\ tw + 0 = tw /\ n - 0 = n
    OBVIOUS
  <2>4. Take(Substring(tw, len), n) = Substring(tw, n)
    BY <2>2, <2>3, Zenon DEF Take
  <2>5. Substring(tr, b) \o Substring(tr + b, n) = Substring(tr, b + n)
    BY SubstringCat, Zenon
  <2> QED
    BY <1>1, <1>2, <2>4, <2>5, Zenon
<1> HIDE DEF w, buf
<1>7. w = [buf |-> buf, cap |-> st.cap, total_written |-> tw + n, total_read |-> tr,
           input_ended |-> st.input_ended, error |-> st.error]
  BY <1>1, <1>5, Zenon DEF StreamOK
<1>8. /\ w.buf = buf /\ w.cap = st.cap /\ w.total_written = tw + n /\ w.total_read = tr
      /\ w.input_ended = st.input_ended
      /\ w = [buf |-> w.buf, cap |-> w.cap, total_written |-> w.total_written,
              total_read |-> w.total_read, input_ended |-> w.input_ended,
              error |-> w.error]
  BY <1>7
<1>9. tw + n - tr = b + n /\ tr <= tw + n /\ tw + n \in Nat /\ tw <= tw + n /\ tw + n <= tw + len
  BY <1>1, <1>4
<1>10. st.input_ended \in BOOLEAN
  BY DEF StreamOK
<1>11. StreamOK(w)
  <2>1. w.buf = Substring(w.total_read, w.total_written - w.total_read)
    <3>1. w.total_written - w.total_read = b + n
      BY <1>8, <1>9
    <3> QED
      BY <1>6, <1>8, <3>1
  <2>2. /\ w.cap \in Nat /\ w.total_written \in Nat /\ w.total_read \in Nat
        /\ w.total_read <= w.total_written /\ w.input_ended \in BOOLEAN
    BY <1>2, <1>8, <1>9, <1>10, Zenon
  <2> QED
    BY <1>8, <2>1, <2>2, Zenon DEF StreamOK
<1> QED
  BY <1>1, <1>8, <1>9, <1>11 DEF w

(* end_input() of a stream in order.                                       *)
LEMMA EndStream ==
    ASSUME NEW st, StreamOK(st)
    PROVE  LET w == EndInput(st)
           IN  /\ StreamOK(w) /\ w.total_read = st.total_read
               /\ w.total_written = st.total_written
<1>1. PICK on : on = TRUE
  OBVIOUS
<1> DEFINE w == EndInput(st)
<1>2. w = [st EXCEPT !.input_ended = on]
  BY <1>1 DEF EndInput
<1> HIDE DEF w
<1>3. w = [buf |-> st.buf, cap |-> st.cap, total_written |-> st.total_written,
           total_read |-> st.total_read, input_ended |-> on, error |-> st.error]
  <2>1. st = [buf |-> st.buf, cap |-> st.cap, total_written |-> st.total_written,
              total_read |-> st.total_read, input_ended |-> st.input_ended,
              error |-> st.error]
    BY DEF StreamOK
  <2> QED
    BY <1>2, <2>1
<1>4. /\ w.buf = st.buf /\ w.cap = st.cap /\ w.total_written = st.total_written
      /\ w.total_read = st.total_read /\ w.input_ended = on
      /\ w = [buf |-> w.buf, cap |-> w.cap, total_written |-> w.total_written,
              total_read |-> w.total_read, input_ended |-> w.input_ended,
              error |-> w.error]
  BY <1>3
<1>5. StreamOK(w)
  BY <1>1, <1>4, Zenon DEF StreamOK
<1> QED
  BY <1>4, <1>5 DEF w

(* The constructor.                                                        *)
LEMMA NewSenderOK ==
    ASSUME NEW capacity \in Nat, NEW isn
    PROVE  LET s == NewSender(capacity, isn)
           IN  /\ SenderOK(s) /\ s.isn = isn /\ s.segments_out = <<>>
               /\ s.stream.total_written = 0 /\ s.stream.total_read = 0
               /\ s.abs_ackno = 0 /\ s.syn = FALSE /\ s.fin_sent = FALSE
               /\ s.next_seqno = 0 /\ s.bytes_in_flight = 0 /\ s.recv_wdn_sz = 0
               /\ s.outstanding = EmptyMap
<1>1. PICK no : no = FALSE
  BY Zenon
<1>2. PICK st : st = NewByteStream(capacity)
  OBVIOUS
<1>3. PICK map : map = EmptyMap
  OBVIOUS
<1> DEFINE s == NewSender(capacity, isn)
<1>4. s = [isn |-> isn, segments_out |-> <<>>, stream |-> st,
           next_seqno |-> 0, outstanding |-> map, bytes_in_flight |-> 0,
           syn |-> no, fin_sent |-> no, wdn_sz |-> 1, abs_ackno |-> 0,
           recv_wdn_sz |-> 0, max_abs_seqno |-> 0, rto |-> 0,
           consecutive_retransmissions |-> 0, elapsed_time |-> 0, timer_on |-> no]
  BY <1>1, <1>2, <1>3, Zenon DEF NewSender
<1> HIDE DEF s
<1>5. /\ s = [f \in SenderFields |-> s[f]]
      /\ s.isn = isn /\ s.segments_out = <<>> /\ s.stream = st
      /\ s.next_seqno = 0 /\ s.outstanding = map /\ s.bytes_in_flight = 0
      /\ s.syn = no /\ s.fin_sent = no /\ s.abs_ackno = 0 /\ s.recv_wdn_sz = 0
      /\ s.rto = 0 /\ s.elapsed_time = 0
  BY <1>4 DEF SenderFields
<1>6. st = [buf |-> <<>>, cap |-> capacity, total_written |-> 0, total_read |-> 0,
            input_ended |-> no, error |-> no]
  BY <1>1, <1>2, Zenon DEF NewByteStream
<1>7. /\ st.buf = <<>> /\ st.cap = capacity /\ st.total_written = 0
      /\ st.total_read = 0 /\ st.input_ended = no
      /\ st = [buf |-> st.buf, cap |-> st.cap, total_written |-> st.total_written,
               total_read |-> st.total_read, input_ended |-> st.input_ended,
               error |-> st.error]
  BY <1>6
<1>8. StreamOK(st)
  <2>1. Substring(0, 0 - 0) = <<>> /\ 0 \in Nat /\ 0 <= 0
    BY DEF Substring
  <2> QED
    BY <1>1, <1>7, <2>1, Zenon DEF StreamOK
<1>9. /\ DOMAIN map = {} /\ map = [k \in DOMAIN map |-> map[k]]
      /\ DOMAIN Lengths(map) = {} /\ Range(map) = {}
  BY <1>3 DEF EmptyMap, Lengths, Range
<1>10. FlightOK(s)
  <2>1. Tiles(Lengths(map), 0, 0)
    BY <1>9 DEF Tiles
  <2>2. 0 - 0 = 0 /\ 0 \in 0..0 /\ 0 \in Nat
    OBVIOUS
  <2> QED
    BY <1>5, <1>9, <2>1, <2>2, Zenon DEF FlightOK
<1>11. SenderOK(s)
  <2>1. 0 < Word /\ 0 \in 0..MaxWindow
    BY WordAssumption, MaxWindowNat
  <2> QED
    BY <1>1, <1>5, <1>7, <1>8, <1>9, <1>10, <2>1, Zenon DEF SenderOK
<1> QED
  BY <1>1, <1>3, <1>5, <1>7, <1>11 DEF s
=============================================================================
