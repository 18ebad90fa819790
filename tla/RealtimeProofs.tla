--------------------------- MODULE RealtimeProofs ---------------------------
(***************************************************************************)
(* Proofs about the stream of one realtime client, for every set of events *)
(* and filters, every capacity of the broadcast channel and of the send    *)
(* queue and every number of messages.                                     *)
(*                                                                         *)
(* What the client was sent or will be sent is one sequence, Sent: a step  *)
(* leaves it alone, adds a frame to its end, or empties it when the client *)
(* is gone.  FramesInv keeps it in the order of the stream, the frame that *)
(* the telemetry task holds and the event that it judges being the next;   *)
(* AccountInv follows every event that the receiver has gone past;         *)
(* HonourInv follows the filters, which the socket loop changes while the  *)
(* telemetry task judges and sends.                                        *)
(***************************************************************************)
EXTENDS Realtime, SequenceTheorems, TLAPS

Kinds == {"ready", "filter", "event", "lagged", "error", "command_queue",
          "close", "none"}
Frames == [kind : Kinds, n : Nat, at : Nat]
Chosen == {Normalized(f) : f \in Filters}

TypeOK ==
  /\ bridge \in BOOLEAN /\ transport \in {"ws", "sse"}
  /\ published \in Seq(Events) /\ channel \in {"open", "closed"}
  /\ first \in Nat /\ cursor \in Nat /\ messages \in Nat
  /\ asked \in Seq(Chosen) /\ seen \in BOOLEAN
  /\ task \in {"none", "start", "run", "changed", "event", "send", "overflow",
               "ended"}
  /\ socket \in {"none", "refused", "open", "closing", "closed"}
  /\ held \in Frames /\ queue \in Seq(Frames) /\ written \in Seq(Frames)

PlaceInv ==
  /\ first <= cursor /\ cursor <= Len(published)
  /\ transport = "sse" => queue = <<>>
  /\ socket = "none" => task = "none" /\ written = <<>> /\ queue = <<>>
  /\ task # "send" => held = NoFrame
  /\ task = "event" => cursor > 0
  /\ task = "overflow" => transport = "ws"
  /\ task \in {"start", "run", "changed", "event", "send"} => asked # <<>>

\* The same as Matches for a client of the bridge or of the API.
Lets(b, f, e) == IF b THEN BridgeMatches(f, e) ELSE ApiMatches(f, e)

\* The filter number n or a later one lets event i through.
Lawful(b, filters, events, n, i) ==
  \E v \in DOMAIN filters : v >= n /\ Lets(b, filters[v], events[i])

\* A frame tells of events before c and names one of the first m filters.
FrameOK(x, c, m) ==
  /\ \A i \in Told(x) : 1 <= i /\ i <= c
  /\ x.kind = "event" => x.at \in 1..c
  /\ x.kind = "filter" => x.n <= m

Ordered(s) ==
  \A k, l \in DOMAIN s :
    k < l => \A i \in Told(s[k]), j \in Told(s[l]) : i < j

\* What s tells of comes before x does.
Ahead(s, x) == \A k \in DOMAIN s : \A i \in Told(s[k]), j \in Told(x) : i < j

FramesInv ==
  /\ \A k \in DOMAIN Sent : FrameOK(Sent[k], cursor, Len(asked))
  /\ FrameOK(held, cursor, Len(asked))
  /\ Ordered(Sent) /\ Ahead(Sent, held)
  /\ task = "event" => \A k \in DOMAIN Sent : \A i \in Told(Sent[k]) : i < cursor

\* Every filter that s has named allows the event of x.
Allows(s, x, b, filters, events) ==
  x.kind = "event" =>
    \A k \in DOMAIN s :
      s[k].kind = "filter" => Lawful(b, filters, events, s[k].n, x.at)

Honoured(s, b, filters, events) ==
  \A k, l \in DOMAIN s :
    k < l /\ s[k].kind = "filter" /\ s[l].kind = "event"
      => Lawful(b, filters, events, s[k].n, s[l].at)

HonourInv ==
  /\ Honoured(Sent, bridge, asked, published)
  /\ Allows(Sent, held, bridge, asked, published)

\* What has become of event i.
Accounted(i) ==
  \/ \E k \in DOMAIN Sent : i \in Told(Sent[k])
  \/ \E v \in DOMAIN asked : ~Lets(bridge, asked[v], published[i])
  \/ i \in Told(held)
  \/ i = cursor /\ task = "event"
  \/ i \in lost /\ task \in {"overflow", "ended"}

AccountInv == socket = "open" => \A i \in (first + 1)..cursor : Accounted(i)

IInv == TypeOK /\ PlaceInv /\ FramesInv /\ HonourInv /\ AccountInv

-----------------------------------------------------------------------------
(* Frames *)

\* Every frame that the code builds is a frame.
LEMMA FrameTypes ==
  ASSUME NEW n \in Nat, NEW i \in Nat
  PROVE  /\ ReadyFrame(n) \in Frames /\ FilterFrame(n) \in Frames
         /\ EventFrame(i) \in Frames /\ LaggedFrame(n, i) \in Frames
         /\ ErrorFrame \in Frames /\ QueuedFrame \in Frames
         /\ CloseFrame \in Frames /\ NoFrame \in Frames
BY DEF ReadyFrame, FilterFrame, EventFrame, LaggedFrame, ErrorFrame, QueuedFrame,
       CloseFrame, NoFrame, Frame, Frames, Kinds

\* A frame about no event tells of none.
LEMMA MuteFrames ==
  ASSUME NEW n \in Nat
  PROVE  \A x \in {ReadyFrame(n), ErrorFrame, QueuedFrame, CloseFrame, NoFrame} :
           Told(x) = {} /\ x.kind # "event" /\ x.kind # "filter"
BY DEF ReadyFrame, ErrorFrame, QueuedFrame, CloseFrame, NoFrame, Frame, Told

\* The frame of FilterUpdated names a filter and no event.
LEMMA FilterFrameTells ==
  ASSUME NEW n \in Nat
  PROVE  /\ Told(FilterFrame(n)) = {} /\ FilterFrame(n).kind = "filter"
         /\ FilterFrame(n).n = n
BY DEF FilterFrame, Frame, Told

\* The frame of an event tells of it.
LEMMA EventFrameTells ==
  ASSUME NEW i \in Nat
  PROVE  /\ Told(EventFrame(i)) = {i} /\ EventFrame(i).kind = "event"
         /\ EventFrame(i).at = i
<1>1. /\ EventFrame(i).kind = "event" /\ EventFrame(i).at = i /\ EventFrame(i).n = 1
  BY DEF EventFrame, Frame
<1>2. Told(EventFrame(i)) = (i - 1 + 1)..i
  BY <1>1 DEF Told
<1>3. (i - 1 + 1)..i = {i}
  OBVIOUS
<1> QED
  BY <1>1, <1>2, <1>3

\* The frame of a lagging receiver tells of what was skipped.
LEMMA LaggedFrameTells ==
  ASSUME NEW c \in Nat, NEW o \in Nat, c < o
  PROVE  /\ Told(LaggedFrame(o - c, o)) = (c + 1)..o
         /\ LaggedFrame(o - c, o).kind = "lagged"
<1>1. /\ LaggedFrame(o - c, o).kind = "lagged" /\ LaggedFrame(o - c, o).at = o
      /\ LaggedFrame(o - c, o).n = o - c
  BY DEF LaggedFrame, Frame
<1>2. Told(LaggedFrame(o - c, o)) = (o - (o - c) + 1)..o
  BY <1>1 DEF Told
<1>3. o - (o - c) + 1 = c + 1
  OBVIOUS
<1> QED
  BY <1>1, <1>2, <1>3

\* What a frame tells of are numbers.
LEMMA ToldNumbers ==
  ASSUME NEW x \in Frames
  PROVE  Told(x) \subseteq Int
<1>1. x.at \in Nat /\ x.n \in Nat
  BY DEF Frames
<1> QED
  BY <1>1 DEF Told

-----------------------------------------------------------------------------
(* Sequences of frames *)

\* A frame put at the end of the send queue is at the end of what is sent.
LEMMA AppendLast ==
  ASSUME NEW S, NEW s \in Seq(S), NEW t \in Seq(S), NEW x \in S
  PROVE  s \o Append(t, x) = Append(s \o t, x)
<1>1. <<x>> \in Seq(S) /\ s \o t \in Seq(S)
  BY ConcatProperties
<1>2. Append(t, x) = t \o <<x>> /\ Append(s \o t, x) = (s \o t) \o <<x>>
  BY <1>1, AppendIsConcat
<1>3. (s \o t) \o <<x>> = s \o (t \o <<x>>)
  BY <1>1, ConcatAssociative
<1> QED
  BY <1>2, <1>3

\* Writing the first frame of the send queue changes nothing in what is sent.
LEMMA MoveHead ==
  ASSUME NEW S, NEW s \in Seq(S), NEW t \in Seq(S), t # <<>>
  PROVE  Append(s, Head(t)) \o Tail(t) = s \o t
<1>1. Head(t) \in S /\ Tail(t) \in Seq(S) /\ <<Head(t)>> \in Seq(S)
  BY HeadTailProperties
<1>2. Append(s, Head(t)) = s \o <<Head(t)>>
  BY <1>1, AppendIsConcat
<1>3. (s \o <<Head(t)>>) \o Tail(t) = s \o (<<Head(t)>> \o Tail(t))
  BY <1>1, ConcatAssociative
<1>4. <<Head(t)>> \o Tail(t) = t
  <2> DEFINE u == <<Head(t)>> \o Tail(t)
  <2>1. Len(t) \in Nat \ {0} /\ Len(<<Head(t)>>) = 1 /\ <<Head(t)>>[1] = t[1]
    BY EmptySeq
  <2>2. /\ Len(Tail(t)) = Len(t) - 1
        /\ \A i \in 1..Len(Tail(t)) : Tail(t)[i] = t[i + 1]
    BY HeadTailProperties
  <2>3. /\ u \in Seq(S) /\ Len(u) = 1 + Len(Tail(t))
        /\ \A i \in 1..(1 + Len(Tail(t))) :
             u[i] = IF i <= 1 THEN <<Head(t)>>[i] ELSE Tail(t)[i - 1]
    BY <1>1, <2>1, ConcatProperties
  <2> HIDE DEF u
  <2>4. Len(u) = Len(t)
    BY <2>1, <2>2, <2>3
  <2>5. ASSUME NEW i \in 1..Len(u) PROVE u[i] = t[i]
    <3>1. CASE i = 1
      BY <2>1, <2>3, <3>1
    <3>2. CASE i # 1
      <4>1. i - 1 \in 1..Len(Tail(t)) /\ ~(i <= 1) /\ i \in 1..(1 + Len(Tail(t)))
        BY <2>1, <2>2, <2>3, <3>2
      <4>2. u[i] = Tail(t)[i - 1] /\ Tail(t)[i - 1] = t[(i - 1) + 1]
        BY <2>2, <2>3, <4>1
      <4>3. (i - 1) + 1 = i
        BY <4>1
      <4> QED
        BY <4>2, <4>3
    <3> QED
      BY <3>1, <3>2
  <2> QED
    BY <2>3, <2>4, <2>5, SeqEqual DEF u
<1> QED
  BY <1>2, <1>3, <1>4

\* The frames of a sequence with one more.
LEMMA AppendFrames ==
  ASSUME NEW s \in Seq(Frames), NEW x \in Frames
  PROVE  /\ Append(s, x) \in Seq(Frames)
         /\ DOMAIN s = 1..Len(s) /\ Len(s) \in Nat
         /\ DOMAIN Append(s, x) = 1..(Len(s) + 1)
         /\ \A k \in DOMAIN s : k \in DOMAIN Append(s, x) /\ Append(s, x)[k] = s[k]
         /\ Append(s, x)[Len(s) + 1] = x
         /\ \A k \in DOMAIN Append(s, x) : k \in DOMAIN s \/ k = Len(s) + 1
<1>1. /\ Append(s, x) \in Seq(Frames) /\ Len(Append(s, x)) = Len(s) + 1
      /\ \A i \in 1..Len(s) : Append(s, x)[i] = s[i]
      /\ Append(s, x)[Len(s) + 1] = x
  BY AppendProperties
<1>2. DOMAIN s = 1..Len(s) /\ Len(s) \in Nat
  BY LenProperties
<1>3. DOMAIN Append(s, x) = 1..(Len(s) + 1)
  BY <1>1, LenProperties
<1> QED
  BY <1>1, <1>2, <1>3

\* A frame that comes after all that was told keeps the order.
LEMMA OrderedAppend ==
  ASSUME NEW s \in Seq(Frames), NEW x \in Frames, Ordered(s), Ahead(s, x)
  PROVE  Ordered(Append(s, x))
<1> SUFFICES ASSUME NEW k \in DOMAIN Append(s, x), NEW l \in DOMAIN Append(s, x), k < l,
                    NEW i \in Told(Append(s, x)[k]), NEW j \in Told(Append(s, x)[l])
             PROVE  i < j
  BY DEF Ordered
<1>1. k \in DOMAIN s /\ Append(s, x)[k] = s[k]
  BY AppendFrames
<1>2. CASE l \in DOMAIN s
  BY <1>1, <1>2, AppendFrames DEF Ordered
<1>3. CASE l = Len(s) + 1
  BY <1>1, <1>3, AppendFrames DEF Ahead
<1> QED
  BY <1>2, <1>3, AppendFrames

\* An event that every filter named so far allows keeps the filters honoured.
LEMMA HonouredAppend ==
  ASSUME NEW s \in Seq(Frames), NEW x \in Frames, NEW b, NEW a, NEW p,
         Honoured(s, b, a, p), Allows(s, x, b, a, p)
  PROVE  Honoured(Append(s, x), b, a, p)
<1> SUFFICES ASSUME NEW k \in DOMAIN Append(s, x), NEW l \in DOMAIN Append(s, x), k < l,
                    Append(s, x)[k].kind = "filter", Append(s, x)[l].kind = "event"
             PROVE  Lawful(b, a, p, Append(s, x)[k].n, Append(s, x)[l].at)
  BY DEF Honoured
<1>1. k \in DOMAIN s /\ Append(s, x)[k] = s[k]
  BY AppendFrames
<1>2. CASE l \in DOMAIN s
  BY <1>1, <1>2, AppendFrames DEF Honoured
<1>3. CASE l = Len(s) + 1
  BY <1>1, <1>3, AppendFrames DEF Allows
<1> QED
  BY <1>2, <1>3, AppendFrames

-----------------------------------------------------------------------------
(* Steps of the stream *)

\* A step that forgets no event and no filter.
Onward ==
  /\ bridge' = bridge /\ cursor <= cursor' /\ Len(asked) <= Len(asked')
  /\ \A v \in DOMAIN asked : v \in DOMAIN asked' /\ asked'[v] = asked[v]
  /\ \A i \in 1..Len(published) : published'[i] = published[i]

\* What is sent is a sequence of frames.
LEMMA SentType ==
  ASSUME TypeOK
  PROVE  /\ Sent \in Seq(Frames) /\ DOMAIN Sent = 1..Len(Sent) /\ Len(Sent) \in Nat
         /\ \A k \in DOMAIN Sent : Sent[k] \in Frames
<1>1. Sent \in Seq(Frames)
  BY ConcatProperties DEF Sent, TypeOK
<1> QED
  BY <1>1, LenProperties, ElementOfSeq

\* Frames and filters stay in order when the stream moves on.
LEMMA OnwardKeeps ==
  ASSUME TypeOK, PlaceInv, TypeOK', Onward
  PROVE  /\ \A x \in Frames : FrameOK(x, cursor, Len(asked)) => FrameOK(x, cursor', Len(asked'))
         /\ \A n \in Nat, i \in 1..cursor :
              Lawful(bridge, asked, published, n, i)
                => Lawful(bridge', asked', published', n, i)
<1>1. /\ cursor \in Nat /\ cursor' \in Nat /\ Len(asked) \in Nat /\ Len(asked') \in Nat
      /\ Len(published) \in Nat /\ cursor <= Len(published)
      /\ cursor <= cursor' /\ Len(asked) <= Len(asked')
  BY LenProperties DEF TypeOK, PlaceInv, Onward
<1>2. ASSUME NEW x \in Frames, FrameOK(x, cursor, Len(asked))
      PROVE  FrameOK(x, cursor', Len(asked'))
  <2>1. Told(x) \subseteq Int /\ x.n \in Nat /\ x.at \in Nat
    BY ToldNumbers DEF Frames
  <2> QED
    BY <1>1, <1>2, <2>1 DEF FrameOK
<1>3. ASSUME NEW n \in Nat, NEW i \in 1..cursor, Lawful(bridge, asked, published, n, i)
      PROVE  Lawful(bridge', asked', published', n, i)
  <2>1. PICK v \in DOMAIN asked : v >= n /\ Lets(bridge, asked[v], published[i])
    BY <1>3 DEF Lawful
  <2>2. i \in 1..Len(published)
    BY <1>1
  <2>3. /\ v \in DOMAIN asked' /\ asked'[v] = asked[v] /\ published'[i] = published[i]
        /\ bridge' = bridge
    BY <2>2 DEF Onward
  <2> QED
    BY <2>1, <2>3 DEF Lawful
<1> QED
  BY <1>2, <1>3

\* The filters named so far are honoured as the stream moves on.
LEMMA HonourOnward ==
  ASSUME TypeOK, PlaceInv, TypeOK', Onward, FramesInv, HonourInv
  PROVE  /\ Honoured(Sent, bridge', asked', published')
         /\ Allows(Sent, held, bridge', asked', published')
<1>1. \A k \in DOMAIN Sent : Sent[k] \in Frames /\ Sent[k].n \in Nat
  BY SentType DEF Frames
<1>2. Honoured(Sent, bridge', asked', published')
  <2> SUFFICES ASSUME NEW k \in DOMAIN Sent, NEW l \in DOMAIN Sent, k < l,
                      Sent[k].kind = "filter", Sent[l].kind = "event"
               PROVE  Lawful(bridge', asked', published', Sent[k].n, Sent[l].at)
    BY DEF Honoured
  <2>1. Lawful(bridge, asked, published, Sent[k].n, Sent[l].at)
    BY DEF HonourInv, Honoured
  <2>2. Sent[l].at \in 1..cursor
    BY DEF FramesInv, FrameOK
  <2> QED
    BY <1>1, <2>1, <2>2, OnwardKeeps
<1>3. Allows(Sent, held, bridge', asked', published')
  <2> SUFFICES ASSUME held.kind = "event", NEW k \in DOMAIN Sent, Sent[k].kind = "filter"
               PROVE  Lawful(bridge', asked', published', Sent[k].n, held.at)
    BY DEF Allows
  <2>1. Lawful(bridge, asked, published, Sent[k].n, held.at)
    BY DEF HonourInv, Allows
  <2>2. held.at \in 1..cursor
    BY DEF FramesInv, FrameOK
  <2> QED
    BY <1>1, <2>1, <2>2, OnwardKeeps
<1> QED
  BY <1>2, <1>3

\* A step that sends nothing; the frame then in hand comes next.
LEMMA NothingSent ==
  ASSUME TypeOK, PlaceInv, TypeOK', Onward, FramesInv, HonourInv, Sent' = Sent,
         FrameOK(held', cursor', Len(asked')), Ahead(Sent, held'),
         Allows(Sent, held', bridge', asked', published'),
         task' = "event" => \A k \in DOMAIN Sent : \A i \in Told(Sent[k]) : i < cursor'
  PROVE  FramesInv' /\ HonourInv'
<1>1. \A k \in DOMAIN Sent : FrameOK(Sent[k], cursor', Len(asked'))
  BY OnwardKeeps, SentType DEF FramesInv
<1>2. FramesInv'
  BY <1>1 DEF FramesInv
<1>3. HonourInv'
  BY HonourOnward DEF HonourInv
<1> QED
  BY <1>2, <1>3

\* A step that sends nothing and keeps what it has in hand.
LEMMA NothingChanged ==
  ASSUME TypeOK, PlaceInv, TypeOK', Onward, FramesInv, HonourInv, Sent' = Sent,
         held' = held, task' = "event" => task = "event"
  PROVE  FramesInv' /\ HonourInv'
<1>1. FrameOK(held', cursor', Len(asked')) /\ Ahead(Sent, held')
  BY OnwardKeeps DEF FramesInv, TypeOK
<1>2. Allows(Sent, held', bridge', asked', published')
  BY HonourOnward
<1>3. ASSUME task' = "event", NEW k \in DOMAIN Sent, NEW i \in Told(Sent[k])
      PROVE  i < cursor'
  <2>1. i < cursor /\ cursor <= cursor'
    BY <1>3 DEF FramesInv, Onward
  <2>2. cursor \in Nat /\ cursor' \in Nat /\ i \in Int
    BY SentType, ToldNumbers DEF TypeOK
  <2> QED
    BY <2>1, <2>2
<1> QED
  BY <1>1, <1>2, <1>3, NothingSent

\* A step that sends frame x, which comes next, and has nothing in hand then.
LEMMA FrameSent ==
  ASSUME TypeOK, PlaceInv, TypeOK', Onward, FramesInv, HonourInv,
         NEW x \in Frames, Sent' = Append(Sent, x), FrameOK(x, cursor, Len(asked)),
         Ahead(Sent, x), Allows(Sent, x, bridge', asked', published'),
         held' = NoFrame, task' # "event"
  PROVE  FramesInv' /\ HonourInv'
<1>1. Sent \in Seq(Frames)
  BY SentType
<1>2. ASSUME NEW k \in DOMAIN Sent' PROVE FrameOK(Sent'[k], cursor', Len(asked'))
  <2>1. CASE k \in DOMAIN Sent
    <3>1. Sent'[k] = Sent[k] /\ Sent[k] \in Frames
      BY <1>1, <2>1, AppendFrames, SentType
    <3> QED
      BY <2>1, <3>1, OnwardKeeps DEF FramesInv
  <2>2. CASE k = Len(Sent) + 1
    <3>1. Sent'[k] = x
      BY <1>1, <2>2, AppendFrames
    <3> QED
      BY <3>1, OnwardKeeps
  <2> QED
    BY <1>1, <2>1, <2>2, AppendFrames
<1>3. Told(NoFrame) = {} /\ NoFrame.kind # "event" /\ NoFrame.kind # "filter"
  BY MuteFrames
<1>4. FrameOK(held', cursor', Len(asked')) /\ Ahead(Sent', held')
  BY <1>3 DEF FrameOK, Ahead
<1>5. Ordered(Sent')
  BY <1>1, OrderedAppend DEF FramesInv
<1>6. Honoured(Sent', bridge', asked', published')
  BY <1>1, HonourOnward, HonouredAppend
<1>7. FramesInv'
  BY <1>2, <1>4, <1>5 DEF FramesInv
<1>8. HonourInv'
  BY <1>3, <1>6 DEF HonourInv, Allows
<1> QED
  BY <1>7, <1>8

\* The socket loop sends a reply x, which tells of no event, and the telemetry
\* task is wherever it was.
LEMMA ReplySent ==
  ASSUME TypeOK, PlaceInv, TypeOK', Onward, FramesInv, HonourInv,
         NEW x \in Frames, Sent' = Append(Sent, x), Told(x) = {},
         x.kind # "event", x.kind # "filter",
         held' = held, task' = task, cursor' = cursor
  PROVE  FramesInv' /\ HonourInv'
<1>1. Sent \in Seq(Frames)
  BY SentType
<1>2. ASSUME NEW k \in DOMAIN Sent'
      PROVE  (k \in DOMAIN Sent /\ Sent'[k] = Sent[k] /\ Sent[k] \in Frames) \/ Sent'[k] = x
  <2>1. k \in DOMAIN Sent \/ k = Len(Sent) + 1
    BY <1>1, AppendFrames
  <2> QED
    BY <1>1, <2>1, AppendFrames, SentType
<1>3. FrameOK(x, cursor', Len(asked')) /\ FrameOK(held', cursor', Len(asked'))
  BY OnwardKeeps DEF FrameOK, FramesInv, TypeOK
<1>4. \A k \in DOMAIN Sent' : FrameOK(Sent'[k], cursor', Len(asked'))
  BY <1>2, <1>3, OnwardKeeps DEF FramesInv
<1>5. Ahead(Sent, x)
  BY DEF Ahead
<1>6. Ordered(Sent')
  BY <1>1, <1>5, OrderedAppend DEF FramesInv
<1>7. Ahead(Sent', held')
  BY <1>2 DEF Ahead, FramesInv
<1>8. task' = "event" => \A k \in DOMAIN Sent' : \A i \in Told(Sent'[k]) : i < cursor'
  BY <1>2 DEF FramesInv
<1>9. Allows(Sent, x, bridge', asked', published')
  BY DEF Allows
<1>10. Honoured(Sent', bridge', asked', published')
  BY <1>1, <1>9, HonourOnward, HonouredAppend
<1>11. Allows(Sent', held', bridge', asked', published')
  BY <1>2, HonourOnward DEF Allows
<1>12. FramesInv'
  BY <1>3, <1>4, <1>6, <1>7, <1>8 DEF FramesInv
<1>13. HonourInv'
  BY <1>10, <1>11 DEF HonourInv
<1> QED
  BY <1>12, <1>13

\* Of a client that is gone, or not there yet, nothing is left to account for.
LEMMA NothingLeft ==
  ASSUME Sent' = <<>>, held' = NoFrame
  PROVE  FramesInv' /\ HonourInv'
<1>1. DOMAIN Sent' = {}
  OBVIOUS
<1>2. Told(NoFrame) = {} /\ NoFrame.kind # "event" /\ NoFrame.kind # "filter"
  BY MuteFrames
<1>3. FramesInv'
  BY <1>1, <1>2 DEF FramesInv, FrameOK, Ordered, Ahead
<1>4. HonourInv'
  BY <1>1, <1>2 DEF HonourInv, Honoured, Allows
<1> QED
  BY <1>3, <1>4

-----------------------------------------------------------------------------
(* The actions *)

\* A step that goes past no event, forgets none of the frames and is no step
\* of the telemetry task accounts for the events as the state before did.
LEMMA AccountedOnward ==
  ASSUME TypeOK, PlaceInv, TypeOK', Onward, AccountInv, socket' = "open" => socket = "open",
         cursor' = cursor, first' = first,
         \A k \in DOMAIN Sent : k \in DOMAIN Sent' /\ Sent'[k] = Sent[k],
         held' = held, task' = task, lost' = lost
  PROVE  AccountInv'
<1> SUFFICES ASSUME socket = "open", NEW i \in (first + 1)..cursor, Accounted(i)
             PROVE  Accounted(i)'
  BY DEF AccountInv
<1>1. i \in 1..Len(published)
  BY LenProperties DEF TypeOK, PlaceInv
<1>2. published'[i] = published[i] /\ bridge' = bridge
  BY <1>1 DEF Onward
<1>3. CASE \E k \in DOMAIN Sent : i \in Told(Sent[k])
  BY <1>3 DEF Accounted
<1>4. CASE \E v \in DOMAIN asked : ~Lets(bridge, asked[v], published[i])
  BY <1>2, <1>4 DEF Accounted, Onward
<1>5. CASE i \in Told(held) \/ (i = cursor /\ task = "event")
            \/ (i \in lost /\ task \in {"overflow", "ended"})
  BY <1>5 DEF Accounted
<1> QED
  BY <1>3, <1>4, <1>5 DEF Accounted

\* The same for a step of the telemetry task: what it had in hand is accounted
\* for otherwise.
LEMMA AccountedTask ==
  ASSUME TypeOK, PlaceInv, TypeOK', AccountInv, socket' = "open" => socket = "open",
         UNCHANGED <<bridge, published, asked, first, cursor>>,
         \A k \in DOMAIN Sent : k \in DOMAIN Sent' /\ Sent'[k] = Sent[k],
         \A i \in Told(held) : Accounted(i)',
         task = "event" => Accounted(cursor)',
         task \in {"overflow", "ended"} => task' \in {"overflow", "ended"} /\ lost' = lost
  PROVE  AccountInv'
<1> SUFFICES ASSUME socket = "open", NEW i \in (first + 1)..cursor, Accounted(i)
             PROVE  Accounted(i)'
  BY DEF AccountInv
<1>1. CASE \E k \in DOMAIN Sent : i \in Told(Sent[k])
  BY <1>1 DEF Accounted
<1>2. CASE \E v \in DOMAIN asked : ~Lets(bridge, asked[v], published[i])
  BY <1>2 DEF Accounted
<1>3. CASE i \in Told(held) \/ (i = cursor /\ task = "event")
  BY <1>3
<1>4. CASE i \in lost /\ task \in {"overflow", "ended"}
  BY <1>4 DEF Accounted
<1> QED
  BY <1>1, <1>2, <1>3, <1>4 DEF Accounted

\* Publish
LEMMA PublishStep ==
  ASSUME IInv, Publish
  PROVE  IInv'
<1> USE DEF IInv
<1>1. PICK e \in Events : published' = Append(published, e)
  BY DEF Publish
<1>2. /\ Len(published') = Len(published) + 1 /\ Len(published) \in Nat
      /\ published' \in Seq(Events)
      /\ \A i \in 1..Len(published) : published'[i] = published[i]
  BY <1>1, AppendProperties, LenProperties DEF TypeOK
<1>3. TypeOK'
  BY <1>2 DEF TypeOK, Publish
<1>4. PlaceInv'
  BY <1>2 DEF PlaceInv, Publish, TypeOK
<1>5. Onward /\ Sent' = Sent
  BY <1>2, LenProperties DEF Onward, Publish, Sent, TypeOK
<1>6. FramesInv' /\ HonourInv'
  BY <1>3, <1>5, NothingChanged DEF Publish
<1>7. AccountInv'
  BY <1>3, <1>5, AccountedOnward DEF Publish
<1> QED
  BY <1>3, <1>4, <1>6, <1>7

\* CloseChannel
LEMMA CloseChannelStep ==
  ASSUME IInv, CloseChannel
  PROVE  IInv'
<1> USE DEF IInv
<1>1. TypeOK'
  BY DEF TypeOK, CloseChannel
<1>2. PlaceInv'
  BY DEF PlaceInv, CloseChannel
<1>3. Onward /\ Sent' = Sent
  BY LenProperties DEF Onward, CloseChannel, Sent, TypeOK
<1>4. FramesInv' /\ HonourInv'
  BY <1>1, <1>3, NothingChanged DEF CloseChannel
<1>5. AccountInv'
  BY <1>1, <1>3, AccountedOnward DEF CloseChannel
<1> QED
  BY <1>1, <1>2, <1>4, <1>5

\* ConnectWs and ConnectSse
LEMMA ConnectStep ==
  ASSUME IInv, ConnectWs \/ ConnectSse
  PROVE  IInv'
<1> USE DEF IInv
<1>1. PICK f \in Filters : Subscribe(f)
  BY DEF ConnectWs, ConnectSse
<1>2. socket = "none" /\ transport' \in {"ws", "sse"}
  BY DEF ConnectWs, ConnectSse
<1>3. Len(published) \in Nat /\ NoFrame \in Frames
  BY LenProperties, FrameTypes DEF TypeOK
<1>4. /\ held = NoFrame /\ queue = <<>> /\ written = <<>> /\ task = "none"
      /\ UNCHANGED <<held, queue, written, published, bridge, channel, seen, messages>>
  BY <1>1, <1>2 DEF PlaceInv, Subscribe, streamVars
<1>5. /\ first' = Len(published) /\ cursor' = Len(published)
      /\ socket' \in {"open", "refused"}
      /\ \/ task' = "start" /\ asked' = <<Normalized(f)>>
         \/ task' = "none" /\ asked' = asked
  BY <1>1, <1>4 DEF Subscribe
<1>6. Normalized(f) \in Chosen
  BY DEF Chosen
<1>7. asked' \in Seq(Chosen) /\ (task' = "start" => asked' # <<>>)
  <2> DEFINE n == Normalized(f)
  <2> HIDE DEF n
  <2>1. n \in Chosen
    BY <1>6 DEF n
  <2>2. <<n>> \in Seq(Chosen) /\ <<n>> # <<>>
    BY <2>1
  <2> QED
    BY <1>5, <2>2 DEF TypeOK, n
<1>8. TypeOK'
  BY <1>2, <1>3, <1>4, <1>5, <1>7 DEF TypeOK
<1>9. PlaceInv'
  BY <1>3, <1>4, <1>5, <1>7 DEF PlaceInv
<1>10. Sent' = <<>>
  BY <1>4 DEF Sent
<1>11. FramesInv' /\ HonourInv'
  BY <1>4, <1>10, NothingLeft
<1>12. AccountInv'
  <2>1. (first' + 1)..cursor' = {}
    BY <1>3, <1>5
  <2> QED
    BY <2>1 DEF AccountInv
<1> QED
  BY <1>8, <1>9, <1>11, <1>12

\* Start
LEMMA StartStep ==
  ASSUME IInv, Start
  PROVE  IInv'
<1> USE DEF IInv
<1>1. /\ task = "start" /\ task' = "send" /\ held = NoFrame /\ held' = ReadyFrame(1)
      /\ UNCHANGED <<bridge, transport, published, channel, asked, seen, queue, socket,
                     written, lost, messages>>
      /\ \/ first' = Len(published) /\ cursor' = Len(published)
         \/ UNCHANGED <<first, cursor>>
  BY DEF Start, PlaceInv, streamVars
<1>2. Len(published) \in Nat /\ ReadyFrame(1) \in Frames
  BY LenProperties, FrameTypes DEF TypeOK
<1>3. TypeOK'
  BY <1>1, <1>2 DEF TypeOK
<1>4. PlaceInv' /\ cursor <= cursor'
  BY <1>1, <1>2 DEF PlaceInv, TypeOK
<1>5. Onward /\ Sent' = Sent
  BY <1>1, <1>4, LenProperties DEF Onward, Sent, TypeOK
<1>6. Told(held') = {} /\ held'.kind # "event" /\ held'.kind # "filter"
  BY <1>1, MuteFrames
<1>7. FrameOK(held', cursor', Len(asked')) /\ Ahead(Sent, held')
      /\ Allows(Sent, held', bridge', asked', published')
  BY <1>6 DEF FrameOK, Ahead, Allows
<1>8. FramesInv' /\ HonourInv'
  BY <1>1, <1>3, <1>5, <1>7, NothingSent
<1>9. AccountInv'
  <2>1. CASE first' = Len(published) /\ cursor' = Len(published)
    <3>1. (first' + 1)..cursor' = {}
      BY <1>2, <2>1
    <3> QED
      BY <3>1 DEF AccountInv
  <2>2. CASE UNCHANGED <<first, cursor>>
    <3>1. Told(held) = {}
      BY <1>1, MuteFrames
    <3> QED
      BY <1>1, <1>3, <1>5, <2>2, <3>1, AccountedTask
  <2> QED
    BY <1>1, <2>1, <2>2
<1> QED
  BY <1>3, <1>4, <1>8, <1>9

\* FilterChanged
LEMMA FilterChangedStep ==
  ASSUME IInv, FilterChanged
  PROVE  IInv'
<1> USE DEF IInv
<1>1. /\ task = "run" /\ task' = "changed" /\ held = NoFrame
      /\ seen' = TRUE
      /\ UNCHANGED <<bridge, transport, published, channel, first, cursor, asked, held,
                     queue, socket, written, lost, messages>>
  BY DEF FilterChanged, PlaceInv, streamVars, clientVars
<1>2. TypeOK' /\ PlaceInv'
  BY <1>1 DEF TypeOK, PlaceInv
<1>3. Onward /\ Sent' = Sent
  BY <1>1, LenProperties DEF Onward, Sent, TypeOK
<1>4. FramesInv' /\ HonourInv'
  BY <1>1, <1>2, <1>3, NothingChanged
<1>5. Told(held) = {}
  BY <1>1, MuteFrames
<1>6. AccountInv'
  BY <1>1, <1>2, <1>3, <1>5, AccountedTask
<1> QED
  BY <1>2, <1>4, <1>6

\* RecvEvent: the event taken is the one to judge.
LEMMA RecvEventStep ==
  ASSUME IInv, RecvEvent
  PROVE  IInv'
<1> USE DEF IInv
<1>1. /\ task = "run" /\ task' = "event" /\ held = NoFrame
      /\ cursor < Len(published) /\ cursor' = cursor + 1
      /\ UNCHANGED <<bridge, transport, published, channel, first, asked, seen, held,
                     queue, socket, written, lost, messages>>
  BY DEF RecvEvent, PlaceInv, streamVars, clientVars
<1>2. cursor \in Nat /\ Len(published) \in Nat /\ first \in Nat /\ first <= cursor
  BY LenProperties DEF TypeOK, PlaceInv
<1>3. TypeOK' /\ PlaceInv'
  BY <1>1, <1>2 DEF TypeOK, PlaceInv
<1>4. Onward /\ Sent' = Sent
  BY <1>1, <1>2, LenProperties DEF Onward, Sent, TypeOK
<1>5. FrameOK(held', cursor', Len(asked')) /\ Ahead(Sent, held')
      /\ Allows(Sent, held', bridge', asked', published')
  BY <1>1, MuteFrames DEF FrameOK, Ahead, Allows
<1>6. ASSUME NEW k \in DOMAIN Sent, NEW i \in Told(Sent[k]) PROVE i < cursor'
  <2>1. i <= cursor /\ i \in Int
    BY SentType, ToldNumbers DEF FramesInv, FrameOK
  <2> QED
    BY <1>1, <1>2, <2>1
<1>7. FramesInv' /\ HonourInv'
  BY <1>3, <1>4, <1>5, <1>6, NothingSent
<1>8. AccountInv'
  <2> SUFFICES ASSUME socket = "open", NEW i \in (first + 1)..(cursor + 1)
               PROVE  Accounted(i)'
    BY <1>1 DEF AccountInv
  <2>1. CASE i = cursor + 1
    BY <1>1, <2>1 DEF Accounted
  <2>2. CASE i # cursor + 1
    <3>1. i \in (first + 1)..cursor
      BY <1>2, <2>2
    <3>2. Accounted(i) /\ Told(held) = {}
      BY <1>1, <3>1, MuteFrames DEF AccountInv
    <3> QED
      BY <1>1, <1>4, <3>2 DEF Accounted
  <2> QED
    BY <2>1, <2>2
<1> QED
  BY <1>3, <1>7, <1>8

\* RecvLagged: the frame tells of all that was skipped.
LEMMA RecvLaggedStep ==
  ASSUME IInv, RecvLagged
  PROVE  IInv'
<1> USE DEF IInv
<1>1. /\ task = "run" /\ task' = "send" /\ held = NoFrame
      /\ cursor < Oldest /\ cursor' = Oldest /\ held' = LaggedFrame(Oldest - cursor, Oldest)
      /\ UNCHANGED <<bridge, transport, published, channel, first, asked, seen,
                     queue, socket, written, lost, messages>>
  BY DEF RecvLagged, PlaceInv, streamVars, clientVars
<1>2. cursor \in Nat /\ Len(published) \in Nat /\ first \in Nat /\ first <= cursor
  BY LenProperties DEF TypeOK, PlaceInv
<1>3. Oldest \in Nat /\ Oldest <= Len(published)
  BY <1>2, RealtimeAssumption DEF Oldest
<1>4. held' \in Frames
  BY <1>1, <1>2, <1>3, FrameTypes
<1>5. TypeOK' /\ PlaceInv'
  BY <1>1, <1>2, <1>3, <1>4 DEF TypeOK, PlaceInv
<1>6. Onward /\ Sent' = Sent
  BY <1>1, <1>2, <1>3, LenProperties DEF Onward, Sent, TypeOK
<1>7. Told(held') = (cursor + 1)..Oldest /\ held'.kind = "lagged"
  BY <1>1, <1>2, <1>3, LaggedFrameTells
<1>8. FrameOK(held', cursor', Len(asked'))
  BY <1>1, <1>2, <1>3, <1>7 DEF FrameOK
<1>9. Ahead(Sent, held')
  <2> SUFFICES ASSUME NEW k \in DOMAIN Sent, NEW i \in Told(Sent[k]), NEW j \in Told(held')
               PROVE  i < j
    BY DEF Ahead
  <2>1. i <= cursor /\ i \in Int
    BY SentType, ToldNumbers DEF FramesInv, FrameOK
  <2>2. j \in (cursor + 1)..Oldest
    BY <1>7
  <2> QED
    BY <1>2, <1>3, <2>1, <2>2
<1>10. FramesInv' /\ HonourInv'
  <2>1. Allows(Sent, held', bridge', asked', published')
    BY <1>7 DEF Allows
  <2> QED
    BY <1>1, <1>5, <1>6, <1>8, <1>9, <2>1, NothingSent
<1>11. AccountInv'
  <2> SUFFICES ASSUME socket = "open", NEW i \in (first + 1)..Oldest
               PROVE  Accounted(i)'
    BY <1>1 DEF AccountInv
  <2>1. CASE i \in (cursor + 1)..Oldest
    BY <1>7, <2>1 DEF Accounted
  <2>2. CASE i \notin (cursor + 1)..Oldest
    <3>1. i \in (first + 1)..cursor
      BY <1>2, <1>3, <2>2
    <3>2. Accounted(i) /\ Told(held) = {}
      BY <1>1, <3>1, MuteFrames DEF AccountInv
    <3> QED
      BY <1>1, <1>6, <3>2 DEF Accounted
  <2> QED
    BY <2>1, <2>2
<1> QED
  BY <1>5, <1>10, <1>11

\* RecvClosed
LEMMA RecvClosedStep ==
  ASSUME IInv, RecvClosed
  PROVE  IInv'
<1> USE DEF IInv
<1>1. /\ task = "run" /\ task' = "ended" /\ held = NoFrame
      /\ socket' \in {socket, "closed"}
      /\ UNCHANGED <<bridge, transport, published, channel, first, cursor, asked, seen,
                     held, queue, written, lost, messages>>
  BY DEF RecvClosed, PlaceInv, streamVars, clientVars
<1>2. socket # "none"
  BY <1>1 DEF PlaceInv
<1>3. TypeOK' /\ PlaceInv'
  BY <1>1, <1>2 DEF TypeOK, PlaceInv
<1>4. Onward /\ Sent' = Sent
  BY <1>1, LenProperties DEF Onward, Sent, TypeOK
<1>5. FramesInv' /\ HonourInv'
  BY <1>1, <1>3, <1>4, NothingChanged
<1>6. Told(held) = {} /\ (socket' = "open" => socket = "open")
  BY <1>1, MuteFrames
<1>7. AccountInv'
  BY <1>1, <1>3, <1>4, <1>6, AccountedTask
<1> QED
  BY <1>3, <1>5, <1>7

\* Judge: an event that the filter in force lets through is held, another one
\* was kept back by that filter.
LEMMA JudgeStep ==
  ASSUME IInv, Judge
  PROVE  IInv'
<1> USE DEF IInv
<1>1. /\ task \in {"changed", "event"} /\ held = NoFrame
      /\ UNCHANGED <<bridge, transport, published, channel, first, cursor, asked, seen,
                     queue, socket, written, lost, messages>>
  BY DEF Judge, PlaceInv, streamVars, clientVars
<1>2. /\ Len(asked) \in Nat \ {0} /\ DOMAIN asked = 1..Len(asked)
      /\ cursor \in Nat /\ Len(published) \in Nat /\ cursor <= Len(published)
  BY <1>1, EmptySeq, LenProperties DEF PlaceInv, TypeOK
<1>3. Onward /\ Sent' = Sent
  BY <1>1, <1>2 DEF Onward, Sent, TypeOK
<1>4. Told(held) = {}
  BY <1>1, MuteFrames
<1>5. CASE task = "changed"
  <2>1. task' = "send" /\ held' = FilterFrame(Len(asked))
    BY <1>5 DEF Judge
  <2>2. /\ held' \in Frames /\ Told(held') = {} /\ held'.kind = "filter"
        /\ held'.n = Len(asked)
    BY <1>2, <2>1, FrameTypes, FilterFrameTells
  <2>3. TypeOK' /\ PlaceInv'
    BY <1>1, <2>1, <2>2 DEF TypeOK, PlaceInv
  <2>4. FrameOK(held', cursor', Len(asked')) /\ Ahead(Sent, held')
        /\ Allows(Sent, held', bridge', asked', published')
    BY <1>1, <1>2, <2>2 DEF FrameOK, Ahead, Allows
  <2>5. FramesInv' /\ HonourInv'
    BY <1>3, <2>1, <2>3, <2>4, NothingSent
  <2>6. AccountInv'
    BY <1>1, <1>3, <1>4, <1>5, <2>1, <2>3, AccountedTask
  <2> QED
    BY <2>3, <2>5, <2>6
<1>6. CASE task = "event" /\ Lets(bridge, asked[Len(asked)], published[cursor])
  <2>1. task' = "send" /\ held' = EventFrame(cursor)
    BY <1>6 DEF Judge, Matches, Lets, InForce
  <2>2. /\ held' \in Frames /\ Told(held') = {cursor} /\ held'.kind = "event"
        /\ held'.at = cursor
    BY <1>2, <2>1, FrameTypes, EventFrameTells
  <2>3. TypeOK' /\ PlaceInv'
    BY <1>1, <2>1, <2>2 DEF TypeOK, PlaceInv
  <2>4. cursor # 0
    BY <1>2, <1>6 DEF PlaceInv
  <2>5. FrameOK(held', cursor', Len(asked')) /\ Ahead(Sent, held')
    BY <1>1, <1>2, <1>6, <2>2, <2>4 DEF FrameOK, Ahead, FramesInv
  <2>6. Allows(Sent, held', bridge', asked', published')
    <3> SUFFICES ASSUME NEW k \in DOMAIN Sent, Sent[k].kind = "filter"
                 PROVE  Lawful(bridge', asked', published', Sent[k].n, held'.at)
      BY DEF Allows
    <3>1. Sent[k].n <= Len(asked) /\ Len(asked) \in DOMAIN asked /\ Sent[k].n \in Nat
      BY <1>2, SentType DEF FramesInv, FrameOK, Frames
    <3>2. Len(asked) >= Sent[k].n
      BY <1>2, <3>1
    <3> QED
      BY <1>1, <1>6, <2>2, <3>1, <3>2 DEF Lawful
  <2>7. FramesInv' /\ HonourInv'
    BY <1>3, <2>1, <2>3, <2>5, <2>6, NothingSent
  <2>8. Accounted(cursor)'
    BY <1>1, <2>2 DEF Accounted
  <2>9. AccountInv'
    BY <1>1, <1>3, <1>4, <1>6, <2>1, <2>3, <2>8, AccountedTask
  <2> QED
    BY <2>3, <2>7, <2>9
<1>7. CASE task = "event" /\ ~Lets(bridge, asked[Len(asked)], published[cursor])
  <2>1. task' = "run" /\ held' = held
    BY <1>7 DEF Judge, Matches, Lets, InForce
  <2>2. TypeOK' /\ PlaceInv'
    BY <1>1, <2>1 DEF TypeOK, PlaceInv
  <2>3. FramesInv' /\ HonourInv'
    BY <1>3, <2>1, <2>2, NothingChanged
  <2>4. Accounted(cursor)'
    BY <1>1, <1>2, <1>7 DEF Accounted
  <2>5. AccountInv'
    BY <1>1, <1>3, <1>4, <1>7, <2>1, <2>2, <2>4, AccountedTask
  <2> QED
    BY <2>2, <2>3, <2>5
<1> QED
  BY <1>1, <1>5, <1>6, <1>7

\* Send: the frame is queued or written, or it is lost and the task ends.
LEMMA SendStep ==
  ASSUME IInv, Send
  PROVE  IInv'
<1> USE DEF IInv
<1>1. /\ task = "send" /\ held' = NoFrame
      /\ UNCHANGED <<bridge, transport, published, channel, first, cursor, asked, seen,
                     socket, messages>>
  BY DEF Send, streamVars, clientVars
<1>2. /\ held \in Frames /\ NoFrame \in Frames /\ queue \in Seq(Frames)
      /\ written \in Seq(Frames) /\ Told(NoFrame) = {} /\ socket # "none"
      /\ NoFrame.kind # "event" /\ NoFrame.kind # "filter"
  BY <1>1, FrameTypes, MuteFrames DEF TypeOK, PlaceInv
<1>3. Onward
  BY <1>1, LenProperties DEF Onward, TypeOK
<1>4. CASE task' = "run" /\ (\/ written' = Append(written, held) /\ queue' = queue /\ queue = <<>>
                             \/ queue' = Append(queue, held) /\ written' = written
                                  /\ transport # "sse") /\ lost' = lost
  <2>1. Sent' = Append(Sent, held) /\ written' \in Seq(Frames) /\ queue' \in Seq(Frames)
    <3>1. CASE written' = Append(written, held) /\ queue' = queue /\ queue = <<>>
      <4>1. Append(written, held) \in Seq(Frames)
        BY <1>2, AppendProperties
      <4>2. Append(written, held) \o <<>> = Append(written, held) /\ written \o <<>> = written
        BY <1>2, <4>1, ConcatEmptySeq
      <4> QED
        BY <1>2, <3>1, <4>1, <4>2 DEF Sent
    <3>2. CASE queue' = Append(queue, held) /\ written' = written
      BY <1>2, <3>2, AppendLast, AppendProperties DEF Sent
    <3> QED
      BY <1>4, <3>1, <3>2
  <2>2. TypeOK'
    BY <1>1, <1>2, <1>4, <2>1 DEF TypeOK
  <2>3. PlaceInv'
    BY <1>1, <1>2, <1>4 DEF PlaceInv
  <2>4. FrameOK(held, cursor, Len(asked)) /\ Ahead(Sent, held)
    BY DEF FramesInv
  <2>5. Allows(Sent, held, bridge', asked', published')
    BY <1>3, <2>2, HonourOnward
  <2>6. FramesInv' /\ HonourInv'
    BY <1>1, <1>2, <1>3, <1>4, <2>1, <2>2, <2>4, <2>5, FrameSent
  <2>7. Sent \in Seq(Frames)
    BY SentType
  <2>8. /\ \A k \in DOMAIN Sent : k \in DOMAIN Sent' /\ Sent'[k] = Sent[k]
        /\ Len(Sent) + 1 \in DOMAIN Sent' /\ Sent'[Len(Sent) + 1] = held
    BY <1>2, <2>1, <2>7, AppendFrames
  <2>9. \A i \in Told(held) : Accounted(i)'
    BY <2>8 DEF Accounted
  <2>10. AccountInv'
    BY <1>1, <2>2, <2>8, <2>9, AccountedTask
  <2> QED
    BY <2>2, <2>3, <2>6, <2>10
<1>5. CASE task' = "overflow" /\ lost' = lost \cup Told(held) /\ UNCHANGED <<queue, written>>
            /\ transport # "sse"
  <2>1. Sent' = Sent
    BY <1>5 DEF Sent
  <2>2. TypeOK' /\ PlaceInv'
    BY <1>1, <1>2, <1>5 DEF TypeOK, PlaceInv
  <2>3. FrameOK(held', cursor', Len(asked')) /\ Ahead(Sent, held')
        /\ Allows(Sent, held', bridge', asked', published')
    BY <1>1, <1>2 DEF FrameOK, Ahead, Allows
  <2>4. FramesInv' /\ HonourInv'
    BY <1>3, <1>5, <2>1, <2>2, <2>3, NothingSent
  <2>5. \A i \in Told(held) : Accounted(i)'
    BY <1>5 DEF Accounted
  <2>6. AccountInv'
    BY <1>1, <2>1, <2>2, <2>5, AccountedTask
  <2> QED
    BY <2>2, <2>4, <2>6
<1> QED
  BY <1>4, <1>5 DEF Send, PlaceInv

\* SendClose
LEMMA SendCloseStep ==
  ASSUME IInv, SendClose
  PROVE  IInv'
<1> USE DEF IInv
<1>1. /\ task = "overflow" /\ task' = "ended" /\ held = NoFrame
      /\ UNCHANGED <<bridge, transport, published, channel, first, cursor, asked, seen,
                     held, socket, written, lost, messages>>
      /\ \/ queue' = Append(queue, CloseFrame) \/ queue' = queue
  BY DEF SendClose, PlaceInv, streamVars, clientVars
<1>2. /\ queue \in Seq(Frames) /\ written \in Seq(Frames) /\ socket # "none"
      /\ CloseFrame \in Frames /\ Told(CloseFrame) = {} /\ Told(NoFrame) = {}
      /\ CloseFrame.kind # "event" /\ CloseFrame.kind # "filter"
  BY <1>1, FrameTypes, MuteFrames DEF TypeOK, PlaceInv
<1>3. Onward
  BY <1>1, LenProperties DEF Onward, TypeOK
<1>4. CASE queue' = queue
  <2>1. Sent' = Sent
    BY <1>1, <1>4 DEF Sent
  <2>2. TypeOK' /\ PlaceInv'
    BY <1>1, <1>4, <1>2 DEF TypeOK, PlaceInv
  <2>3. FramesInv' /\ HonourInv'
    BY <1>1, <1>3, <2>1, <2>2, NothingChanged
  <2>4. AccountInv'
    BY <1>1, <1>2, <2>1, <2>2, AccountedTask
  <2> QED
    BY <2>2, <2>3, <2>4
<1>5. CASE queue' = Append(queue, CloseFrame)
  <2>1. Sent' = Append(Sent, CloseFrame) /\ queue' \in Seq(Frames)
    BY <1>1, <1>2, <1>5, AppendLast, AppendProperties DEF Sent
  <2>2. TypeOK'
    BY <1>1, <2>1 DEF TypeOK
  <2>3. transport # "sse"
    BY <1>1 DEF PlaceInv
  <2>4. PlaceInv'
    BY <1>1, <1>2, <2>3 DEF PlaceInv
  <2>5. FrameOK(CloseFrame, cursor, Len(asked)) /\ Ahead(Sent, CloseFrame)
        /\ Allows(Sent, CloseFrame, bridge', asked', published')
    BY <1>2 DEF FrameOK, Ahead, Allows
  <2>6. FramesInv' /\ HonourInv'
    BY <1>1, <1>2, <1>3, <2>1, <2>2, <2>5, FrameSent
  <2>7. Sent \in Seq(Frames)
    BY SentType
  <2>8. \A k \in DOMAIN Sent : k \in DOMAIN Sent' /\ Sent'[k] = Sent[k]
    BY <1>2, <2>1, <2>7, AppendFrames
  <2>9. AccountInv'
    BY <1>1, <1>2, <2>2, <2>8, AccountedTask
  <2> QED
    BY <2>2, <2>4, <2>6, <2>9
<1> QED
  BY <1>1, <1>4, <1>5

\* Hangup: nothing is left of the client.
LEMMA HangupStep ==
  ASSUME IInv, Hangup, socket # "none",
         UNCHANGED <<bridge, transport, published, channel, first, cursor, asked, seen>>,
         messages' \in Nat
  PROVE  IInv'
<1> USE DEF IInv
<1>1. /\ socket' = "closed" /\ task' = "ended" /\ held' = NoFrame
      /\ queue' = <<>> /\ written' = <<>>
  BY DEF Hangup
<1>2. NoFrame \in Frames
  BY FrameTypes
<1>3. TypeOK' /\ PlaceInv'
  BY <1>1, <1>2 DEF TypeOK, PlaceInv
<1>4. Sent' = <<>>
  BY <1>1 DEF Sent
<1>5. FramesInv' /\ HonourInv'
  BY <1>1, <1>4, NothingLeft
<1>6. AccountInv'
  BY <1>1 DEF AccountInv
<1> QED
  BY <1>3, <1>5, <1>6

\* WriteOut
LEMMA WriteOutStep ==
  ASSUME IInv, WriteOut
  PROVE  IInv'
<1> USE DEF IInv
<1>1. /\ socket \in {"open", "closing"} /\ queue # <<>>
      /\ UNCHANGED <<bridge, transport, published, channel, first, cursor, asked, seen,
                     messages>>
  BY DEF WriteOut, streamVars, clientVars
<1>2. CASE socket = "closing"
  <2>1. Hangup
    BY <1>2 DEF WriteOut
  <2>2. messages' \in Nat
    BY <1>1 DEF TypeOK
  <2> QED
    BY <1>1, <2>1, <2>2, HangupStep
<1>3. CASE socket # "closing"
  <2>1. /\ written' = Append(written, Head(queue)) /\ queue' = Tail(queue)
        /\ socket' \in {"open", "closing"} /\ UNCHANGED <<task, held, lost>>
        /\ socket = "open"
    BY <1>1, <1>3 DEF WriteOut
  <2>2. queue \in Seq(Frames) /\ written \in Seq(Frames)
    BY DEF TypeOK
  <2>3. Head(queue) \in Frames /\ Tail(queue) \in Seq(Frames)
    BY <1>1, <2>2, HeadTailProperties
  <2>4. written' \in Seq(Frames) /\ queue' \in Seq(Frames)
    BY <2>1, <2>2, <2>3, AppendProperties
  <2>5. Sent' = Sent
    BY <1>1, <2>1, <2>2, MoveHead DEF Sent
  <2>6. TypeOK'
    BY <1>1, <2>1, <2>4 DEF TypeOK
  <2>7. PlaceInv'
    BY <1>1, <2>1 DEF PlaceInv
  <2>8. Onward
    BY <1>1, LenProperties DEF Onward, TypeOK
  <2>9. FramesInv' /\ HonourInv'
    BY <2>1, <2>5, <2>6, <2>8, NothingChanged
  <2>10. AccountInv'
    BY <1>1, <2>1, <2>5, <2>6, <2>8, AccountedOnward
  <2> QED
    BY <2>6, <2>7, <2>9, <2>10
<1> QED
  BY <1>2, <1>3

\* Disconnect
LEMMA DisconnectStep ==
  ASSUME IInv, Disconnect
  PROVE  IInv'
<1> USE DEF IInv
<1>1. /\ socket # "none" /\ Hangup
      /\ UNCHANGED <<bridge, transport, published, channel, first, cursor, asked, seen,
                     messages>>
  BY DEF Disconnect, streamVars, clientVars
<1>2. messages' \in Nat
  BY <1>1 DEF TypeOK
<1> QED
  BY <1>1, <1>2, HangupStep

\* ClientSubscribe
LEMMA ClientSubscribeStep ==
  ASSUME IInv, ClientSubscribe
  PROVE  IInv'
<1> USE DEF IInv
<1>1. /\ socket # "none" /\ messages' = messages + 1
      /\ UNCHANGED <<bridge, transport, published, channel, first, cursor>>
  BY DEF ClientSubscribe, ClientSends, streamVars, clientVars
<1>2. messages' \in Nat
  BY <1>1 DEF TypeOK
<1>3. CASE Hangup /\ UNCHANGED <<asked, seen>>
  BY <1>1, <1>2, <1>3, HangupStep
<1>4. CASE /\ \E f \in Filters : asked' = Append(asked, Normalized(f))
           /\ seen' = FALSE
           /\ UNCHANGED <<socket, task, held, queue, written, lost>>
  <2>1. PICK f \in Filters : asked' = Append(asked, Normalized(f))
    BY <1>4
  <2>2. Normalized(f) \in Chosen /\ asked \in Seq(Chosen)
    BY DEF Chosen, TypeOK
  <2>3. /\ asked' \in Seq(Chosen) /\ Len(asked') = Len(asked) + 1 /\ asked' # <<>>
        /\ \A v \in 1..Len(asked) : asked'[v] = asked[v]
    BY <2>1, <2>2, AppendProperties
  <2>4. /\ Len(asked) \in Nat /\ DOMAIN asked = 1..Len(asked)
        /\ DOMAIN asked' = 1..Len(asked')
    BY <2>2, <2>3, LenProperties
  <2>5. TypeOK' /\ PlaceInv'
    BY <1>1, <1>2, <1>4, <2>3 DEF TypeOK, PlaceInv
  <2>6. Onward /\ Sent' = Sent
    BY <1>1, <1>4, <2>3, <2>4 DEF Onward, Sent, TypeOK
  <2>7. FramesInv' /\ HonourInv'
    BY <1>4, <2>5, <2>6, NothingChanged
  <2>8. AccountInv'
    BY <1>1, <1>4, <2>5, <2>6, AccountedOnward
  <2> QED
    BY <2>5, <2>7, <2>8
<1> QED
  BY <1>3, <1>4 DEF ClientSubscribe

\* Reply: the frame is queued, or the client that left no room is gone.
LEMMA ReplyStep ==
  ASSUME IInv, ClientSends, NEW x \in {ReadyFrame(Len(asked)), ErrorFrame, QueuedFrame},
         Reply(x), UNCHANGED <<bridge, transport, published, channel, first, cursor, asked, seen>>
  PROVE  IInv'
<1> USE DEF IInv
<1>1. Len(asked) \in Nat
  BY LenProperties DEF TypeOK
<1>2. /\ x \in Frames /\ Told(x) = {} /\ x.kind # "event" /\ x.kind # "filter"
  BY <1>1, FrameTypes, MuteFrames
<1>3. /\ transport = "ws" /\ socket # "none" /\ messages' \in Nat
  BY DEF ClientSends, TypeOK
<1>4. CASE Hangup
  BY <1>3, <1>4, HangupStep
<1>5. CASE queue' = Append(queue, x) /\ UNCHANGED <<socket, task, held, written, lost>>
  <2>1. Sent' = Append(Sent, x) /\ queue' \in Seq(Frames)
    BY <1>2, <1>5, AppendLast, AppendProperties, SMTT(30) DEF Sent, TypeOK
  <2>2. TypeOK'
    BY <1>3, <1>5, <2>1 DEF TypeOK
  <2>3. PlaceInv'
    BY <1>3, <1>5 DEF PlaceInv
  <2>4. Onward
    BY LenProperties DEF Onward, TypeOK
  <2>5. FramesInv' /\ HonourInv'
    BY <1>2, <1>5, <2>1, <2>2, <2>4, ReplySent
  <2>6. Sent \in Seq(Frames)
    BY SentType
  <2>7. \A k \in DOMAIN Sent : k \in DOMAIN Sent' /\ Sent'[k] = Sent[k]
    BY <1>2, <2>1, <2>6, AppendFrames
  <2>8. AccountInv'
    BY <1>5, <2>2, <2>4, <2>7, AccountedOnward
  <2> QED
    BY <2>2, <2>3, <2>5, <2>8
<1> QED
  BY <1>4, <1>5 DEF Reply

\* What the client sends is answered as handle_client_message() does.
LEMMA ClientMessageStep ==
  ASSUME IInv, ClientMessage
  PROVE  IInv'
<1>1. CASE ClientSubscribe
  BY <1>1, ClientSubscribeStep
<1>2. CASE ClientPing
  BY <1>2, ReplyStep DEF ClientPing, clientVars, streamVars
<1>3. CASE ClientMalformed
  BY <1>3, ReplyStep DEF ClientMalformed, clientVars, streamVars
<1>4. CASE ClientCommand
  <2>1. PICK r \in Requests, accepted \in BOOLEAN : Reply(CommandReply(r, accepted))
    BY <1>4 DEF ClientCommand
  <2>2. CommandReply(r, accepted) \in {ErrorFrame, QueuedFrame}
    BY DEF CommandReply
  <2>3. PICK x \in {ErrorFrame, QueuedFrame} : Reply(x)
    BY <2>1, <2>2
  <2> QED
    BY <1>4, <2>3, ReplyStep DEF ClientCommand, clientVars, streamVars
<1> QED
  BY <1>1, <1>2, <1>3, <1>4 DEF ClientMessage

-----------------------------------------------------------------------------
(* Theorems *)

\* The invariant is inductive.
THEOREM Invariance == RealtimeSpec => []IInv
<1>1. RealtimeInit => IInv
  <2> SUFFICES ASSUME RealtimeInit PROVE IInv
    OBVIOUS
  <2>1. /\ bridge \in BOOLEAN /\ transport = "ws" /\ published = <<>> /\ channel = "open"
        /\ first = 0 /\ cursor = 0 /\ asked = <<>> /\ seen = TRUE
        /\ task = "none" /\ held = NoFrame /\ queue = <<>> /\ socket = "none"
        /\ written = <<>> /\ lost = {} /\ messages = 0
    BY DEF RealtimeInit
  <2>2. NoFrame \in Frames /\ Told(NoFrame) = {} /\ NoFrame.kind # "event"
        /\ NoFrame.kind # "filter"
    BY FrameTypes, MuteFrames
  <2>3. TypeOK
    BY <2>1, <2>2 DEF TypeOK
  <2>4. PlaceInv
    BY <2>1 DEF PlaceInv
  <2>5. DOMAIN Sent = {}
    BY <2>1 DEF Sent
  <2>6. FramesInv /\ HonourInv
    BY <2>1, <2>2, <2>5 DEF FramesInv, FrameOK, Ordered, Ahead, HonourInv, Honoured, Allows
  <2>7. AccountInv
    BY <2>1 DEF AccountInv
  <2> QED
    BY <2>3, <2>4, <2>6, <2>7 DEF IInv
<1>2. IInv /\ [RealtimeNext]_rtVars => IInv'
  <2> SUFFICES ASSUME IInv, [RealtimeNext]_rtVars PROVE IInv'
    OBVIOUS
  <2>1. CASE Publish
    BY <2>1, PublishStep
  <2>2. CASE CloseChannel
    BY <2>2, CloseChannelStep
  <2>3. CASE ConnectWs \/ ConnectSse
    BY <2>3, ConnectStep
  <2>4. CASE Telemetry
    BY <2>4, StartStep, FilterChangedStep, RecvEventStep, RecvLaggedStep, RecvClosedStep,
       JudgeStep, SendStep, SendCloseStep DEF Telemetry
  <2>5. CASE SocketLoop
    BY <2>5, WriteOutStep, DisconnectStep, ClientMessageStep DEF SocketLoop
  <2>6. CASE UNCHANGED rtVars
    <3>1. TypeOK /\ PlaceInv /\ FramesInv /\ HonourInv /\ AccountInv
      BY DEF IInv
    <3>2. TypeOK' /\ PlaceInv'
      BY <2>6, <3>1 DEF rtVars, TypeOK, PlaceInv
    <3>3. Onward /\ Sent' = Sent
      BY <2>6, <3>1, LenProperties DEF rtVars, Onward, Sent, TypeOK
    <3>4. FramesInv' /\ HonourInv'
      BY <2>6, <3>1, <3>2, <3>3, NothingChanged DEF rtVars
    <3>5. AccountInv'
      BY <2>6, <3>1, <3>2, <3>3, AccountedOnward DEF rtVars
    <3> QED
      BY <3>2, <3>4, <3>5 DEF IInv
  <2> QED
    BY <2>1, <2>2, <2>3, <2>4, <2>5, <2>6 DEF RealtimeNext
<1> QED
  BY <1>1, <1>2, PTL DEF RealtimeSpec

\* Every variable keeps its type: the receiver never points past the stream,
\* queue and socket hold frames that the code builds.
THEOREM TypesHold == RealtimeSpec => []TypeOK
<1>1. IInv => TypeOK
  BY DEF IInv
<1> QED
  BY <1>1, Invariance, PTL

\* A connected client can account for every event since its receiver was made:
\* told of in order and once, kept back by a filter it asked for, or lost with
\* the end of its stream.
THEOREM StreamAccountsHold == RealtimeSpec => []StreamAccounts
<1>1. IInv => StreamAccounts
  <2> SUFFICES ASSUME IInv PROVE StreamAccounts
    OBVIOUS
  <2>1. Ordered(Sent) /\ AccountInv
    BY DEF IInv, FramesInv
  <2>2. \A f, e : Matches(f, e) <=> Lets(bridge, f, e)
    BY DEF Matches, Lets
  <2> QED
    BY <2>1, <2>2 DEF StreamAccounts, Ordered, AccountInv, Accounted
<1> QED
  BY <1>1, Invariance, PTL

\* After FilterUpdated no event comes that only an older filter lets through.
THEOREM FilterHonouredHolds == RealtimeSpec => []FilterHonoured
<1>1. IInv => FilterHonoured
  <2> SUFFICES ASSUME IInv, NEW k \in DOMAIN Sent, NEW l \in DOMAIN Sent, k < l,
                      Sent[k].kind = "filter", Sent[l].kind = "event"
               PROVE  \E v \in DOMAIN asked :
                        v >= Sent[k].n /\ Matches(asked[v], published[Sent[l].at])
    BY DEF FilterHonoured, OfKind
  <2>1. Lawful(bridge, asked, published, Sent[k].n, Sent[l].at)
    BY DEF IInv, HonourInv, Honoured
  <2>2. \A f, e : Matches(f, e) <=> Lets(bridge, f, e)
    BY DEF Matches, Lets
  <2> QED
    BY <2>1, <2>2 DEF Lawful
<1> QED
  BY <1>1, Invariance, PTL

=============================================================================
