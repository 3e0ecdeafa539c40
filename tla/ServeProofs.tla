----------------------------- MODULE ServeProofs -----------------------------
(* Theorems about Serve, for any frames, digests and tools.                 *)
EXTENDS Serve, TLAPS

\* Who is on the desk has an empty channel, which nobody else can send to, and
\* asks for what is not drawn yet.
Registered ==
  \A d \in Digest, w \in Widget : w \in wait[d] =>
    /\ d = Asked(w) /\ drawn[d] = NotDrawn
    /\ fpc[w] \in {"waiting", "expired"} /\ chan[w] = <<>>
    /\ \A c \in Call : w \notin release[c]

\* Who was taken from the desk is in the hands of one call, which is releasing.
Taken ==
  \A c \in Call, w \in Widget : w \in release[c] =>
    /\ fpc[c] = "release" /\ chan[w] = <<>>
    /\ fpc[w] \in {"waiting", "expired", "respond", "done"}
    /\ \A e \in Call : e # c => w \notin release[e]

\* Nobody has sent to a widget that was not handled yet.
Untouched == \A w \in Widget : fpc[w] \in {"unread", "handle"} => chan[w] = <<>>

\* Nothing is read once stdin is closed.
Closed == exited => closed

ServeInv ==
  /\ ServeTypeOK /\ Registered /\ Taken /\ Untouched /\ NoLostWaiter
  /\ Closed /\ RepliesBeforeExit

\* A frame is of one kind.
LEMMA Kinds ==
  /\ \A c \in Call : c \in Frame /\ c \notin Widget /\ c \notin Hello
  /\ \A w \in Widget : w \in Frame /\ w \notin Call /\ w \notin Hello /\ Asked(w) \in Digest
  /\ \A h \in Hello : h \in Frame /\ h \notin Call /\ h \notin Widget
  /\ \A c \in Call : ArgsOf[c] \in Digest
BY Frames DEF Frame, Asked

\* An answer is not the absence of one.
LEMMA Answers == \A d \in Drawings : d # NotDrawn
BY NoCallIsNotDrawn DEF Drawings, NotDrawn, Empty

LEMMA Start == ServeInit => ServeInv
<1> SUFFICES ASSUME ServeInit PROVE ServeInv
  OBVIOUS
<1> USE DEF ServeInit
<1>1. ServeTypeOK
  BY DEF ServeTypeOK, FramePcs, Drawings
<1>2. Registered /\ Taken
  BY DEF Registered, Taken
<1>3. Untouched /\ NoLostWaiter
  BY Kinds DEF Untouched, NoLostWaiter
<1>4. Closed /\ RepliesBeforeExit
  BY DEF Closed, RepliesBeforeExit
<1> QED
  BY <1>1, <1>2, <1>3, <1>4 DEF ServeInv

\* A step of a frame that is at no wait, release or exit changes what the
\* invariant says of the desk in no way.
LEMMA Elsewhere ==
  ASSUME ServeInv, NEW f \in Frame, NEW l \in FramePcs,
         fpc' = [fpc EXCEPT ![f] = l],
         UNCHANGED <<desk, release, chan>>,
         f \in Widget => \/ fpc[f] = "unread" /\ l = "handle"
                         \/ fpc[f] = "handle" /\ l = "respond"
                         \/ fpc[f] = "respond" /\ l = "done",
         f \in Call => fpc[f] # "release"
  PROVE  Registered' /\ Taken' /\ Untouched' /\ NoLostWaiter'
<1> USE Kinds DEF ServeInv, ServeTypeOK, desk
<1>1. Registered'
  BY DEF Registered, Asked
<1>2. Taken'
  BY DEF Taken
<1>3. Untouched'
  BY DEF Untouched
<1>4. NoLostWaiter'
  BY DEF NoLostWaiter, Asked
<1> QED
  BY <1>1, <1>2, <1>3, <1>4

\* A channel has room for one drawing.
LEMMA Channel ==
  ASSUME ServeTypeOK, NEW w \in Widget
  PROVE  chan[w] = <<>> \/ \E d \in Drawings : chan[w] = <<d>>
BY DEF ServeTypeOK

\* A call sends to one waiter at a time, whose channel was empty, and ends when
\* it has sent to all.
LEMMA Sent ==
  ASSUME ServeTypeOK, NEW c \in Call, Send(c)
  PROVE  \/ release[c] = {} /\ Move(c, "respond") /\ UNCHANGED <<release, chan>>
         \/ \E w \in Widget :
              /\ w \in release[c] /\ chan[w] = <<>>
              /\ chan' = [chan EXCEPT ![w] = <<picture[c]>>]
              /\ release' = [release EXCEPT ![c] = @ \ {w}]
              /\ UNCHANGED fpc
<1>1. ASSUME NEW w \in release[c], Len(chan[w]) < 1,
             chan' = [chan EXCEPT ![w] = Append(@, picture[c])]
      PROVE  /\ w \in Widget /\ chan[w] = <<>>
             /\ chan' = [chan EXCEPT ![w] = <<picture[c]>>]
  <2>1. w \in Widget
    BY DEF ServeTypeOK
  <2>2. chan[w] = <<>>
    BY <1>1, <2>1, Channel
  <2> QED
    BY <1>1, <2>1, <2>2
<1>2. CASE release[c] = {} /\ Move(c, "respond") /\ UNCHANGED <<release, chan>>
  BY <1>2
<1>3. CASE \E w \in release[c] :
             /\ Len(chan[w]) < 1
             /\ chan' = [chan EXCEPT ![w] = Append(@, picture[c])]
             /\ release' = [release EXCEPT ![c] = @ \ {w}]
             /\ UNCHANGED fpc
  BY <1>1, <1>3
<1> QED
  BY <1>2, <1>3 DEF Send

\* A widget empties its channel.
LEMMA Received ==
  ASSUME ServeTypeOK, NEW w \in Widget, Receive(w)
  PROVE  chan' = [chan EXCEPT ![w] = <<>>]
<1>1. PICK d \in Drawings : chan[w] = <<d>>
  BY Channel DEF Receive
<1>2. Tail(chan[w]) = <<>>
  BY <1>1
<1> QED
  BY <1>2 DEF Receive

\* Every step keeps the types.
LEMMA Typed == ServeTypeOK /\ [ServeNext]_svars => ServeTypeOK'
<1> SUFFICES ASSUME ServeTypeOK, [ServeNext]_svars PROVE ServeTypeOK'
  OBVIOUS
<1> USE Kinds DEF ServeTypeOK, FramePcs, Move, loop, desk
<1>1. CASE UNCHANGED svars
  BY <1>1 DEF svars
<1>2. ASSUME NEW f \in Frame, ReadFrame(f) \/ Respond(f) \/ Initialize(f)
      PROVE  ServeTypeOK'
  BY <1>2 DEF ReadFrame, Respond, Initialize
<1>3. ASSUME NEW c \in Call, HandleCall(c) PROVE ServeTypeOK'
  <2>1. CASE StartCall(c)
    BY <2>1 DEF StartCall
  <2>2. CASE Upstream(c)
    BY <2>2 DEF Upstream, Drawings
  <2>3. CASE Publish(c)
    BY <2>3 DEF Publish
  <2>4. CASE Send(c)
    <3>1. fpc' \in [Frame -> FramePcs] /\ release' \in [Call -> SUBSET Widget]
      BY <2>4 DEF Send
    <3>2. chan' = chan \/ \E w \in Widget : chan' = [chan EXCEPT ![w] = <<picture[c]>>]
      BY <2>4, Sent
    <3>3. chan' \in [Widget -> {<<>>} \cup {<<d>> : d \in Drawings}]
      BY <3>2
    <3> QED
      BY <2>4, <3>1, <3>3 DEF Send
  <2> QED
    BY <1>3, <2>1, <2>2, <2>3, <2>4 DEF HandleCall
<1>4. ASSUME NEW w \in Widget, HandleWidget(w) \/ Expire(w) PROVE ServeTypeOK'
  <2>1. CASE Collect(w)
    BY <2>1 DEF Collect
  <2>2. CASE Unknown(w)
    BY <2>2 DEF Unknown
  <2>3. CASE Receive(w)
    <3>1. chan' = [chan EXCEPT ![w] = <<>>]
      BY <2>3, Received
    <3> QED
      BY <2>3, <3>1 DEF Receive
  <2>4. CASE Forget(w)
    BY <2>4 DEF Forget
  <2>5. CASE Expire(w)
    BY <2>5 DEF Expire
  <2> QED
    BY <1>4, <2>1, <2>2, <2>3, <2>4, <2>5 DEF HandleWidget
<1>5. CASE CloseStdin \/ Exit \/ Stopped
  BY <1>5 DEF CloseStdin, Exit, Stopped, svars
<1> QED
  BY <1>1, <1>2, <1>3, <1>4, <1>5 DEF ServeNext

\* No step after the last reply but a stutter: what was not read stays unread.
LEMMA NothingDropped ==
  ServeInv /\ [ServeNext]_svars => Closed' /\ RepliesBeforeExit'
<1> SUFFICES ASSUME ServeInv, [ServeNext]_svars PROVE Closed' /\ RepliesBeforeExit'
  OBVIOUS
<1> USE Kinds DEF ServeInv, ServeTypeOK, Closed, RepliesBeforeExit, Move, loop, desk
<1>1. CASE UNCHANGED svars
  BY <1>1 DEF svars
<1>2. ASSUME NEW f \in Frame, ReadFrame(f) \/ Respond(f) \/ Initialize(f)
      PROVE  Closed' /\ RepliesBeforeExit'
  BY <1>2 DEF ReadFrame, Respond, Initialize
<1>3. ASSUME NEW c \in Call, HandleCall(c) PROVE Closed' /\ RepliesBeforeExit'
  <2>1. fpc[c] \notin {"unread", "done"} /\ UNCHANGED loop
    BY <1>3 DEF HandleCall, StartCall, Upstream, Publish, Send
  <2> QED
    BY <2>1
<1>4. ASSUME NEW w \in Widget, HandleWidget(w) \/ Expire(w)
      PROVE  Closed' /\ RepliesBeforeExit'
  <2>1. fpc[w] \notin {"unread", "done"} /\ UNCHANGED loop
    BY <1>4 DEF HandleWidget, Collect, Unknown, Receive, Forget, Expire
  <2> QED
    BY <2>1
<1>5. CASE CloseStdin \/ Exit \/ Stopped
  BY <1>5 DEF CloseStdin, Exit, Stopped, svars
<1> QED
  BY <1>1, <1>2, <1>3, <1>4, <1>5 DEF ServeNext

\* Every step keeps what the desk is for.
LEMMA DeskKept ==
  ServeInv /\ [ServeNext]_svars => Registered' /\ Taken' /\ Untouched' /\ NoLostWaiter'
<1> SUFFICES ASSUME ServeInv, [ServeNext]_svars
             PROVE  Registered' /\ Taken' /\ Untouched' /\ NoLostWaiter'
  OBVIOUS
<1> DEFINE Kept == Registered' /\ Taken' /\ Untouched' /\ NoLostWaiter'
<1>0. ServeTypeOK /\ Registered /\ Taken /\ Untouched /\ NoLostWaiter
  BY DEF ServeInv
<1>1. CASE UNCHANGED svars
  BY <1>0, <1>1 DEF svars, desk, Registered, Taken, Untouched, NoLostWaiter, Asked
<1>2. ASSUME NEW f \in Frame, ReadFrame(f) \/ Respond(f) \/ Initialize(f) PROVE Kept
  <2>1. PICK l \in FramePcs :
          /\ fpc' = [fpc EXCEPT ![f] = l] /\ UNCHANGED <<desk, release, chan>>
          /\ \/ fpc[f] = "unread" /\ l = "handle"
             \/ fpc[f] = "respond" /\ l = "done"
             \/ f \in Hello
    BY <1>2 DEF ReadFrame, Respond, Initialize, Move, FramePcs
  <2> QED
    BY <2>1, Elsewhere, Kinds
<1>3. ASSUME NEW c \in Call, StartCall(c) PROVE Kept
  <2>1. PICK l \in FramePcs : fpc' = [fpc EXCEPT ![c] = l]
    BY <1>3 DEF StartCall, Move, FramePcs
  <2>2. fpc[c] = "handle" /\ UNCHANGED <<desk, release, chan>>
    BY <1>3 DEF StartCall
  <2> QED
    BY <2>1, <2>2, Elsewhere, Kinds
<1>4. ASSUME NEW c \in Call, Upstream(c) PROVE Kept
  <2>1. PICK l \in FramePcs : fpc' = [fpc EXCEPT ![c] = l]
    BY <1>4 DEF Upstream, Move, FramePcs
  <2>2. fpc[c] = "upstream" /\ UNCHANGED <<desk, release, chan>>
    BY <1>4 DEF Upstream
  <2> QED
    BY <2>1, <2>2, Elsewhere, Kinds
<1>5. ASSUME NEW c \in Call, Publish(c) PROVE Kept
  <2> DEFINE d == ArgsOf[c]
  <2> USE <1>0, Kinds DEF ServeTypeOK, Move
  <2>1. /\ fpc[c] = "publish" /\ fpc' = [fpc EXCEPT ![c] = "release"]
        /\ drawn' = [drawn EXCEPT ![d] = picture[c]]
        /\ release' = [release EXCEPT ![c] = wait[d]]
        /\ wait' = [wait EXCEPT ![d] = {}] /\ chan' = chan
    BY <1>5 DEF Publish
  <2>2. release[c] = {}
    BY <2>1 DEF Taken
  <2>3. Registered'
    BY <2>1 DEF Registered, Asked
  <2>4. Taken'
    BY <2>1 DEF Registered, Taken
  <2>5. Untouched'
    BY <2>1 DEF Untouched
  <2>6. NoLostWaiter'
    BY <2>1, <2>2 DEF NoLostWaiter, Asked
  <2> QED
    BY <2>3, <2>4, <2>5, <2>6
<1>6. ASSUME NEW c \in Call, Send(c) PROVE Kept
  <2> USE <1>0, Kinds DEF ServeTypeOK, Move
  <2>1. UNCHANGED desk /\ fpc[c] = "release"
    BY <1>6 DEF Send
  <2>2. CASE release[c] = {} /\ Move(c, "respond") /\ UNCHANGED <<release, chan>>
    <3>1. Registered' /\ Untouched' /\ NoLostWaiter'
      BY <2>1, <2>2 DEF Registered, Untouched, NoLostWaiter, Asked, desk
    <3>2. Taken'
      BY <2>1, <2>2 DEF Taken
    <3> QED
      BY <3>1, <3>2
  <2>3. ASSUME NEW w \in Widget, w \in release[c], chan[w] = <<>>,
               chan' = [chan EXCEPT ![w] = <<picture[c]>>],
               release' = [release EXCEPT ![c] = @ \ {w}], UNCHANGED fpc
        PROVE  Kept
    <3>1. Registered'
      BY <2>1, <2>3 DEF Registered, Asked, desk
    <3>2. Taken'
      BY <2>1, <2>3 DEF Taken
    <3>3. Untouched'
      BY <2>1, <2>3 DEF Untouched, Taken
    <3>4. NoLostWaiter'
      BY <2>1, <2>3 DEF NoLostWaiter, Asked, desk
    <3> QED
      BY <3>1, <3>2, <3>3, <3>4
  <2> QED
    BY <1>6, <2>2, <2>3, Sent
<1>7. ASSUME NEW w \in Widget, Collect(w) PROVE Kept
  <2>1. CASE drawn[Asked(w)] # NotDrawn
    BY <1>7, <2>1, Elsewhere, Kinds DEF Collect, Move, FramePcs, desk
  <2>2. CASE drawn[Asked(w)] = NotDrawn
    <3> USE <1>0, Kinds DEF ServeTypeOK, Move
    <3>1. /\ fpc[w] = "handle" /\ fpc' = [fpc EXCEPT ![w] = "waiting"]
          /\ wait' = [wait EXCEPT ![Asked(w)] = @ \cup {w}]
          /\ UNCHANGED <<drawn, release, chan>>
      BY <1>7, <2>2 DEF Collect
    <3>2. chan[w] = <<>> /\ \A c \in Call : w \notin release[c]
      BY <3>1 DEF Untouched, Taken
    <3>3. Registered'
      BY <3>1, <3>2, <2>2 DEF Registered, Asked
    <3>4. Taken' /\ Untouched'
      BY <3>1, <3>2 DEF Taken, Untouched
    <3>5. NoLostWaiter'
      BY <3>1, <3>2, <2>2 DEF NoLostWaiter, Asked
    <3> QED
      BY <3>3, <3>4, <3>5
  <2> QED
    BY <2>1, <2>2
<1>8. ASSUME NEW w \in Widget, Unknown(w) PROVE Kept
  BY <1>8, Elsewhere, Kinds DEF Unknown, Move, FramePcs
<1>9. ASSUME NEW w \in Widget, Receive(w) PROVE Kept
  <2> USE <1>0, Kinds DEF ServeTypeOK, Move
  <2>1. /\ fpc[w] = "waiting" /\ fpc' = [fpc EXCEPT ![w] = "respond"]
        /\ chan[w] # <<>> /\ UNCHANGED <<desk, release>>
    BY <1>9 DEF Receive
  <2>2. chan' = [chan EXCEPT ![w] = <<>>]
    BY <1>9, Received
  <2>3. Registered'
    BY <2>1, <2>2 DEF Registered, Asked, desk
  <2>4. Taken' /\ Untouched'
    BY <2>1, <2>2 DEF Taken, Untouched
  <2>5. NoLostWaiter'
    BY <2>1, <2>2 DEF NoLostWaiter, Asked, desk
  <2> QED
    BY <2>3, <2>4, <2>5
<1>10. ASSUME NEW w \in Widget, Forget(w) PROVE Kept
  <2> USE <1>0, Kinds DEF ServeTypeOK, Move
  <2>1. /\ fpc[w] = "expired" /\ fpc' = [fpc EXCEPT ![w] = "respond"]
        /\ wait' = [wait EXCEPT ![Asked(w)] = @ \ {w}]
        /\ UNCHANGED <<drawn, release, chan>>
    BY <1>10 DEF Forget
  <2>2. Registered'
    BY <2>1 DEF Registered, Asked
  <2>3. Taken' /\ Untouched'
    BY <2>1 DEF Taken, Untouched
  <2>4. NoLostWaiter'
    BY <2>1 DEF NoLostWaiter, Asked
  <2> QED
    BY <2>2, <2>3, <2>4
<1>11. ASSUME NEW w \in Widget, Expire(w) PROVE Kept
  <2> USE <1>0, Kinds DEF ServeTypeOK, Move
  <2>1. /\ fpc[w] = "waiting" /\ fpc' = [fpc EXCEPT ![w] = "expired"]
        /\ UNCHANGED <<desk, release, chan>>
    BY <1>11 DEF Expire
  <2> QED
    BY <2>1 DEF Registered, Taken, Untouched, NoLostWaiter, Asked, desk
<1>12. CASE CloseStdin \/ Exit \/ Stopped
  <2>1. UNCHANGED <<fpc, desk, release, chan>>
    BY <1>12 DEF CloseStdin, Exit, Stopped, svars
  <2> QED
    BY <1>0, <2>1 DEF desk, Registered, Taken, Untouched, NoLostWaiter, Asked
<1> QED
  BY <1>1, <1>2, <1>3, <1>4, <1>5, <1>6, <1>7, <1>8, <1>9, <1>10, <1>11, <1>12
     DEF ServeNext, HandleCall, HandleWidget

LEMMA ServeInvariant == ServeSpec => []ServeInv
<1>1. ServeInv /\ [ServeNext]_svars => ServeInv'
  BY Typed, NothingDropped, DeskKept DEF ServeInv
<1> QED
  BY Start, <1>1, PTL DEF ServeSpec

-----------------------------------------------------------------------------
(* The state of serve stays well typed; in particular no channel ever holds
   two drawings. *)
THEOREM ServeTypes == ServeSpec => []ServeTypeOK
<1>1. ServeInv => ServeTypeOK
  BY DEF ServeInv
<1> QED
  BY <1>1, ServeInvariant, PTL

(* No wake-up is lost: a widget that waits with an empty channel is on the desk
   for what is not drawn yet, or in the hands of a call that will send to it. *)
THEOREM Woken == ServeSpec => []NoLostWaiter
<1>1. ServeInv => NoLostWaiter
  BY DEF ServeInv
<1> QED
  BY <1>1, ServeInvariant, PTL

(* A call that releases its waiters never blocks: every channel it is to send to
   is empty, and no other call sends to it. *)
THEOREM NeverBlocks == ServeSpec => []SendsNeverBlock
<1>1. ServeInv => SendsNeverBlock
  BY DEF ServeInv, Taken, SendsNeverBlock
<1> QED
  BY <1>1, ServeInvariant, PTL

(* A widget that was answered, or gave up, is not on the desk. *)
THEOREM Forgotten == ServeSpec => []NoStaleWaiter
<1>1. ServeInv => NoStaleWaiter
  BY Kinds DEF ServeInv, Registered, NoStaleWaiter
<1> QED
  BY <1>1, ServeInvariant, PTL

(* serve returns only when everything it read has been answered. *)
THEOREM AllReplied == ServeSpec => []RepliesBeforeExit
<1>1. ServeInv => RepliesBeforeExit
  BY DEF ServeInv
<1> QED
  BY <1>1, ServeInvariant, PTL
=============================================================================
