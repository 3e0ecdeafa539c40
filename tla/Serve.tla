-------------------------------- MODULE Serve --------------------------------
(***************************************************************************)
(* "bmcp serve" (serve.go) and its picture desk (picture.go).  One loop    *)
(* reads frames from stdin and answers each in a goroutine of its own,     *)
(* "initialize" excepted.  A tool call that draws publishes its drawing on *)
(* the desk under a digest of its arguments; the widget a host mounts for  *)
(* the call asks for the drawing by that digest, before or after, and      *)
(* waits on a channel of its own, for pictureWait at most.                 *)
(***************************************************************************)
EXTENDS Naturals, Sequences, FiniteSets

CONSTANTS
  Hello,       \* frames that initialize the session
  Call,        \* tools/call frames
  Widget,      \* resources/read frames that ask for a drawing
  Digest,
  ArgsOf,      \* the digest of a call's arguments
  CallOf,      \* the call a host mounted a widget for
  Renderable   \* calls of tools that can draw

Frame == Hello \cup Call \cup Widget

ASSUME Frames ==
  /\ ArgsOf \in [Call -> Digest] /\ CallOf \in [Widget -> Call]
  /\ Renderable \subseteq Call
  /\ Hello \cap Call = {} /\ Hello \cap Widget = {} /\ Call \cap Widget = {}

Asked(w) == ArgsOf[CallOf[w]]

NotDrawn == "not drawn"      \* no call with these arguments has published
Empty    == "empty"          \* a call that drew nothing, or no answer at all

ASSUME NoCallIsNotDrawn == NotDrawn \notin Call

VARIABLES
  apps,       \* MCP Apps negotiated
  closed,     \* the client closed stdin
  exited,     \* run has returned
  reading,    \* the initialize frame the loop is answering, if any
  fpc,        \* where each frame's handler is
  drawing,    \* calls that asked the gateway for a drawing
  picture,    \* what the gateway drew for each call
  drawn,      \* the desk: the answer under each digest
  wait,       \* the desk: who waits under each digest
  release,    \* the waiters each publishing call took from the desk
  chan        \* each widget's channel, of capacity 1

desk  == <<drawn, wait>>
loop  == <<closed, exited>>
svars == <<apps, loop, reading, fpc, drawing, picture, desk, release, chan>>

FramePcs == {"unread", "handle", "upstream", "publish", "release", "waiting",
             "expired", "respond", "done"}
Drawings == Call \cup {Empty}

ServeTypeOK ==
  /\ apps \in BOOLEAN /\ closed \in BOOLEAN /\ exited \in BOOLEAN
  /\ reading \subseteq Hello
  /\ fpc \in [Frame -> FramePcs]
  /\ drawing \subseteq Call
  /\ picture \in [Call -> Drawings]
  /\ drawn \in [Digest -> Drawings \cup {NotDrawn}]
  /\ wait \in [Digest -> SUBSET Widget]
  /\ release \in [Call -> SUBSET Widget]
  /\ chan \in [Widget -> {<<>>} \cup {<<d>> : d \in Drawings}]

ServeInit ==
  /\ apps = FALSE /\ closed = FALSE /\ exited = FALSE /\ reading = {}
  /\ fpc = [f \in Frame |-> "unread"]
  /\ drawing = {}
  /\ picture = [c \in Call |-> Empty]
  /\ drawn = [d \in Digest |-> NotDrawn]
  /\ wait = [d \in Digest |-> {}]
  /\ release = [c \in Call |-> {}]
  /\ chan = [w \in Widget |-> <<>>]

Move(f, l) == fpc' = [fpc EXCEPT ![f] = l]

-----------------------------------------------------------------------------
(* The loop of run.  What initialize negotiates decides what every later frame
   may see, so the loop answers it before it reads on.  An MCP client sends it
   first, and may send another. *)

ReadFrame(f) ==
  /\ ~closed /\ reading = {} /\ fpc[f] = "unread"
  /\ f \in Hello \/ \E h \in Hello : fpc[h] = "done"
  /\ Move(f, "handle")
  /\ reading' = IF f \in Hello THEN {f} ELSE {}
  /\ UNCHANGED <<apps, loop, drawing, picture, desk, release, chan>>

CloseStdin ==
  /\ ~closed /\ closed' = TRUE
  /\ UNCHANGED <<apps, exited, reading, fpc, drawing, picture, desk, release,
                 chan>>

\* Mutant: the replies under way are not waited for.
Exit_now ==
  /\ closed /\ ~exited /\ reading = {}
  /\ exited' = TRUE
  /\ UNCHANGED <<apps, closed, reading, fpc, drawing, picture, desk, release,
                 chan>>

Exit ==
  /\ closed /\ ~exited /\ reading = {}
  /\ \A f \in Frame : fpc[f] \in {"unread", "done"}
  /\ exited' = TRUE
  /\ UNCHANGED <<apps, closed, reading, fpc, drawing, picture, desk, release,
                 chan>>

\* One reply is written at a time, whole.
Respond(f) ==
  /\ fpc[f] = "respond"
  /\ Move(f, "done")
  /\ reading' = reading \ {f}
  /\ UNCHANGED <<apps, loop, drawing, picture, desk, release, chan>>

\* The client of one frame has MCP Apps, or has not.
Initialize(f) ==
  /\ f \in Hello /\ fpc[f] = "handle"
  /\ apps' \in BOOLEAN
  /\ Move(f, "respond")
  /\ UNCHANGED <<loop, reading, drawing, picture, desk, release, chan>>

-----------------------------------------------------------------------------
(* callTool *)

\* An unknown tool, and input that does not validate, are answered at once.
StartCall(c) ==
  /\ fpc[c] = "handle"
  /\ \/ Move(c, "respond") /\ UNCHANGED drawing
     \/ /\ drawing' = IF apps /\ c \in Renderable THEN drawing \cup {c} ELSE drawing
        /\ Move(c, "upstream")
  /\ UNCHANGED <<apps, loop, reading, picture, desk, release, chan>>

\* Mutant: a call that failed publishes nothing.
Upstream_silent(c) ==
  /\ fpc[c] = "upstream"
  /\ \/ c \in drawing /\ picture' = [picture EXCEPT ![c] = c] /\ Move(c, "publish")
     \/ Move(c, "respond") /\ UNCHANGED picture
  /\ UNCHANGED <<apps, loop, reading, drawing, desk, release, chan>>

\* The gateway answers, with a drawing or without, or the call fails; a call
\* that asked for no drawing publishes none.
Upstream(c) ==
  /\ fpc[c] = "upstream"
  /\ IF c \in drawing
       THEN /\ picture' \in {[picture EXCEPT ![c] = p] : p \in {c, Empty}}
            /\ Move(c, "publish")
       ELSE Move(c, "respond") /\ UNCHANGED picture
  /\ UNCHANGED <<apps, loop, reading, drawing, desk, release, chan>>

\* Mutant: the waiters stay on the desk.
Publish_keeps(c) ==
  /\ fpc[c] = "publish"
  /\ drawn' = [drawn EXCEPT ![ArgsOf[c]] = picture[c]]
  /\ release' = [release EXCEPT ![c] = wait[ArgsOf[c]]]
  /\ Move(c, "release")
  /\ UNCHANGED <<apps, loop, reading, drawing, picture, wait, chan>>

\* publish, under the desk's mutex.
Publish(c) ==
  /\ fpc[c] = "publish"
  /\ drawn' = [drawn EXCEPT ![ArgsOf[c]] = picture[c]]
  /\ release' = [release EXCEPT ![c] = wait[ArgsOf[c]]]
  /\ wait' = [wait EXCEPT ![ArgsOf[c]] = {}]
  /\ Move(c, "release")
  /\ UNCHANGED <<apps, loop, reading, drawing, picture, chan>>

\* Mutant: the waiters are released twice.
Send_again(c) ==
  /\ fpc[c] = "release"
  /\ \/ Move(c, "respond") /\ UNCHANGED <<release, chan>>
     \/ \E w \in release[c] :
          /\ chan' = [chan EXCEPT ![w] = Append(@, picture[c])]
          /\ UNCHANGED <<fpc, release>>
  /\ UNCHANGED <<apps, loop, reading, drawing, picture, desk>>

\* The sends, after the unlock.
Send(c) ==
  /\ fpc[c] = "release"
  /\ \/ /\ release[c] = {}
        /\ Move(c, "respond")
        /\ UNCHANGED <<release, chan>>
     \/ \E w \in release[c] :
          /\ Len(chan[w]) < 1
          /\ chan' = [chan EXCEPT ![w] = Append(@, picture[c])]
          /\ release' = [release EXCEPT ![c] = @ \ {w}]
          /\ UNCHANGED fpc
  /\ UNCHANGED <<apps, loop, reading, drawing, picture, desk>>

-----------------------------------------------------------------------------
(* readResource and collect: the answer is what is on the desk, what comes through
   the channel, or nothing. *)

\* Mutant: the desk is not looked at before the widget starts to wait.
Collect_blind(w) ==
  /\ fpc[w] = "handle" /\ apps
  /\ wait' = [wait EXCEPT ![Asked(w)] = @ \cup {w}]
  /\ Move(w, "waiting")
  /\ UNCHANGED <<apps, loop, reading, drawing, picture, drawn, release, chan>>

\* One critical section looks at the desk and, if nothing is there, registers
\* the channel.
Collect(w) ==
  /\ fpc[w] = "handle" /\ apps
  /\ IF drawn[Asked(w)] # NotDrawn
       THEN Move(w, "respond") /\ UNCHANGED wait
       ELSE /\ wait' = [wait EXCEPT ![Asked(w)] = @ \cup {w}]
            /\ Move(w, "waiting")
  /\ UNCHANGED <<apps, loop, reading, drawing, picture, drawn, release, chan>>

\* Without MCP Apps there is no such resource.
Unknown(w) ==
  /\ fpc[w] = "handle" /\ ~apps
  /\ Move(w, "respond")
  /\ UNCHANGED <<apps, loop, reading, drawing, picture, desk, release, chan>>

Receive(w) ==
  /\ fpc[w] = "waiting" /\ chan[w] # <<>>
  /\ chan' = [chan EXCEPT ![w] = Tail(@)]
  /\ Move(w, "respond")
  /\ UNCHANGED <<apps, loop, reading, drawing, picture, desk, release>>

\* pictureWait is over; the desk forgets the widget a moment later.
Expire(w) ==
  /\ fpc[w] = "waiting"
  /\ Move(w, "expired")
  /\ UNCHANGED <<apps, loop, reading, drawing, picture, desk, release, chan>>

\* Mutant: a widget that gave up stays on the desk.
Forget_not(w) ==
  /\ fpc[w] = "expired"
  /\ Move(w, "respond")
  /\ UNCHANGED <<apps, loop, reading, drawing, picture, desk, release, chan>>

Forget(w) ==
  /\ fpc[w] = "expired"
  /\ wait' = [wait EXCEPT ![Asked(w)] = @ \ {w}]
  /\ Move(w, "respond")
  /\ UNCHANGED <<apps, loop, reading, drawing, picture, drawn, release, chan>>

-----------------------------------------------------------------------------
HandleCall(c)   == StartCall(c) \/ Upstream(c) \/ Publish(c) \/ Send(c)
HandleWidget(w) == Collect(w) \/ Unknown(w) \/ Receive(w) \/ Forget(w)

Stopped == exited /\ UNCHANGED svars

ServeNext ==
  \/ \E f \in Frame : ReadFrame(f) \/ Respond(f) \/ Initialize(f)
  \/ \E c \in Call : HandleCall(c)
  \/ \E w \in Widget : HandleWidget(w) \/ Expire(w)
  \/ CloseStdin \/ Exit \/ Stopped

ServeSpec == ServeInit /\ [][ServeNext]_svars

\* Goroutines run, the gateway's answer is bounded by CallTimeout; a timer that
\* fires is not assumed.
ServeFair ==
  /\ ServeSpec
  /\ \A c \in Call : WF_svars(HandleCall(c))
  /\ \A w \in Widget : WF_svars(HandleWidget(w))
  /\ \A f \in Frame : WF_svars(Initialize(f) \/ Respond(f))

-----------------------------------------------------------------------------
(* No lost wake-up: a widget whose channel is empty waits for an answer that
   is not on the desk yet, and is either on the desk for the call that will
   publish it or already in the hands of one that has. *)
NoLostWaiter ==
  \A w \in Widget : fpc[w] = "waiting" /\ chan[w] = <<>> =>
    \/ drawn[Asked(w)] = NotDrawn /\ w \in wait[Asked(w)]
    \/ \E c \in Call : w \in release[c]

(* A publisher never blocks on a widget, not even on one that gave up: each
   channel is sent to once, and has room for it. *)
SendsNeverBlock ==
  \A c, e \in Call, w \in Widget : w \in release[c] =>
    chan[w] = <<>> /\ (e # c => w \notin release[e])

(* The desk forgets a widget that has been answered, so a long session keeps
   nobody waiting on it. *)
NoStaleWaiter ==
  \A w \in Widget : fpc[w] \in {"respond", "done"} => w \notin wait[Asked(w)]

(* A closed pipe drops no reply: whatever was read has been answered when serve
   returns. *)
RepliesBeforeExit ==
  exited => \A f \in Frame : fpc[f] \in {"unread", "done"}

(* A widget that waits while a call with its arguments draws is released by
   that call, not by its timer. *)
DrawingReleases ==
  \A c \in Call, w \in Widget :
    (fpc[w] = "waiting" /\ c \in drawing /\ fpc[c] = "upstream"
       /\ ArgsOf[c] = Asked(w))
      ~> fpc[w] # "waiting"
=============================================================================
