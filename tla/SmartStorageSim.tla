--------------------------- MODULE SmartStorageSim ---------------------------
(***************************************************************************)
(* s3dexp/sim: a simulated smart disk.  run_server alternates between its  *)
(* ROUTER socket and a discrete-event simulation (simpy) that it lets run  *)
(* up to a little ahead of the wall clock; a request enters the simulation *)
(* at its own time stamp, for which the simulated clock is set back.  Each *)
(* request passes through resources of bounded capacity; its client blocks *)
(* until the response.  Time is in ticks, one tick per frame of a video.   *)
(***************************************************************************)
EXTENDS Integers, Sequences, FiniteSets

CONSTANTS
  SimClient,   \* processes with a SmartStorageClient
  Streamers,   \* those of them that decode videos
  Image, lut,  \* image files, and per resource how long each occupies it
  Profiled,    \* the images of which DecoderSim and FaceDetectorSim have profiles
  Video,       \* paths of videos
  Every,       \* frames are decoded at this distance
  FrameSend,   \* how long the bus is occupied by a decoded frame
  Capacity,    \* of each resource
  RunAhead,    \* RUN_AHEAD
  MaxAsks, LastAsk, MaxClock, MaxFrame \* bounds: requests, time of the last
                                       \* one, time, frames of a video

Resource == {"decoder", "face_detector", "video_decoder", "bus"}
NoPath == "no path"

ASSUME SimAssumption ==
  /\ IsFiniteSet(SimClient) /\ Streamers \subseteq SimClient
  /\ lut \in [{"decoder", "face_detector", "bus"} -> [Image -> Nat]]
  /\ Profiled \in [{"decoder", "face_detector"} -> SUBSET Image]
  /\ NoPath \notin Video
  /\ Every \in Nat \ {0} /\ FrameSend \in Nat /\ RunAhead \in Nat \ {0}
  /\ Capacity \in [Resource -> Nat \ {0}]
  /\ {MaxAsks, LastAsk, MaxClock, MaxFrame} \subseteq Nat

DecodeOnly == "OP_DECODEONLY"
DecodeFace == "OP_DECODE_FACE"
DecodeVideo == "OP_DECODE_VIDEO"
Never == -1

VARIABLES
  clock,       \* time.time()
  server,      \* run_server: "poll", "start" (polled, and about to read the
               \* clock), "run" (inside env.run); "failed" or "dead" after an
               \* exception (an image without a profile, a frame going back)
  until,       \* of the current env.run, 0 outside
  ask,         \* per client: the request it waits for, with its time stamp
  place,       \* per client: "idle", "socket", "simulation" or "answered"
  stage,       \* per request in the simulation: which resource of its route
               \* it is at, 0 before its first step
  due,         \* per request: when its next event is scheduled; Never while it
               \* queues for a resource
  work,        \* per request: how long it will occupy the resource it is at
  users, queue,\* per resource: who holds it, who waits for it
  path, frame, \* of the VideoDecoderSim: what it decoded last
  position,    \* per streamer: the video and the frame it asked for last
  completion,  \* per client: completion_timestamp of the answer
  asks,        \* history: requests made
  fired,       \* history: the latest event that has been simulated
  late,        \* history: requests that entered the simulation before that
  held,        \* history: who held which resource over which interval, and
               \* whether as a late one
  rewound      \* history: a video was started again, or by a second client

clientVars == <<ask, place, position, completion, asks, rewound>>
resourceVars == <<users, queue, held>>
decoderVars == <<path, frame>>
processVars == <<stage, due, work, fired, late>>
vars == <<clock, server, until, clientVars, resourceVars, decoderVars, processVars>>

NoRequest == [op |-> "none", file |-> NoPath, frame |-> 0, ts |-> 0]

Init ==
  /\ clock = 0 /\ server = "poll" /\ until = 0
  /\ ask = [c \in SimClient |-> NoRequest] /\ place = [c \in SimClient |-> "idle"]
  /\ stage = [c \in SimClient |-> 0] /\ due = [c \in SimClient |-> Never]
  /\ work = [c \in SimClient |-> 0]
  /\ users = [r \in Resource |-> {}] /\ queue = [r \in Resource |-> <<>>]
  /\ path = NoPath /\ frame = 0
  /\ position = [c \in Streamers |-> [path |-> NoPath, frame |-> 0]]
  /\ completion = [c \in SimClient |-> Never]
  /\ asks = 0 /\ fired = 0 /\ late = {} /\ held = {} /\ rewound = FALSE

-----------------------------------------------------------------------------
(* SmartStorageClient *)
Send(c, request) ==
  /\ place[c] = "idle" /\ asks < MaxAsks /\ clock <= LastAsk
  /\ asks' = asks + 1
  /\ ask' = [ask EXCEPT ![c] = request]
  /\ place' = [place EXCEPT ![c] = "socket"]
  /\ UNCHANGED <<clock, server, until, completion, resourceVars, decoderVars, processVars>>

(* decode_only, decode_face *)
AskImage(c) ==
  /\ \E op \in {DecodeOnly, DecodeFace}, image \in Image :
       Send(c, [op |-> op, file |-> image, frame |-> 0, ts |-> clock])
  /\ UNCHANGED <<position, rewound>>

(* decode_video, called by the smart_decoder of video_search.py: every      *)
(* Every-th frame of a video, then another video or another search.         *)
AskFrame(c) ==
  \E v \in Video, f \in 0 .. MaxFrame :
    /\ f \in {0, IF v = position[c].path THEN position[c].frame + Every ELSE 0}
    /\ Send(c, [op |-> DecodeVideo, file |-> v, frame |-> f, ts |-> clock])
    /\ position' = [position EXCEPT ![c] = [path |-> v, frame |-> f]]
    /\ rewound' = (\/ rewound
                   \/ v = position[c].path /\ f <= position[c].frame
                   \/ \E d \in Streamers \ {c} : position[d].path # NoPath)

TakeResponse(c) ==
  /\ place[c] = "answered"
  /\ place' = [place EXCEPT ![c] = "idle"]
  /\ ask' = [ask EXCEPT ![c] = NoRequest]
  /\ completion' = [completion EXCEPT ![c] = Never]
  /\ late' = late \ {c}
  /\ stage' = [stage EXCEPT ![c] = 0]
  /\ UNCHANGED <<clock, server, until, position, asks, rewound, resourceVars, decoderVars,
                 due, work, fired>>

-----------------------------------------------------------------------------
(* run_server: at most one request per turn, entered at its time stamp ...  *)
SchedRequest(c) ==
  /\ place[c] = "socket"
  /\ place' = [place EXCEPT ![c] = "simulation"]
  /\ stage' = [stage EXCEPT ![c] = 0]
  /\ due' = [due EXCEPT ![c] = ask[c].ts]
  /\ late' = IF ask[c].ts < fired THEN late \cup {c} ELSE late

Turn ==
  /\ server = "poll"
  /\ \/ \E c \in SimClient : SchedRequest(c)
     \/ /\ \A c \in SimClient : place[c] # "socket"
        /\ UNCHANGED <<place, stage, due, late>>
  /\ server' = "start"
  /\ UNCHANGED <<clock, until, ask, position, completion, asks, rewound, resourceVars, decoderVars, work, fired>>

(* ... then env.run(until = now + run_ahead), whoever has sent meanwhile.   *)
RunStarts ==
  /\ server = "start"
  /\ until' = clock + RunAhead
  /\ server' = "run"
  /\ UNCHANGED <<clock, clientVars, resourceVars, decoderVars, processVars>>

(* The events before until have been simulated.                             *)
RunEnds ==
  /\ server = "run"
  /\ \A c \in SimClient : due[c] = Never \/ due[c] >= until
  /\ server' = "poll" /\ until' = 0
  /\ UNCHANGED <<clock, clientVars, resourceVars, decoderVars, processVars>>

-----------------------------------------------------------------------------
(* The processes of the simulation.                                         *)
Route(op) == CASE op = DecodeOnly -> <<"decoder", "bus">>
               [] op = DecodeFace -> <<"decoder", "face_detector", "bus">>
               [] op = DecodeVideo -> <<"video_decoder", "bus">>

Here(c) == Route(ask[c].op)[stage[c]]
Done(c) == stage[c] = Len(Route(ask[c].op))
There(c) == Route(ask[c].op)[stage[c] + 1]

(* The earliest event; of several at one time, any.                         *)
Fires(c) ==
  /\ server = "run" /\ due[c] # Never /\ due[c] < until
  /\ \A d \in SimClient : due[d] # Never => due[c] <= due[d]

(* simpy.Resource: leaving the with block grants the resource to the first  *)
(* in the queue; request() grants it at once or queues.                     *)
Free(u, q, c, r) ==
  IF q[r] = <<>> THEN [users |-> [u EXCEPT ![r] = @ \ {c}], queue |-> q]
  ELSE [users |-> [u EXCEPT ![r] = (@ \ {c}) \cup {Head(q[r])}], queue |-> [q EXCEPT ![r] = Tail(@)]]

\* mutant: one user more than the capacity
ClaimOneMore(u, q, c, r) ==
  IF Cardinality(u[r]) <= Capacity[r] THEN [users |-> [u EXCEPT ![r] = @ \cup {c}], queue |-> q]
  ELSE [users |-> u, queue |-> [q EXCEPT ![r] = Append(@, c)]]

Claim(u, q, c, r) ==
  IF Cardinality(u[r]) < Capacity[r] THEN [users |-> [u EXCEPT ![r] = @ \cup {c}], queue |-> q]
  ELSE [users |-> u, queue |-> [q EXCEPT ![r] = Append(@, c)]]

\* mutant: a component requests its resource outside a with block
LeftTaken(c) == [users |-> users, queue |-> queue]

Left(c) == IF stage[c] = 0 THEN [users |-> users, queue |-> queue]
                           ELSE Free(users, queue, c, Here(c))

(* Who has just been granted a resource holds it from t on, for its work; c, *)
(* which has moved on, waits for nothing else than its own grant.           *)
Granted(r, u) == u[r] \ users[r]

\* mutant: a request that had to queue is timed from its arrival
HoldSinceArrival(t, c, u, w) ==
  /\ due' = [d \in SimClient |->
               IF \E r \in Resource : d \in Granted(r, u) THEN ask[d].ts + w[d]
               ELSE IF d = c THEN Never ELSE due[d]]
  /\ held' = held \cup
       UNION {{[res |-> r, who |-> d, from |-> t, to |-> t + w[d], late |-> d \in late] : d \in Granted(r, u)}
              : r \in Resource}

Hold(t, c, u, w) ==
  /\ due' = [d \in SimClient |->
               IF \E r \in Resource : d \in Granted(r, u) THEN t + w[d]
               ELSE IF d = c THEN Never ELSE due[d]]
  /\ held' = held \cup
       UNION {{[res |-> r, who |-> d, from |-> t, to |-> t + w[d], late |-> d \in late] : d \in Granted(r, u)}
              : r \in Resource}

(* What a request leaves behind at the resource it has been served by: the  *)
(* video decoder stands at the frame it decoded.                            *)
Served(c) == stage[c] > 0 /\ Here(c) = "video_decoder"
FrameAfter(c) == IF Served(c) THEN ask[c].frame ELSE frame

Unprofiled(c) ==
  There(c) \in {"decoder", "face_detector"} /\ ask[c].file \notin Profiled[There(c)]

(* A process leaves one resource and asks for the next of its route.        *)
Advance(c) ==
  /\ Fires(c) /\ ~Done(c) /\ There(c) # "video_decoder" /\ ~Unprofiled(c)
  /\ LET left == Left(c)
         got == Claim(left.users, left.queue, c, There(c))
         duration == IF There(c) = "bus" /\ ask[c].op = DecodeVideo THEN FrameSend ELSE lut[There(c)][ask[c].file] IN
     /\ users' = got.users /\ queue' = got.queue
     /\ work' = [work EXCEPT ![c] = duration]
     /\ Hold(due[c], c, got.users, work')
  /\ stage' = [stage EXCEPT ![c] = @ + 1]
  /\ frame' = FrameAfter(c)
  /\ fired' = IF due[c] > fired THEN due[c] ELSE fired
  /\ UNCHANGED <<clock, server, until, clientVars, path, late>>

(* An image without a profile, or whose name ends otherwise than theirs:     *)
(* the KeyError or assertion leaves env.run and run_server.                  *)
LookupFails(c) ==
  /\ Fires(c) /\ ~Done(c) /\ Unprofiled(c)
  /\ server' = "failed"
  /\ UNCHANGED <<clock, until, clientVars, resourceVars, decoderVars, processVars>>

\* mutant: a new video goes on counting from the old one's frame
StartFrameKept(c) == frame

(* VideoDecoderSim.decode_frame: a new path starts at frame 0; the frames   *)
(* to skip are counted before the decoder is free.                          *)
StartFrame(c) == IF path = ask[c].file THEN frame ELSE 0

EnterVideo(c) ==
  /\ Fires(c) /\ ~Done(c) /\ There(c) = "video_decoder"
  /\ ask[c].frame >= StartFrame(c)
  /\ LET got == Claim(users, queue, c, "video_decoder") IN
     /\ users' = got.users /\ queue' = got.queue
     /\ work' = [work EXCEPT ![c] = ask[c].frame - StartFrame(c)]
     /\ Hold(due[c], c, got.users, work')
  /\ stage' = [stage EXCEPT ![c] = 1]
  /\ path' = ask[c].file /\ frame' = StartFrame(c)
  /\ fired' = IF due[c] > fired THEN due[c] ELSE fired
  /\ UNCHANGED <<clock, server, until, clientVars, late>>

(* Its assertion fails: the exception leaves env.run and run_server.        *)
VideoAssertion(c) ==
  /\ Fires(c) /\ ~Done(c) /\ There(c) = "video_decoder"
  /\ ask[c].frame < StartFrame(c)
  /\ server' = "dead"
  /\ path' = ask[c].file /\ frame' = StartFrame(c)
  /\ UNCHANGED <<clock, until, clientVars, resourceVars, processVars>>

(* The end of the route: on_complete sends the response.                    *)
Complete(c) ==
  /\ Fires(c) /\ Done(c)
  /\ LET left == Left(c) IN
     /\ users' = left.users /\ queue' = left.queue
     /\ Hold(due[c], c, left.users, work)
  /\ place' = [place EXCEPT ![c] = "answered"]
  /\ completion' = [completion EXCEPT ![c] = due[c]]
  /\ fired' = IF due[c] > fired THEN due[c] ELSE fired
  /\ work' = [work EXCEPT ![c] = 0]
  /\ UNCHANGED <<clock, server, until, ask, position, asks, rewound, decoderVars, stage, late>>

Tick ==
  /\ clock < MaxClock
  /\ clock' = clock + 1
  /\ UNCHANGED <<server, until, clientVars, resourceVars, decoderVars, processVars>>

-----------------------------------------------------------------------------
Server ==
  \/ Turn \/ RunStarts \/ RunEnds
  \/ \E c \in SimClient : Advance(c) \/ LookupFails(c) \/ EnterVideo(c) \/ VideoAssertion(c) \/ Complete(c)

Next ==
  \/ \E c \in SimClient : AskImage(c) \/ TakeResponse(c)
  \/ \E c \in Streamers : AskFrame(c)
  \/ Server
  \/ Tick

(* The loop runs (it polls without waiting) and time goes on.               *)
Spec == Init /\ [][Next]_vars /\ WF_vars(Server) /\ WF_vars(Tick)

-----------------------------------------------------------------------------
(* At no simulated time do more requests hold a resource than it has room   *)
(* for, once those are left aside for which the simulated clock was set     *)
(* back behind what it had simulated already (storage.py:92): the hack does *)
(* not spoil the timing of the other requests with each other.              *)
CapacityKept ==
  \A r \in Resource : \A t \in {h.from : h \in held} :
    Cardinality({h \in held : h.res = r /\ ~h.late /\ h.from <= t /\ t < h.to}) <= Capacity[r]

(* A completed request was charged for its whole route: the response's time *)
(* stamp is never earlier than the request's plus all the work it asked for,*)
(* set back or not.                                                         *)
TimeCharged ==
  \A c \in SimClient : completion[c] # Never =>
    LET route == {h \in held : h.who = c /\ h.from >= ask[c].ts /\ h.to <= completion[c]} IN
    \A i \in 1 .. stage[c] : \E h \in route : h.res = Route(ask[c].op)[i]
      /\ (i < stage[c] => \E g \in route : g.res = Route(ask[c].op)[i + 1] /\ g.from >= h.to)

(* The assertion on increasing frames (decoder.py:82) holds, also when a    *)
(* client goes on to another video, as long as none is started again.       *)
FramesIncrease == ~rewound => server # "dead"

(* Every request is answered, late ones included, by a server that lives.    *)
Answered ==
  [](server \notin {"failed", "dead"}) =>
    \A c \in SimClient : (place[c] = "socket") ~> (place[c] = "answered")
==============================================================================
