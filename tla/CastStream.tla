------------------------------ MODULE CastStream ------------------------------
(***************************************************************************)
(* Casting a live stream to a speaker: the driver thread that renders,     *)
(* encodes and sends chunks (starplayer-cast/src/live.rs), the HTTP server *)
(* thread that hands them to whoever fetches the URL (serve.rs), and the   *)
(* control thread that opens the session and takes everything down again   *)
(* (starplayer-cli/src/cast.rs).  The speaker is the environment: it       *)
(* fetches, reads and hangs up when it likes.                              *)
(*                                                                         *)
(* Pacing, pausing and what is in a chunk are left out; chunks are         *)
(* numbered, modulo more than can be under way at once.                    *)
(***************************************************************************)
EXTENDS Naturals, Sequences

CONSTANTS
    Capacity,      \* LIVE_CHUNK_CAPACITY
    Wire,          \* chunks the connection holds
    LoadMayFail,   \* the speaker may refuse the LOAD, or answer it too late
    Cycle,         \* bound: chunks are numbered modulo this
    MaxRequests    \* bound: requests of the speaker

ASSUME SizeAssumption == {Capacity, Wire} \subseteq Nat \ {0} /\ MaxRequests \in Nat
ASSUME CycleAssumption == Cycle \in Nat /\ Cycle > Capacity + Wire + 2
ASSUME LoadAssumption == LoadMayFail \in BOOLEAN

VARIABLES
    control, toClose,   \* where run_session is, and what it still has to drop
    stopped,            \* DriverFlags.stopped
    unblocked,          \* Server::unblock has been called
    driver, chunk,      \* the driver thread, and the last chunk it encoded
    tail,               \* the loop is over: what is sent is the encoder's tail
    channel, receiver,  \* the chunk channel, and who holds its receiving end
    server,             \* the server thread
    requests, asked,    \* requests that wait for it, and how many there were
    wire, heard,        \* chunks on their way to the speaker, and the last it got
    listening           \* the speaker has not hung up

controlVars == <<control, toClose, stopped, unblocked>>
driverVars == <<driver, chunk, tail>>
speakerVars == <<requests, asked, heard, listening>>
vars == <<controlVars, driverVars, channel, receiver, server, wire, speakerVars>>

-----------------------------------------------------------------------------
(* The driver thread: drive and send_chunk. *)

After(number) == (number + 1) % Cycle

\* The loop's condition, and a block that the encoder makes a chunk of (those that only
\* fill it up are left out).
Render ==
    /\ driver = "loop"
    /\ \/ stopped /\ driver' = "finish" /\ UNCHANGED chunk
       \/ ~stopped /\ driver' = "send" /\ chunk' = After(chunk)
    /\ UNCHANGED <<controlVars, tail, channel, receiver, server, wire, speakerVars>>

\* The encoder fails, and the loop is left.
EncodeFails ==
    /\ driver = "loop" /\ ~stopped
    /\ driver' = "finish"
    /\ UNCHANGED <<controlVars, chunk, tail, channel, receiver, server, wire, speakerVars>>

\* encoder.finish, which may have nothing left.
Finish ==
    /\ driver = "finish"
    /\ tail' = TRUE
    /\ \/ driver' = "ended" /\ UNCHANGED chunk
       \/ driver' = "send" /\ chunk' = After(chunk)
    /\ UNCHANGED <<controlVars, channel, receiver, server, wire, speakerVars>>

Sent == IF tail THEN "ended" ELSE "loop"
GivenUp == IF tail THEN "ended" ELSE "finish"

\* Mutant of WhenFull: a chunk that finds no room is dropped.
WhenFullDrops == driver' = Sent

WhenFull == driver' = "wait"

TrySend ==
    /\ driver = "send"
    /\ IF receiver = "gone" THEN driver' = GivenUp /\ UNCHANGED channel
       ELSE IF Len(channel) < Capacity THEN driver' = Sent /\ channel' = Append(channel, chunk)
       ELSE WhenFull /\ UNCHANGED channel
    /\ UNCHANGED <<controlVars, chunk, tail, receiver, server, wire, speakerVars>>

\* Mutant of AfterWaiting: the wait is for room, whatever happens.
AfterWaitingForRoom == "send"

\* The chunk is given up when the stream was stopped while there was no room.
AfterWaiting == IF stopped THEN GivenUp ELSE "send"

Wait ==
    /\ driver = "wait"
    /\ driver' = AfterWaiting
    /\ UNCHANGED <<controlVars, chunk, tail, channel, receiver, server, wire, speakerVars>>

Driver == Render \/ Finish \/ TrySend \/ Wait

-----------------------------------------------------------------------------
(* The server thread: incoming_requests, serve_one and ChunkReader. *)

\* The first request takes the stream; a HEAD gets no body, and the stream is over.
Serve ==
    /\ server = "idle" /\ requests # <<>>
    /\ requests' = Tail(requests)
    /\ IF receiver # "asset" THEN UNCHANGED <<receiver, server, listening>>
       ELSE IF Head(requests) = "HEAD" THEN receiver' = "gone" /\ UNCHANGED <<server, listening>>
       ELSE receiver' = "reader" /\ server' = "stream" /\ listening' = TRUE
    /\ UNCHANGED <<controlVars, driverVars, channel, wire, asked, heard>>

\* A chunk is received and written; if nobody listens the write fails.
Stream ==
    /\ server = "stream" /\ channel # <<>> /\ (listening => Len(wire) < Wire)
    /\ channel' = Tail(channel)
    /\ IF listening THEN wire' = Append(wire, Head(channel)) /\ UNCHANGED <<server, receiver>>
       ELSE server' = "idle" /\ receiver' = "gone" /\ UNCHANGED wire
    /\ UNCHANGED <<controlVars, driverVars, speakerVars>>

\* The sender is gone: the response ends.
EndOfResponse ==
    /\ server = "stream" /\ channel = <<>> /\ driver = "ended"
    /\ server' = "idle" /\ receiver' = "gone"
    /\ UNCHANGED <<controlVars, driverVars, channel, wire, speakerVars>>

NoMoreRequests ==
    /\ server = "idle" /\ requests = <<>> /\ unblocked
    /\ server' = "ended"
    /\ UNCHANGED <<controlVars, driverVars, channel, receiver, wire, speakerVars>>

Server == Serve \/ Stream \/ EndOfResponse \/ NoMoreRequests

-----------------------------------------------------------------------------
(* The speaker. *)

\* It knows the URL from the moment the LOAD has been sent.
Fetch ==
    /\ control \notin {"connect", "refused"} /\ asked < MaxRequests
    /\ asked' = asked + 1
    /\ \E method \in {"GET", "HEAD"} : requests' = Append(requests, method)
    /\ UNCHANGED <<controlVars, driverVars, channel, receiver, server, wire, heard, listening>>

Hear ==
    /\ wire # <<>> /\ listening
    /\ heard' = Head(wire)
    /\ wire' = Tail(wire)
    /\ UNCHANGED <<controlVars, driverVars, channel, receiver, server, requests, asked, listening>>

HangUp ==
    /\ listening
    /\ listening' = FALSE
    /\ wire' = <<>>
    /\ UNCHANGED <<controlVars, driverVars, channel, receiver, server, requests, asked, heard>>

-----------------------------------------------------------------------------
(* The control thread: run_session. *)

\* An error leaves by `?`, and the parameters are dropped in reverse order of declaration.
ByUnwinding == <<"server", "player">>
InOrder == <<"player", "server">>

\* connect, launch, status and volume, and sending the LOAD.
Connect ==
    /\ control = "connect"
    /\ \/ control' = "load" /\ UNCHANGED toClose
       \/ control' = "refused" /\ toClose' = ByUnwinding
    /\ UNCHANGED <<stopped, unblocked, driverVars, channel, receiver, server, wire, speakerVars>>

Load ==
    /\ control = "load"
    /\ \/ control' = "follow" /\ UNCHANGED toClose
       \/ LoadMayFail /\ control' = "close" /\ toClose' = ByUnwinding
    /\ UNCHANGED <<stopped, unblocked, driverVars, channel, receiver, server, wire, speakerVars>>

\* follow returns: a key, an interrupt, an idle receiver or an error.
EndFollowing ==
    /\ control = "follow"
    /\ control' = "close" /\ toClose' = InOrder
    /\ UNCHANGED <<stopped, unblocked, driverVars, channel, receiver, server, wire, speakerVars>>

Closing == toClose # <<>>

\* CastStreamControl::drop: the flag, then the join.
StopDriver ==
    /\ Closing /\ Head(toClose) = "player" /\ ~stopped
    /\ stopped' = TRUE
    /\ UNCHANGED <<control, toClose, unblocked, driverVars, channel, receiver, server, wire, speakerVars>>

JoinDriver ==
    /\ Closing /\ Head(toClose) = "player" /\ stopped /\ driver = "ended"
    /\ toClose' = Tail(toClose)
    /\ UNCHANGED <<control, stopped, unblocked, driverVars, channel, receiver, server, wire, speakerVars>>

\* MediaServer::stop: the unblocking, then the join, and the assets go.
Unblock ==
    /\ Closing /\ Head(toClose) = "server" /\ ~unblocked
    /\ unblocked' = TRUE
    /\ UNCHANGED <<control, toClose, stopped, driverVars, channel, receiver, server, wire, speakerVars>>

JoinServer ==
    /\ Closing /\ Head(toClose) = "server" /\ unblocked /\ server = "ended"
    /\ toClose' = Tail(toClose)
    /\ receiver' = "gone"
    /\ UNCHANGED <<control, stopped, unblocked, driverVars, channel, server, wire, speakerVars>>

Control == Connect \/ Load \/ StopDriver \/ JoinDriver \/ Unblock \/ JoinServer

-----------------------------------------------------------------------------
Init ==
    /\ control = "connect" /\ toClose = <<>> /\ stopped = FALSE /\ unblocked = FALSE
    /\ driver = "loop" /\ chunk = 0 /\ tail = FALSE
    /\ channel = <<>> /\ receiver = "asset" /\ server = "idle"
    /\ requests = <<>> /\ asked = 0 /\ wire = <<>> /\ heard = 0 /\ listening = FALSE

Next == Driver \/ EncodeFails \/ Server \/ Fetch \/ Hear \/ HangUp \/ Control \/ EndFollowing

\* Threads run, and a speaker that listens goes on reading until it hangs up.
Fairness == WF_vars(Driver) /\ WF_vars(Server) /\ WF_vars(Control) /\ WF_vars(Hear \/ HangUp)

Spec == Init /\ [][Next]_vars /\ Fairness

-----------------------------------------------------------------------------
\* Once the session is over, whatever the speaker has fetched, read or left unread, both
\* threads are joined and the program ends ("dropping the Stream cannot deadlock against
\* a consumer that has stopped reading", "the server thread then finishes its response
\* and can be joined").
ClosesDown == Closing ~> ~Closing

\* The speaker hears the chunks in order and none is missing before the stream is stopped
\* or taken from it; after a stop only the encoder's tail may follow a gap.
Gapless ==
    LET stream == <<heard>> \o wire \o channel
    IN  \A i \in 2 .. Len(stream) :
            listening => stream[i] = After(stream[i - 1]) \/ (stopped /\ tail /\ i = Len(stream))
=============================================================================
