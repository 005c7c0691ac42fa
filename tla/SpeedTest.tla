------------------------------ MODULE SpeedTest ------------------------------
(***************************************************************************)
(* The speed test server (infra/speedtest): a limiter of its own per       *)
(* address, then one of a fixed number of slots, then a body that is sent  *)
(* or read chunk by chunk while the slot is held.  A shutdown waits for    *)
(* the requests under way, but not for ever.                               *)
(***************************************************************************)
EXTENDS Integers, FiniteSets, Sequences

CONSTANTS
    SpeedHandlers,          \* goroutines, one per connection
    SpeedIPs,
    SpeedRequests,          \* what clients ask: [ep, given, size, post]
    MaxConcurrent,          \* cfg.SpeedTest.MaxConcurrent
    SpeedTestRateLimit, SpeedTestRateLimitWindow,
    RandomBufSize, MaxDownloadSize, ChunkSize, MaxUploadBytes,
    MaxSpeedTime, MaxSpeedCalls, MaxSpeedRestarts

ASSUME SpeedAssumption ==
    /\ IsFiniteSet(SpeedHandlers)
    /\ MaxConcurrent \in Nat \ {0}
    /\ {RandomBufSize, MaxDownloadSize, ChunkSize, MaxUploadBytes} \subseteq Nat \ {0}
    /\ MaxSpeedRestarts \in Nat
    /\ SpeedRequests \subseteq [ep : {"download", "upload", "ping"}, given : BOOLEAN,
                                size : Int, post : BOOLEAN]

VARIABLES
    slots,          \* the number of values in the semaphore channel
    windows,        \* inProcessLimiter.windows: the times kept for each address
    speedCall,      \* what each handler is at
    server,         \* "serving", "draining", or "down" between two starts
    admitted,       \* history: when the limiter let the requests of each address through
    speedTime, speedCalls, speedRestarts

speedVars ==
    <<slots, windows, speedCall, server, admitted, speedTime, speedCalls, speedRestarts>>

NoSpeedRequest == [ep |-> "ping", given |-> FALSE, size |-> 0, post |-> FALSE]
SpeedIdle == [pc |-> "idle", req |-> NoSpeedRequest, done |-> 0, reply |-> -1]

SpeedInit ==
    /\ slots = 0
    /\ windows = [ip \in SpeedIPs |-> <<>>]
    /\ speedCall = [h \in SpeedHandlers |-> SpeedIdle]
    /\ server = "serving"
    /\ admitted = [ip \in SpeedIPs |-> <<>>]
    /\ speedTime = 0 /\ speedCalls = 0 /\ speedRestarts = 0

-----------------------------------------------------------------------------
Least(a, b) == IF a <= b THEN a ELSE b

\* A size that is given has to be a positive number; text that is none counts as 0.
SizeRefused(r) == r.given /\ r.size <= 0
DownloadSize(r) == Least(IF r.given THEN r.size ELSE RandomBufSize, MaxDownloadSize)

\* inProcessLimiter.Allow, under its mutex.
KeptTimes(ip) == SelectSeq(windows[ip], LAMBDA t : t > speedTime - SpeedTestRateLimitWindow)

\* Mutant: a request that is refused empties the window.
ArriveForgetful(h, ip, r) ==
    /\ server = "serving"
    /\ speedCall[h].pc \in {"idle", "replied"}
    /\ speedCalls < MaxSpeedCalls
    /\ speedCalls' = speedCalls + 1
    /\ LET kept == KeptTimes(ip)
       IN IF Len(kept) >= SpeedTestRateLimit
          THEN windows' = [windows EXCEPT ![ip] = <<>>] /\ UNCHANGED <<speedCall, admitted>>
          ELSE /\ windows' = [windows EXCEPT ![ip] = Append(kept, speedTime)]
               /\ admitted' = [admitted EXCEPT ![ip] = Append(@, speedTime)]
               /\ speedCall' = [speedCall EXCEPT ![h] = [SpeedIdle EXCEPT !.pc = "enter", !.req = r]]
    /\ UNCHANGED <<slots, server, speedTime, speedRestarts>>

\* withRateLimit: a request over the limit of its address is answered 429.
Arrive(h, ip, r) ==
    /\ server = "serving"
    /\ speedCall[h].pc \in {"idle", "replied"}
    /\ speedCalls < MaxSpeedCalls
    /\ speedCalls' = speedCalls + 1
    /\ LET kept == KeptTimes(ip)
       IN IF Len(kept) >= SpeedTestRateLimit
          THEN windows' = [windows EXCEPT ![ip] = kept] /\ UNCHANGED <<speedCall, admitted>>
          ELSE /\ windows' = [windows EXCEPT ![ip] = Append(kept, speedTime)]
               /\ admitted' = [admitted EXCEPT ![ip] = Append(@, speedTime)]
               /\ speedCall' = [speedCall EXCEPT ![h] = [SpeedIdle EXCEPT !.pc = "enter", !.req = r]]
    /\ UNCHANGED <<slots, server, speedTime, speedRestarts>>

Busy(h) == speedCall[h].pc \in {"download", "upload", "ping"}
SpeedRest == UNCHANGED <<windows, server, admitted, speedTime, speedCalls, speedRestarts>>

\* Upload refuses any other method before it asks for a slot; acquireSemaphore does not
\* wait: without a free slot the answer is 429.
EnterSlot(h) ==
    LET r == speedCall[h].req
    IN /\ speedCall[h].pc = "enter"
       /\ IF (r.ep = "upload" /\ ~r.post) \/ slots >= MaxConcurrent
          THEN speedCall' = [speedCall EXCEPT ![h] = SpeedIdle] /\ UNCHANGED slots
          ELSE speedCall' = [speedCall EXCEPT ![h].pc = r.ep] /\ slots' = slots + 1
       /\ SpeedRest

\* The deferred releaseSemaphore, with what the client was told: the bytes sent or received.
ReleaseSlot(h, reply) ==
    /\ slots' = slots - 1
    /\ speedCall' = [speedCall EXCEPT ![h] = [@ EXCEPT !.pc = "replied", !.reply = reply]]

\* Download: an invalid size is a 400, with the slot held and given back.
RefuseSize(h) ==
    /\ speedCall[h].pc = "download"
    /\ SizeRefused(speedCall[h].req)
    /\ ReleaseSlot(h, -1)
    /\ SpeedRest

\* A slice of the random buffer, from where the last one ended.
WriteChunk(h) ==
    LET c == speedCall[h]
        chunk == Least(ChunkSize, DownloadSize(c.req) - c.done)
        offset == c.done % RandomBufSize
    IN /\ c.pc = "download"
       /\ ~SizeRefused(c.req)
       /\ c.done < DownloadSize(c.req)
       /\ speedCall' = [speedCall EXCEPT ![h].done = @ + Least(offset + chunk, RandomBufSize) - offset]
       /\ UNCHANGED slots
       /\ SpeedRest

DownloadEnds(h) ==
    /\ speedCall[h].pc = "download"
    /\ ~SizeRefused(speedCall[h].req)
    /\ speedCall[h].done >= DownloadSize(speedCall[h].req)
    /\ ReleaseSlot(h, speedCall[h].done)
    /\ SpeedRest

\* Mutant: the handler that a disconnected client leaves keeps its slot.
DisconnectHolding(h) ==
    /\ speedCall[h].pc = "download"
    /\ ~SizeRefused(speedCall[h].req)
    /\ speedCall' = [speedCall EXCEPT ![h] = SpeedIdle]
    /\ UNCHANGED slots
    /\ SpeedRest

\* Write fails: the client has gone.
Disconnect(h) ==
    /\ speedCall[h].pc = "download"
    /\ ~SizeRefused(speedCall[h].req)
    /\ ReleaseSlot(h, -1)
    /\ SpeedRest

\* Upload reads through io.LimitReader, one byte past the limit at most.
ReadChunk(h) ==
    LET c == speedCall[h]
        left == Least(c.req.size, MaxUploadBytes + 1) - c.done
    IN /\ c.pc = "upload"
       /\ left > 0
       /\ \E n \in {1, Least(ChunkSize, left)} : speedCall' = [speedCall EXCEPT ![h].done = @ + n]
       /\ UNCHANGED slots
       /\ SpeedRest

\* At the end of the body, or at any error, what was read is reported, capped.
UploadEnds(h) ==
    /\ speedCall[h].pc = "upload"
    /\ ReleaseSlot(h, Least(speedCall[h].done, MaxUploadBytes))
    /\ SpeedRest

PingEnds(h) ==
    /\ speedCall[h].pc = "ping"
    /\ ReleaseSlot(h, 0)
    /\ SpeedRest

\* Start's context is cancelled: srv.Shutdown closes the listener.
BeginShutdown ==
    /\ server = "serving"
    /\ speedRestarts < MaxSpeedRestarts
    /\ server' = "draining"
    /\ speedRestarts' = speedRestarts + 1
    /\ UNCHANGED <<slots, windows, speedCall, admitted, speedTime, speedCalls>>

\* The requests have ended, or ShutdownTimeout has, and the process ends with what is left
\* of them.
ShutdownEnds ==
    /\ server = "draining"
    /\ server' = "down"
    /\ speedCall' = [h \in SpeedHandlers |-> SpeedIdle]
    /\ UNCHANGED <<slots, windows, admitted, speedTime, speedCalls, speedRestarts>>

\* NewSpeedTestServer and Start in a new process: a new channel and a new limiter.
StartServer ==
    /\ server = "down"
    /\ server' = "serving"
    /\ slots' = 0
    /\ windows' = [ip \in SpeedIPs |-> <<>>]
    /\ admitted' = [ip \in SpeedIPs |-> <<>>]
    /\ UNCHANGED <<speedCall, speedTime, speedCalls, speedRestarts>>

SpeedTick ==
    /\ speedTime < MaxSpeedTime
    /\ speedTime' = speedTime + 1
    /\ UNCHANGED <<slots, windows, speedCall, server, admitted, speedCalls, speedRestarts>>

SpeedNext ==
    \/ \E h \in SpeedHandlers :
         \/ \E ip \in SpeedIPs, r \in SpeedRequests : Arrive(h, ip, r)
         \/ EnterSlot(h) \/ RefuseSize(h) \/ WriteChunk(h) \/ DownloadEnds(h) \/ Disconnect(h)
         \/ ReadChunk(h) \/ UploadEnds(h) \/ PingEnds(h)
    \/ BeginShutdown \/ ShutdownEnds \/ StartServer \/ SpeedTick

SpeedSpec == SpeedInit /\ [][SpeedNext]_speedVars

-----------------------------------------------------------------------------
SpeedTypeOK ==
    /\ slots \in Nat
    /\ windows \in [SpeedIPs -> Seq(Int)]
    /\ speedCall \in [SpeedHandlers ->
         [pc : {"idle", "enter", "download", "upload", "ping", "replied"},
          req : SpeedRequests \cup {NoSpeedRequest}, done : Nat, reply : Int]]
    /\ server \in {"serving", "draining", "down"}
    /\ admitted \in [SpeedIPs -> Seq(Int)]

\* acquireSemaphore, releaseSemaphore: whichever way requests end, the slots taken are those
\* of the requests under way, so none is lost and there are never more than configured.
SlotsReturned ==
    server # "down" => slots = Cardinality({h \in SpeedHandlers : Busy(h)}) /\ slots <= MaxConcurrent

\* inProcessLimiter: in no window of time is more let through for one address than the
\* limit, whatever is refused in between and however long the address was silent.
AddressLimited ==
    \A ip \in SpeedIPs, t \in 0 .. MaxSpeedTime :
        Cardinality({i \in DOMAIN admitted[ip] :
                        admitted[ip][i] \in t - SpeedTestRateLimitWindow + 1 .. t})
          <= SpeedTestRateLimit

\* Download, Upload: a client that is answered got exactly the bytes it asked for, or is
\* told no more than it sent, within the caps; and nothing is read past the cap by more
\* than the byte that shows there is more.
BytesCounted ==
    \A h \in SpeedHandlers :
        LET c == speedCall[h]
        IN /\ c.req.ep = "download" /\ c.reply >= 0 => c.reply = DownloadSize(c.req)
           /\ c.req.ep = "download" => c.done <= MaxDownloadSize
           /\ c.req.ep = "upload" => c.reply <= MaxUploadBytes /\ c.done <= MaxUploadBytes + 1
           /\ c.req.ep = "upload" /\ c.reply >= 0 => c.reply <= c.req.size

SpeedSafe == SlotsReturned /\ AddressLimited /\ BytesCounted
=============================================================================
