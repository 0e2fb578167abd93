------------------------------- MODULE IovBoot -------------------------------
(***************************************************************************)
(* A VF coming up over the relay of IovRelay: its handshake with the PF     *)
(* (intel_iov_query_version), then its query of the PF's runtime registers  *)
(* in chunks (intel_iov_query_runtime), served by the PF's service          *)
(* (intel_iov_service.c).  Other calls share the relay.                     *)
(***************************************************************************)
EXTENDS IovRelay

CONSTANTS
    BootCalls,  \* the calls the VF makes in turn, as a sequence
    RegCount,   \* runtime->size: the number of runtime registers
    MaxChunk,   \* how many registers fit a response, on either side
    Wanted,     \* the versions a VF driver may ask for
    Latest,     \* IOV_VERSION_LATEST_MAJOR and _MINOR of the PF
    BaseMajor   \* IOV_VERSION_BASE_MAJOR of the PF

ASSUME BootAssumption ==
    /\ BootCalls \in Seq(Calls)
    /\ RegCount \in Nat /\ MaxChunk \in Nat \ {0}
    /\ Wanted \subseteq (0..15) \X (0..15) /\ Latest \in (0..15) \X (0..15)
    /\ BaseMajor \in 0..Latest[1]
    \* every call is another one, and there are enough of them
    /\ \A i, j \in 1..Len(BootCalls) : BootCalls[i] = BootCalls[j] => i = j
    /\ Len(BootCalls) >= 2 /\ (Len(BootCalls) - 1) * MaxChunk >= RegCount

VARIABLES
    step,       \* "handshake", "query", then "up" or "failed"
    turn,       \* the index in BootCalls of the call being made
    version,    \* the version asked for, then the one agreed
    start,      \* start of vf_get_runtime_info_relay()
    regs        \* iov->vf.runtime.regs; None where nothing was stored

client == <<step, turn, version, start, regs>>
bootVars == <<vars, client>>

Booting == {BootCalls[i] : i \in 1..Len(BootCalls)}
-----------------------------------------------------------------------------
\* The service of the PF.

Lesser(a, b) == IF a < b THEN a ELSE b

\* reply_handshake()
Negotiate(w) ==
    CASE w = <<0, 0>> \/ w[1] > Latest[1] -> Latest
      [] w # <<0, 0>> /\ w[1] < BaseMajor -> Failed
      [] w # <<0, 0>> /\ w[1] \in BaseMajor..(Latest[1] - 1) -> w
      [] w # <<0, 0>> /\ w[1] = Latest[1] /\ w[1] >= BaseMajor ->
            <<w[1], Lesser(Latest[2], w[2])>>

\* A version as the dword of the handshake messages: two halves, here of
\* HalfSize values each instead of 2^16.
HalfSize == 16
Dword(v) == HalfSize * v[1] + v[2]
Version(d) == <<d \div HalfSize, d % HalfSize>>

Handshake(w) ==
    IF Negotiate(w) = Failed THEN Failed ELSE <<0, Dword(Negotiate(w))>>

\* pf_reply_runtime_query(): the count, how many remain, then the registers
\* (a register's offset and value are one element here).
RuntimeQuery(from, limit) ==
    IF from > RegCount THEN Failed
    ELSE LET most == Lesser(RegCount - from, MaxChunk)
             chunk == IF limit = 0 THEN most ELSE Lesser(most, limit)
         IN <<chunk, RegCount - from - chunk>> \o [i \in 1..chunk |-> from + i]

\* intel_iov_service_process_msg()
Service(q) ==
    CASE q[1] = "handshake" -> Handshake(Version(q[2]))
      [] q[1] = "runtime" -> RuntimeQuery(q[2], q[3])
      [] q[1] = "ack" -> <<0>>
      [] OTHER -> Failed

ServiceReplies ==
    ({Handshake(w) : w \in Wanted} \ {Failed}) \cup {<<0>>}
      \cup {RuntimeQuery(i, MaxChunk) : i \in 0..RegCount}

Handshakes == {<<"handshake", Dword(w)>> : w \in Wanted}
Queries == {<<"runtime", i, MaxChunk>> : i \in 0..RegCount}

\* The relay carries what the VF asks and what the service replies.
ASSUME MessageAssumption ==
    /\ Handshakes \cup Queries \cup {<<"ack">>} \subseteq Requests
    /\ \A q \in Requests : Service(q) = Failed \/ Service(q) \in Replies
    /\ <<0>> \in Replies
-----------------------------------------------------------------------------
\* The VF.

BootInit ==
    /\ Init
    /\ step = "handshake"
    /\ turn = 1
    /\ version \in Wanted
    /\ start = 0
    /\ regs = <<>>

This == BootCalls[turn]

Request == IF step = "handshake" THEN <<"handshake", Dword(version)>>
           ELSE <<"runtime", start, MaxChunk>>

BootCall ==
    /\ step \in {"handshake", "query"}
    /\ \/ GetNextFence(This)
       \/ Send(This, Request)
    /\ UNCHANGED client

\* The reply is taken when the call has returned one of at least n elements.
Got(n) == Result(This) # Failed /\ Len(Result(This)) >= n

\* Mutant: a failed query leaves what it has stored so far.
FailKept ==
    /\ step' = "failed"
    /\ UNCHANGED <<turn, version, start, regs>>

\* vf_cleanup_runtime_info(), after any failure.
Fail ==
    /\ step' = "failed"
    /\ regs' = <<>>
    /\ UNCHANGED <<turn, version, start>>

HandshakeReturn ==
    /\ step = "handshake"
    /\ pc[This] = "done"
    /\ \/ /\ Got(2) /\ Len(Result(This)) = 2 /\ Result(This)[1] = 0
          /\ version' = Version(Result(This)[2])
          /\ step' = "query"
          /\ turn' = turn + 1
          /\ UNCHANGED <<start, regs>>
       \/ /\ ~(Got(2) /\ Len(Result(This)) = 2 /\ Result(This)[1] = 0)
          /\ Fail
    /\ UNCHANGED vars

\* The table after a chunk of n registers of which the rest remain.
Stored(old, from, chunk) ==
    [i \in 1..Len(old) |->
        IF i \in (from + 1)..(from + Len(chunk)) THEN chunk[i - from] ELSE old[i]]

ChunkReturn ==
    /\ step = "query"
    /\ pc[This] = "done"
    /\ \/ /\ Got(2)
          /\ LET chunk == SubSeq(Result(This), 3, Len(Result(This)))
                 rest == Result(This)[2]
                 table == IF start = 0
                          THEN [i \in 1..(Len(chunk) + rest) |-> None]
                          ELSE regs
             IN /\ Result(This)[1] = Len(chunk)
                /\ start + Len(chunk) <= Len(table)
                /\ regs' = Stored(table, start, chunk)
                /\ IF rest > 0
                   THEN /\ start' = start + Len(chunk)
                        /\ turn' = turn + 1
                        /\ UNCHANGED step
                   ELSE /\ step' = "up"
                        /\ UNCHANGED <<start, turn>>
          /\ UNCHANGED version
       \* a failed call, a malformed or too long reply, no memory for the table
       \/ Fail
    /\ UNCHANGED vars

-----------------------------------------------------------------------------
Client == BootCall \/ HandshakeReturn \/ ChunkReturn

OtherCall(c) ==
    /\ c \notin Booting
    /\ GetNextFence(c) \/ Send(c, <<"ack">>)
    /\ UNCHANGED client

Served(l) ==
    /\ chan[l] # <<>> /\ Head(chan[l]).type = "request"
    /\ IF l[2] # PF \/ Service(Head(chan[l]).body) = Failed
       THEN Refuse(l)
       ELSE Serve(l, Service(Head(chan[l]).body))
    /\ UNCHANGED client

Settled(m) ==
    /\ IF Target[m.of] # PF \/ Service(m.body) = Failed
       THEN Settle(m, <<0>>) /\ UNCHANGED served
       ELSE Settle(m, Service(m.body))
    /\ UNCHANGED client

Running(c) ==
    /\ Wait(c)
    /\ UNCHANGED client

Network(l) ==
    /\ HandleReply(l) \/ HandleFailure(l) \/ PutOff(l) \/ Lose(l)
    /\ UNCHANGED client

BootNext ==
    \/ Client
    \/ \E c \in Calls : Running(c) \/ OtherCall(c)
    \/ \E l \in Links : Served(l) \/ Network(l)
    \/ \E m \in owed : Settled(m)

\* A call runs to its end once it has begun, and its wait is bounded by
\* RELAY_TIMEOUT; nothing is assumed of the peer or of the GuC.  (Behaviours
\* end, so weak fairness of all these steps together is that of each.)
Progress == Client \/ \E c \in Calls : Running(c) \/ (Active(c) /\ OtherCall(c))

BootSpec == BootInit /\ [][BootNext]_bootVars /\ WF_bootVars(Progress)
-----------------------------------------------------------------------------
AtMost(v, w) == v[1] < w[1] \/ (v[1] = w[1] /\ v[2] <= w[2])

\* A VF goes on only with a version the PF knows, the table it has come up with
\* is the PF's, whole and in order, and a VF whose query failed half way keeps
\* none of it.
UpSound ==
    /\ step \in {"query", "up"} => AtMost(version, Latest) /\ version[1] >= BaseMajor
    /\ step = "up" => regs = [i \in 1..RegCount |-> i]
    /\ step = "failed" => regs = <<>>

\* A VF comes up or gives up, and every call that was made has returned for
\* good, whatever is lost, late or put off: no call waits for longer than
\* RELAY_TIMEOUT after each answer.
BootEnds ==
    <>[](step \in {"up", "failed"} /\ \A c \in Calls : ~Active(c))
=============================================================================
