------------------------------ MODULE Cassette ------------------------------
(***************************************************************************)
(* Recording and replaying of calls: testing/vcr.                          *)
(*                                                                         *)
(* use_cassette opens a cassette, starts VCRProxyService on a thread of    *)
(* its own and replaces TChannel.request, a class attribute both threads   *)
(* see, so that calls made by the test go to that service.  The service    *)
(* replays them from the cassette, or puts the original TChannel.request   *)
(* back for a moment (force_reset) to make the real call and records it.   *)
(* The test's thread uses force_reset as well, to reach the service.  Each *)
(* force_reset leaves behind what it found.  The call to the service has a *)
(* timeout: the test then goes on, and so does the service.                *)
(*                                                                         *)
(* A session is one use of the cassette; several follow each other on one  *)
(* file.  Within a thread, code between two yields is not interrupted;     *)
(* the two threads interleave freely.                                      *)
(***************************************************************************)
EXTENDS Naturals, Sequences, FiniteSets, SequencesExt

CONSTANTS
  Requests,     \* what can be asked: [key, scheme, trace]
  Modes,        \* record modes the sessions may use
  MaxCalls,     \* calls made by the tests, all sessions together
  MaxSessions,  \* sessions
  MaxAwaited,   \* calls the test waits for at once
  MaxUnderWay   \* bound on calls under way, those it has given up included

ASSUME CassetteAssumption ==
  /\ Requests # {}
  /\ Modes \subseteq {"once", "new_episodes", "none", "all"} /\ Modes # {}
  /\ {MaxCalls, MaxSessions, MaxAwaited, MaxUnderWay} \subseteq Nat

VARIABLES
  file,        \* the YAML file: [kind, tape]
  bare,        \* its path has no directory part
  cache,       \* Cassette._cache: the contents that are known, and their tapes
  session,     \* number of the session, and whether it is on
  mode,        \* record mode of the session
  existed,     \* self.existed
  loaded,      \* the tape as _load found it
  available, played, recorded,
  attr,        \* TChannel.request: "original" or "patched"
  savedPatch,  \* what the Patcher of the session found
  savedMain, savedServer,  \* what force_reset found, on either thread, while in it
  call,        \* the calls: [req, at, kind, response]
  givenUp,     \* those that timed out for the test while the service works on them
  concurrent   \* the test made a call, or left, while one was under way on either thread

cassette == <<mode, existed, loaded, available, played, recorded>>
patches == <<attr, savedPatch, savedMain, savedServer>>
test == <<givenUp, concurrent>>
vars == <<file, bare, cache, session, cassette, patches, call, test>>

-----------------------------------------------------------------------------

Interactions == [request : Requests, response : Nat]
Calls == 1 .. MaxCalls
Answers == {"none", "replayed", "real", "bypass", "failed", "wrapped"}
At == {"unmade", "created", "reset", "called", "sent", "s_reset", "s_called",
       "asking", "over"}

\* Tapes hold whole interactions, on whichever of the lists of a cassette they are.
TypeOK ==
  /\ file \in [kind : {"missing", "empty", "version", "tape"}, tape : Seq(Interactions)]
  /\ cache \subseteq (Seq(Interactions) \X Seq(Interactions))
  /\ session \in [n : 0 .. MaxSessions, on : BOOLEAN]
  /\ mode \in Modes /\ existed \in BOOLEAN
  /\ {loaded, available, played, recorded} \subseteq Seq(Interactions)
  /\ {attr, savedPatch, savedMain, savedServer} \subseteq {"original", "patched"}
  /\ call \in [Calls -> [req : Requests, at : At, kind : Answers, response : Nat]]
  /\ bare \in BOOLEAN /\ givenUp \subseteq Calls
  /\ concurrent \in BOOLEAN

Init ==
  /\ file \in {[kind |-> k, tape |-> <<>>] : k \in {"missing", "empty", "version"}}
  /\ bare \in BOOLEAN /\ (bare => file.kind = "missing")
  /\ cache = {}
  /\ session = [n |-> 0, on |-> FALSE]
  /\ mode = CHOOSE m \in Modes : TRUE
  /\ existed = FALSE
  /\ loaded = <<>> /\ available = <<>> /\ played = <<>> /\ recorded = <<>>
  /\ attr = "original" /\ savedPatch = "original"
  /\ savedMain = "original" /\ savedServer = "original"
  /\ call = [c \in Calls |-> [req |-> CHOOSE q \in Requests : TRUE,
                              at |-> "unmade", kind |-> "none", response |-> 0]]
  /\ givenUp = {} /\ concurrent = FALSE

-----------------------------------------------------------------------------
(* Record modes and matching.                                              *)

Replayable(m) == m # "all"
SaveUnplayed(m) == m # "all"

CanRecord(m, e) == m \in {"new_episodes", "all"} \/ (m = "once" /\ ~e)

WriteProtected == ~CanRecord(mode, existed)

\* headers_matcher: where the headers can be parsed, tracing headers are left
\* out of the comparison.
HeadersMatch(a, b) ==
  /\ a.scheme = b.scheme
  /\ a.scheme \in {"json", "thrift"} \/ a.trace = b.trace

\* _match with the default matchers; key stands for service, endpoint, body and
\* the headers proper.
Match(a, b) == a.key = b.key /\ HeadersMatch(a, b)

\* _find: the first interaction that matches.
Found(request) == {i \in DOMAIN available : Match(request, available[i].request)}
CanReplay(request) == Replayable(mode) /\ Found(request) # {}

-----------------------------------------------------------------------------
(* The cassette and its file.                                              *)

\* Mutant of CacheKey: the cache goes by the path alone.
CacheKeyPath(tape) == <<>>

\* The key of the cache: the path and a digest of the file's contents.
CacheKey(tape) == tape

Tapes(tape) == {e[2] : e \in {x \in cache : x[1] = CacheKey(tape)}}

\* _load.
Load ==
  LET t == file.tape
      known == Tapes(t) IN
  /\ existed' = (file.kind # "missing")
  /\ \/ /\ file.kind = "tape"
        /\ available' = IF known = {} THEN t ELSE CHOOSE x \in known : TRUE
        /\ cache' = IF known = {} THEN cache \cup {<<CacheKey(t), t>>} ELSE cache
     \/ /\ file.kind # "tape"
        /\ available' = <<>> /\ UNCHANGED cache
  /\ loaded' = available'

\* The calls one thread is busy with, between two yields.
OnMain == {c \in Calls : call[c].at \in {"created", "reset", "called"}}
OnServer == {c \in Calls : call[c].at \in {"s_reset", "s_called"}}
UnderWay == {c \in Calls : call[c].at \notin {"unmade", "over"}}

\* Entering use_cassette: the cassette is loaded, the service started and
\* TChannel.request replaced.  The thread of an earlier session has been joined.
Enter ==
  /\ OnServer = {} /\ ~session.on /\ session.n < MaxSessions /\ file.kind # "version"
  /\ session' = [n |-> session.n + 1, on |-> TRUE]
  /\ mode' \in Modes
  /\ Load
  /\ played' = <<>> /\ recorded' = <<>>
  /\ attr' = "patched" /\ savedPatch' = attr
  /\ UNCHANGED <<file, bare, savedMain, savedServer, call, test>>

\* UnsupportedVersionError.
EnterRefused ==
  /\ ~session.on /\ session.n < MaxSessions /\ file.kind = "version"
  /\ session' = [session EXCEPT !.n = @ + 1]
  /\ UNCHANGED <<file, bare, cache, cassette, patches, call, test>>

\* What save writes, and in which order.
Saved == played \o (IF SaveUnplayed(mode) THEN available ELSE <<>>) \o recorded

\* Mutant of Stopped: the service goes without closing its connections.
StoppedSilently == call

\* VCRProxyService.stop: the callers of what the service has under way are cut off.
Stopped ==
  [c \in Calls |-> IF call[c].at \in {"sent", "asking"}
                   THEN [call[c] EXCEPT !.at = "over"] ELSE call[c]]

\* save: nothing is written when nothing was recorded.  With a path that has no directory
\* part it raises, for makedirs('') does: the file stays as it is, and what was recorded is
\* gone with the cassette.
Writes == recorded # <<>> /\ ~bare

\* Leaving: the patch is undone, the service stopped and the cassette saved.
\* Calls under way are lost: what they record no longer reaches the file.
Exit ==
  /\ session.on /\ OnMain = {}
  /\ session' = [session EXCEPT !.on = FALSE]
  /\ attr' = savedPatch
  /\ concurrent' = (concurrent \/ UnderWay # {})
  /\ givenUp' = {c \in givenUp : Stopped[c].at # "over"}
  /\ file' = IF Writes THEN [kind |-> "tape", tape |-> Saved] ELSE file
  /\ available' = IF Writes THEN Saved ELSE available
  /\ played' = IF Writes THEN <<>> ELSE played
  /\ recorded' = <<>>
  /\ call' = Stopped
  /\ UNCHANGED <<bare, cache, mode, existed, loaded, savedPatch, savedMain, savedServer>>

-----------------------------------------------------------------------------
(* The test's thread: TChannel.request and PatchedClientOperation.send.    *)

Move(c, to) == call' = [call EXCEPT ![c].at = to]
Over(c, kind, response) ==
  /\ call' = [call EXCEPT ![c].at = "over", ![c].kind = kind, ![c].response = response]
  /\ givenUp' = givenUp \ {c} /\ UNCHANGED concurrent

\* channel.request(...): which class of operation the test is given.  The
\* original one calls the remote service directly.
Create(c) ==
  /\ session.on /\ call[c].at = "unmade" /\ OnMain = {}
  /\ Cardinality(UnderWay \ givenUp) < MaxAwaited
  /\ Cardinality(UnderWay) < MaxUnderWay
  /\ \A d \in Calls : d < c => call[d].at # "unmade"
  /\ \E q \in Requests :
       call' = [call EXCEPT ![c].req = q,
                            ![c].at = IF attr = "patched" THEN "created" ELSE "over",
                            ![c].kind = IF attr = "patched" THEN @ ELSE "bypass"]
  /\ concurrent' = (concurrent \/ UnderWay # {})
  /\ UNCHANGED <<file, bare, cache, session, cassette, patches, givenUp>>

\* force_reset is entered around the call to the service.
ClientResets(c) ==
  /\ call[c].at = "created"
  /\ savedMain' = attr /\ attr' = "original"
  /\ Move(c, "reset")
  /\ UNCHANGED <<file, bare, cache, session, cassette, savedPatch, savedServer, test>>

\* The call to the service is itself made through TChannel.request: if that is
\* patched at this moment, it goes to the service wrapped once more (and is not
\* followed any further here).
ClientCalls(c) ==
  /\ call[c].at = "reset"
  /\ call' = [call EXCEPT ![c].at = "called",
                          ![c].kind = IF attr = "original" THEN @ ELSE "wrapped"]
  /\ UNCHANGED <<file, bare, cache, session, cassette, patches, test>>

\* Mutant of ClientRestores: the patch is not put back.
ClientRestoresNothing(c) ==
  /\ call[c].at = "called"
  /\ Move(c, IF call[c].kind = "wrapped" THEN "over" ELSE "sent")
  /\ UNCHANGED <<file, bare, cache, session, cassette, patches, test>>

ClientRestores(c) ==
  /\ call[c].at = "called"
  /\ attr' = savedMain /\ savedMain' = "original"
  /\ Move(c, IF call[c].kind = "wrapped" THEN "over" ELSE "sent")
  /\ UNCHANGED <<file, bare, cache, session, cassette, savedPatch, savedServer, test>>

\* The call to the service is over for the test after ttl * 1.1, or the default timeout.
\* The service is not told, and goes on with it.
ClientTimesOut(c) ==
  /\ call[c].at \in {"sent", "s_reset", "s_called", "asking"} /\ c \notin givenUp
  /\ givenUp' = givenUp \cup {c}
  /\ UNCHANGED <<file, bare, cache, session, cassette, patches, call, concurrent>>

-----------------------------------------------------------------------------
(* The service's thread: VCRProxyService.send.                             *)

\* Mutant of Remaining: a replayed interaction stays available.
RemainingAll(i) == available

\* What a replay of the i-th interaction leaves.
Remaining(i) == RemoveAt(available, i)

\* What it adds to the interactions that were played.
Taken(i) == available[i]

Replay(c) ==
  /\ session.on /\ call[c].at = "sent" /\ OnServer = {} /\ CanReplay(call[c].req)
  /\ LET i == CHOOSE i \in Found(call[c].req) : \A j \in Found(call[c].req) : i <= j IN
     /\ available' = Remaining(i)
     /\ played' = Append(played, Taken(i))
     /\ Over(c, "replayed", available[i].response)
  /\ UNCHANGED <<file, bare, cache, session, mode, existed, loaded, recorded, patches>>

\* The mode forbids the call (always), or neither a host nor peers are known
\* (maybe).
Refuse(c) ==
  /\ session.on /\ call[c].at = "sent" /\ OnServer = {} /\ ~CanReplay(call[c].req)
  /\ Over(c, "failed", 0)
  /\ UNCHANGED <<file, bare, cache, session, cassette, patches>>

\* unpatch() is entered around the real call...
ServerResets(c) ==
  /\ session.on /\ call[c].at = "sent" /\ OnServer = {}
  /\ ~CanReplay(call[c].req) /\ ~WriteProtected
  /\ savedServer' = attr /\ attr' = "original"
  /\ Move(c, "s_reset")
  /\ UNCHANGED <<file, bare, cache, session, cassette, savedPatch, savedMain, test>>

\* ...which goes back to the service itself if the patch is there again...
ServerCalls(c) ==
  /\ call[c].at = "s_reset"
  /\ call' = [call EXCEPT ![c].at = "s_called",
                          ![c].kind = IF attr = "original" THEN @ ELSE "wrapped"]
  /\ UNCHANGED <<file, bare, cache, session, cassette, patches, test>>

\* ...and left.  The answer is awaited with the patch in place.
ServerRestores(c) ==
  /\ call[c].at = "s_called"
  /\ attr' = savedServer /\ savedServer' = "original"
  /\ LET over == call[c].kind = "wrapped" \/ ~session.on IN
     /\ Move(c, IF over THEN "over" ELSE "asking")
     /\ givenUp' = IF over THEN givenUp \ {c} ELSE givenUp
  /\ UNCHANGED <<file, bare, cache, session, cassette, savedPatch, savedMain, concurrent>>

\* The remote service answers; record.  Responses are told apart by number.
Record(c) ==
  /\ session.on /\ call[c].at = "asking" /\ OnServer = {}
  /\ recorded' = Append(recorded, [request |-> call[c].req, response |-> c])
  /\ Over(c, "real", c)
  /\ UNCHANGED <<file, bare, cache, session, mode, existed, loaded, available, played,
                 patches>>

\* It fails with a TChannelError: RemoteServiceError, and nothing is recorded.
RemoteServiceError(c) ==
  /\ session.on /\ call[c].at = "asking" /\ OnServer = {}
  /\ Over(c, "failed", 0)
  /\ UNCHANGED <<file, bare, cache, session, cassette, patches>>

Next ==
  \/ Enter \/ EnterRefused \/ Exit
  \/ \E c \in Calls :
       \/ Create(c) \/ ClientResets(c) \/ ClientCalls(c) \/ ClientRestores(c)
       \/ ClientTimesOut(c)
       \/ Replay(c) \/ Refuse(c) \/ Record(c) \/ RemoteServiceError(c)
       \/ ServerResets(c) \/ ServerCalls(c) \/ ServerRestores(c)

\* The event loops of both threads run; the remote service answers or fails.
Fairness ==
  \A c \in Calls :
    /\ WF_vars(ClientResets(c)) /\ WF_vars(ClientCalls(c)) /\ WF_vars(ClientRestores(c))
    /\ WF_vars(Replay(c) \/ Refuse(c) \/ ServerResets(c))
    /\ WF_vars(ServerCalls(c)) /\ WF_vars(ServerRestores(c))
    /\ WF_vars(Record(c) \/ RemoteServiceError(c))

Spec == Init /\ [][Next]_vars /\ Fairness

-----------------------------------------------------------------------------
(* Properties.                                                             *)

\* The tapes s and t hold the same interactions, those with matching requests in the
\* same order: p says where in t each one of s is.
SameInOrder(s, t) ==
  \E p \in Bijection(DOMAIN s, DOMAIN t) :
    /\ \A i \in DOMAIN s : s[i] = t[p[i]]
    /\ \A i, j \in DOMAIN s : i < j /\ Match(s[i].request, s[j].request) => p[i] < p[j]

\* Requests that match are replayed in the order in which they were recorded,
\* each recording once a session; those not yet replayed are still there.
ReplayInOrder == session.on => SameInOrder(played \o available, loaded)

\* An answer that is replayed was once given by the remote service to a request
\* that the caller cannot tell from its own but by its tracing headers.
AnswersAreGenuine ==
  \A c \in Calls : call[c].kind = "replayed" =>
    LET d == call[c].response IN
    /\ d \in Calls /\ call[d].kind = "real"
    /\ call[d].req.key = call[c].req.key /\ call[d].req.scheme = call[c].req.scheme

\* Saving loses nothing that was on the tape, unless the mode is to record all
\* anew.
NothingIsForgotten ==
  [][file.kind = "tape" /\ mode # "all"
       => ToSet(file.tape) \subseteq ToSet(file'.tape)]_file

\* A mode that only replays, or once with a file that was there, leaves the file
\* as it is.
ReplayLeavesFile ==
  [][file' # file => mode \in {"new_episodes", "all"} \/ file.kind = "missing"]_file

\* When a session is over, each answer it replayed is still on the tape, and each real one
\* given in it is, one that came too late for the test included: a test that ran while
\* recording finds its answers when it is run again.  A cassette whose path has no
\* directory part never saves what it recorded, and keeps what it had.
AnsweredIsSaved ==
  [][session.on /\ ~session'.on =>
       /\ \A i \in DOMAIN played : Contains(file'.tape, played[i])
       /\ \A i \in DOMAIN recorded : bare \/ Contains(file'.tape, recorded[i])
       /\ bare => file' = file]_vars

\* A test that makes one call after the other, waits for each, and leaves when the last
\* is over has each of them go through the cassette once, and the patch is gone when it
\* has left, unless one of them timed out and the service still worked on it when the next
\* was made or the session left.  (Then, as with calls made at once, the two threads may
\* meet in force_reset.)
PatchHolds ==
  ~concurrent =>
    /\ \A c \in Calls : call[c].kind \notin {"bypass", "wrapped"}
    /\ attr = "patched" => session.on
    /\ session.on /\ OnMain = {} /\ OnServer = {} => attr = "patched"

\* Every call comes to an end, in the service as well: it is answered, refused or fails,
\* and time and again nothing is under way.
CallsEnd == UnderWay # {} ~> UnderWay = {}

\* A test that replays gets genuine answers, in the order in which they were recorded.
ReplayIsFaithful == TypeOK /\ ReplayInOrder /\ AnswersAreGenuine

\* A session leaves on file what was there and what it added, and nothing else.
FileIsKept == NothingIsForgotten /\ ReplayLeavesFile /\ AnsweredIsSaved
=============================================================================
