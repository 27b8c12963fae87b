------------------------------ MODULE TossAuth ------------------------------
(***************************************************************************)
(* The access token of the Toss adapter: TossAuth (get_access_token,       *)
(* refresh_on_401, the proactive refresh task) and the requests of         *)
(* TossRestClient._do_request that use the token and retry once on a 401.  *)
(*                                                                         *)
(* Toss keeps one valid token per client: issuing a token invalidates the  *)
(* one before it.  Tokens are numbered in the order the server issues      *)
(* them.  Time is left out but for the age of a token; what the code does  *)
(* under its asyncio.Lock between two awaits is one action.                *)
(***************************************************************************)
EXTENDS Integers, Sequences, SequencesExt

CONSTANTS
  Requests,     \* concurrent callers of _request_market / _request_order
  Timer,        \* the background task, when it takes the lock
  NULL,         \* Python None, no cache file
  MaxTokens,    \* bound: tokens the server issues; never reached
  MaxCalls,     \* bound: requests made
  MaxAges,      \* bound: tokens growing old
  MaxOthers,    \* bound: tokens issued to another instance of the program
  MaxFaults,    \* bound: failed calls of the token endpoint and of the disk
  MaxCrashes    \* bound: restarts of the process

Tokens == 1 .. MaxTokens

Clients == Requests \cup {Timer}

ASSUME AuthAssumption ==
  /\ NULL \notin Tokens /\ NULL \notin Clients /\ Timer \notin Requests
  /\ MaxCalls \in Nat /\ MaxAges \in Nat /\ MaxOthers \in Nat
  /\ MaxFaults \in Nat /\ MaxCrashes \in Nat
  /\ MaxTokens \in Nat /\ MaxTokens >= 2 * MaxCalls + MaxAges + MaxOthers

VARIABLES
  latest,    \* server: the newest token, the only one it accepts
  age,       \* per token: "unissued", "fresh", "near" (60 s left), "dead"
  mem,       \* TossAuth._token
  cache,     \* the token in ~/toss/cache/token.json
  queue,     \* asyncio.Lock: who holds it (the head) and who waits, with
             \* the operation each is in
  phase,     \* the holder's progress: "start", "asking", "answered"
  answer,    \* the token in the answer of the token endpoint
  timer,     \* _refresh_task: "off", "armed" (asleep) or "queued"
  timerTok,  \* the token it was scheduled for
  rpc,       \* per request: "idle", "waiting", "sent", "refused", "denied"
  tok,       \* the token in its Authorization header
  attempt,   \* _do_request's loop counter
  since,     \* the newest token when the request began
  calls, ages, others, faults, crashes

server   == <<latest, age>>
store    == <<mem, cache>>
lock     == <<queue, phase, answer>>
refresh  == <<timer, timerTok>>
requests == <<rpc, tok, attempt, since>>
budget   == <<calls, ages, others, faults, crashes>>
vars     == <<server, store, lock, refresh, requests, budget>>

Init ==
  /\ latest = 0 /\ age = [t \in Tokens |-> "unissued"]
  /\ mem = NULL /\ cache = NULL
  /\ queue = <<>> /\ phase = "start" /\ answer = NULL
  /\ timer = "off" /\ timerTok = NULL
  /\ rpc = [r \in Requests |-> "idle"] /\ tok = [r \in Requests |-> NULL]
  /\ attempt = [r \in Requests |-> 0] /\ since = [r \in Requests |-> 0]
  /\ calls = 0 /\ ages = 0 /\ others = 0 /\ faults = 0 /\ crashes = 0

IsValid(t) == t # NULL /\ age[t] = "fresh"
Accepts(t) == t = latest /\ age[t] # "dead"
Active(r) == rpc[r] \notin {"idle", "denied"}

Holds(op) == queue # <<>> /\ Head(queue).op = op
Holder == Head(queue).who
Fault == faults < MaxFaults /\ faults' = faults + 1 /\ UNCHANGED <<calls, ages, others, crashes>>

-----------------------------------------------------------------------------
(* The world                                                               *)

Issue ==
  /\ latest < MaxTokens
  /\ latest' = latest + 1
  /\ age' = [age EXCEPT ![latest + 1] = "fresh"]

(* Time passes.  Older tokens grow old first.  A call lasts seconds and a  *)
(* token an hour: no token issued during a call grows old in it, and none  *)
(* that it carries dies under way (60 s of margin, a timeout of 10 s).     *)
Age(t) ==
  /\ ages < MaxAges \/ age[t] = "near"
  /\ \/ /\ age[t] = "fresh" /\ \A u \in Tokens : u < t => age[u] # "fresh"
        /\ \A r \in Requests : Active(r) => t <= since[r]
        /\ age' = [age EXCEPT ![t] = "near"] /\ ages' = ages + 1
     \/ /\ age[t] = "near" /\ \A u \in Tokens : u < t => age[u] = "dead"
        /\ \A r \in Requests : Active(r) => tok[r] # t
        /\ age' = [age EXCEPT ![t] = "dead"] /\ UNCHANGED ages
  /\ UNCHANGED <<latest, store, lock, refresh, requests, calls, others, faults, crashes>>

(* Another instance of the program with the same credentials and the same  *)
(* cache file issues a token for itself.                                   *)
OtherInstance ==
  /\ others < MaxOthers /\ others' = others + 1
  /\ Issue
  /\ cache' \in {cache, latest'}
  /\ UNCHANGED <<mem, lock, refresh, requests, calls, ages, faults, crashes>>

-----------------------------------------------------------------------------
(* The lock.  A waiter joins at the end; whoever is done leaves the head.  *)

Enter(who, op) == Append(queue, [who |-> who, op |-> op])

(* Mutant: a refresh task that waits for the lock is not cancelled.        *)
Schedule_KeepsWaiter(t) ==
  /\ queue' = Tail(queue)
  /\ timer' = IF IsValid(t) THEN "armed" ELSE "off"
  /\ timerTok' = t

In(c, q) == \E i \in DOMAIN q : q[i].who = c

(* Whoever c is, it no longer waits.                                       *)
Without(c, q) ==
  IF In(c, q) THEN RemoveAt(q, CHOOSE i \in DOMAIN q : q[i].who = c) ELSE q

(* _schedule_proactive_refresh(t), called by the holder as it leaves: a    *)
(* task asleep or waiting for the lock is cancelled, and a new one sleeps  *)
(* until t has 60 s left.                                                  *)
Schedule(t) ==
  /\ queue' = Without(Timer, Tail(queue))
  /\ timer' = IF IsValid(t) THEN "armed" ELSE "off"
  /\ timerTok' = t

Send(r, t) ==
  /\ rpc' = [rpc EXCEPT ![r] = "sent"]
  /\ tok' = [tok EXCEPT ![r] = t]

(* _request_market, _request_order: _get_headers calls get_access_token.   *)
Call(r) ==
  /\ ~Active(r) /\ calls < MaxCalls /\ calls' = calls + 1
  /\ queue' = Enter(r, "get")
  /\ rpc' = [rpc EXCEPT ![r] = "waiting"]
  /\ attempt' = [attempt EXCEPT ![r] = 0]
  /\ since' = [since EXCEPT ![r] = latest]
  /\ UNCHANGED <<server, store, phase, answer, refresh, tok, ages, others, faults, crashes>>

(* get_access_token finds a valid token in memory ...                      *)
GetFromMemory ==
  /\ Holds("get") /\ phase = "start" /\ IsValid(mem)
  /\ Send(Holder, mem)
  /\ queue' = Tail(queue)
  /\ UNCHANGED <<server, store, phase, answer, refresh, attempt, since, budget>>

(* ... or in the cache file ...                                            *)
GetFromCache ==
  /\ Holds("get") /\ phase = "start" /\ ~IsValid(mem) /\ IsValid(cache)
  /\ mem' = cache
  /\ Schedule(cache)
  /\ Send(Holder, cache)
  /\ UNCHANGED <<server, cache, phase, answer, attempt, since, budget>>

(* ... or asks for a new one.                                              *)
GetIssue ==
  /\ Holds("get") /\ phase = "start" /\ ~IsValid(mem) /\ ~IsValid(cache)
  /\ phase' = "asking"
  /\ UNCHANGED <<server, store, queue, answer, refresh, requests, budget>>

(* refresh_on_401 drops the token (deleting the file may fail) and asks    *)
(* for a new one, whatever token is in memory by now.                      *)
RefreshOn401 ==
  /\ Holds("on401") /\ phase = "start"
  /\ mem' = NULL
  /\ \/ cache' = NULL /\ UNCHANGED budget
     \/ Fault /\ UNCHANGED cache
  /\ phase' = "asking"
  /\ UNCHANGED <<server, queue, answer, refresh, requests>>

(* The task wakes up when its token has 60 s left and waits for the lock.  *)
TimerFires ==
  /\ timer = "armed" /\ ~IsValid(timerTok)
  /\ timer' = "queued"
  /\ queue' = Enter(Timer, "renew")
  /\ UNCHANGED <<server, store, phase, answer, timerTok, requests, budget>>

Renew ==
  /\ Holds("renew") /\ phase = "start"
  /\ phase' = "asking"
  /\ UNCHANGED <<server, store, queue, answer, refresh, requests, budget>>

(* POST /oauth2/token reaches the server.                                  *)
TokenIssued ==
  /\ phase = "asking"
  /\ Issue
  /\ answer' = latest' /\ phase' = "answered"
  /\ UNCHANGED <<store, queue, refresh, requests, budget>>

(* Mutant: the new token is not written to the cache file.                 *)
SaveCache_Skipped(t) == UNCHANGED <<cache, budget>>

(* _save_cache may fail, and leave the old file or a broken one.           *)
SaveCache(t) ==
  \/ cache' = t /\ UNCHANGED budget
  \/ Fault /\ cache' \in {cache, NULL}

(* Mutant: the retry goes out with the header of the first attempt.        *)
TokenStored_OldHeader ==
  /\ phase = "answered"
  /\ phase' = "start" /\ answer' = NULL
  /\ mem' = answer /\ SaveCache(answer)
  /\ IF Holds("on401") THEN queue' = Tail(queue) /\ UNCHANGED refresh ELSE Schedule(answer)
  /\ IF Holder = Timer THEN UNCHANGED <<rpc, tok>>
     ELSE Send(Holder, IF Holds("on401") THEN tok[Holder] ELSE answer)
  /\ UNCHANGED <<server, attempt, since>>

(* The answer arrives: the token goes to memory and to the cache, and the  *)
(* request is sent (again) with it.  get_access_token and the task         *)
(* schedule the next refresh, refresh_on_401 does not.                     *)
TokenStored ==
  /\ phase = "answered"
  /\ phase' = "start" /\ answer' = NULL
  /\ mem' = answer /\ SaveCache(answer)
  /\ IF Holds("on401") THEN queue' = Tail(queue) /\ UNCHANGED refresh ELSE Schedule(answer)
  /\ IF Holder = Timer THEN UNCHANGED <<rpc, tok>> ELSE Send(Holder, answer)
  /\ UNCHANGED <<server, attempt, since>>

(* Mutant: an error leaves the lock locked.                                *)
IssueFailed_KeepsLock ==
  /\ phase \in {"asking", "answered"} /\ Fault
  /\ phase' = "failed"
  /\ UNCHANGED <<server, store, queue, answer, refresh, requests>>

(* The token endpoint fails, or its answer is lost: the request raises,    *)
(* the task ends; "async with" frees the lock.                             *)
IssueFailed ==
  /\ phase \in {"asking", "answered"} /\ Fault
  /\ phase' = "start" /\ answer' = NULL
  /\ queue' = Tail(queue)
  /\ IF Holder = Timer
     THEN timer' = "off" /\ UNCHANGED <<timerTok, requests>>
     ELSE rpc' = [rpc EXCEPT ![Holder] = "idle"] /\ UNCHANGED <<tok, attempt, since, refresh>>
  /\ UNCHANGED <<server, store>>

LockStep ==
  \/ GetFromMemory \/ GetFromCache \/ GetIssue \/ RefreshOn401 \/ Renew
  \/ TokenIssued \/ TokenStored \/ IssueFailed

(* The server answers.  After the first 401 the request joins the queue    *)
(* for a new token; after the second it raises "인증 실패" (denied).  Any  *)
(* other failure goes to the caller.                                       *)
Serve(r) ==
  /\ rpc[r] = "sent"
  /\ \/ /\ Accepts(tok[r]) /\ rpc' = [rpc EXCEPT ![r] = "idle"]
        /\ UNCHANGED <<queue, attempt, budget>>
     \/ /\ ~Accepts(tok[r]) /\ attempt[r] = 0
        /\ rpc' = [rpc EXCEPT ![r] = "refused"] /\ queue' = Enter(r, "on401")
        /\ attempt' = [attempt EXCEPT ![r] = 1]
        /\ UNCHANGED budget
     \/ /\ ~Accepts(tok[r]) /\ attempt[r] = 1
        /\ rpc' = [rpc EXCEPT ![r] = "denied"]
        /\ UNCHANGED <<queue, attempt, budget>>
     \/ Fault /\ rpc' = [rpc EXCEPT ![r] = "idle"] /\ UNCHANGED <<queue, attempt>>
  /\ UNCHANGED <<server, store, phase, answer, refresh, tok, since>>

(* A new process finds the cache file and the server's token.              *)
Restart ==
  /\ crashes < MaxCrashes /\ crashes' = crashes + 1
  /\ mem' = NULL
  /\ queue' = <<>> /\ phase' = "start" /\ answer' = NULL
  /\ timer' = "off" /\ timerTok' = NULL
  /\ rpc' = [r \in Requests |-> "idle"]
  /\ UNCHANGED <<server, cache, tok, attempt, since, calls, ages, others, faults>>

Next ==
  \/ \E t \in Tokens : Age(t)
  \/ OtherInstance
  \/ \E r \in Requests : Call(r) \/ Serve(r)
  \/ TimerFires
  \/ LockStep
  \/ Restart

(* The event loop runs the lock's holder and the task whose sleep is over, *)
(* and the server answers each request; nobody has to call and time need   *)
(* not pass.                                                               *)
Fairness ==
  /\ WF_vars(LockStep)
  /\ WF_vars(TimerFires)
  /\ \A r \in Requests : WF_vars(Serve(r))

Spec == Init /\ [][Next]_vars
FairSpec == Spec /\ Fairness

-----------------------------------------------------------------------------
(* Properties                                                              *)

Maybe(S) == S \cup {NULL}
Jobs == [who : Clients, op : {"get", "on401", "renew"}]

Once(q) == \A i, j \in DOMAIN q : q[i].who = q[j].who => i = j

(* Every variable has its type, and the queue of the lock is sound:        *)
(* whoever is in it is there once, the refresh task only while it is       *)
(* "queued" - a task cancelled while it waits does not come back to        *)
(* invalidate the token its canceller just stored (auth.py).               *)
TypeOK ==
  /\ latest \in 0 .. MaxTokens
  /\ age \in [Tokens -> {"unissued", "fresh", "near", "dead"}]
  /\ mem \in Maybe(Tokens) /\ cache \in Maybe(Tokens) /\ answer \in Maybe(Tokens)
  /\ queue \in Seq(Jobs)
  /\ phase \in {"start", "asking", "answered"}
  /\ timer \in {"off", "armed", "queued"} /\ timerTok \in Maybe(Tokens)
  /\ rpc \in [Requests -> {"idle", "waiting", "sent", "refused", "denied"}]
  /\ tok \in [Requests -> Maybe(Tokens)]
  /\ attempt \in [Requests -> {0, 1}] /\ since \in [Requests -> 0 .. MaxTokens]
  /\ calls \in 0 .. MaxCalls /\ ages \in 0 .. MaxAges /\ others \in 0 .. MaxOthers
  /\ faults \in 0 .. MaxFaults /\ crashes \in 0 .. MaxCrashes
  /\ Once(queue)
  /\ In(Timer, queue) <=> timer = "queued"
  /\ \A r \in Requests : rpc[r] \in {"waiting", "refused"} <=> In(r, queue)

(* One valid token (auth.py): while no call is under way, memory and cache *)
(* hold the very token the server accepts, unless an answer was lost, the  *)
(* disk failed, the process was restarted or another instance interfered.  *)
OneValidToken ==
  (queue = <<>> /\ mem # NULL /\ faults + crashes + others = 0) => mem = latest /\ cache = latest

(* A request fails with 401 for good only when, besides the token it got   *)
(* for its own 401, another one was issued while it was under way (by      *)
(* another request, the refresh task or another instance): auth.py's "a    *)
(* 401 is answered by a new token at once" is true of a request alone, but *)
(* not of two that overlap.                                                *)
DeniedOnlyWhenOvertaken ==
  \A r \in Requests : rpc[r] = "denied" => latest >= since[r] + 2

(* What makes the two above inductive.  A job in the queue is the one its  *)
(* request is in.                                                          *)
Fits(job) ==
  \/ job.who = Timer /\ job.op = "renew"
  \/ /\ job.who \in Requests /\ job.op = "get"
     /\ rpc[job.who] = "waiting" /\ attempt[job.who] = 0
  \/ /\ job.who \in Requests /\ job.op = "on401"
     /\ rpc[job.who] = "refused" /\ attempt[job.who] = 1

QueueInv ==
  /\ \A i \in DOMAIN queue : Fits(queue[i])
  /\ phase # "start" => queue # <<>>

(* Tokens of a call are new, and the second attempt has one of them.       *)
TokenInv ==
  /\ \A t \in Tokens : age[t] = "unissued" <=> t > latest
  /\ \A r \in Requests : since[r] <= latest
  /\ \A r \in Requests, t \in Tokens :
       Active(r) /\ since[r] < t /\ t <= latest => age[t] = "fresh"
  /\ phase = "answered" =>
       /\ answer \in 1 .. latest
       /\ Holder \in Requests => answer > since[Holder]
  /\ \A r \in Requests :
       rpc[r] = "sent" /\ attempt[r] = 1 => tok[r] \in since[r] + 1 .. latest

IInv == TypeOK /\ QueueInv /\ TokenInv /\ DeniedOnlyWhenOvertaken

(* What makes OneValidToken inductive: between two holders of the lock     *)
(* memory, cache and server agree, or there has been no token yet.         *)
Undisturbed == faults = 0 /\ crashes = 0 /\ others = 0

AgreeInv ==
  Undisturbed =>
    /\ phase = "start" => mem = cache /\ mem = IF latest = 0 THEN NULL ELSE latest
    /\ phase = "answered" => answer = latest

(* Every request comes to an end.                                          *)
RequestsEnd == \A r \in Requests : Active(r) ~> ~Active(r)

=============================================================================
