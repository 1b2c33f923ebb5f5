------------------------------ MODULE RunStore ------------------------------
(***************************************************************************)
(* internal/runs with its handler in internal/api: the store of uploaded   *)
(* evidence.  A run's id is a prefix of its artifact's digest.  Insert in  *)
(* Postgres is an INSERT that does nothing on a conflict and, then, a read *)
(* of the row in the way.                                                  *)
(***************************************************************************)
EXTENDS Evidence

CONSTANTS
    Clients,        \* commands that upload: experiment, runs import
    Prefix(_),      \* the id of a digest
    MaxPosts        \* bound on the uploads of a client

VARIABLES
    runs,           \* aquila.runs: id -> artifact
    calls,          \* client -> its upload: [at, artifact, id, validated]
    posts,          \* client -> uploads so far
    told            \* client -> the answers it was told

storeVars == <<runs, calls, posts, told>>

Idle == [at |-> "idle"]

StoreInit ==
    /\ runs = [id \in {} |-> Idle]
    /\ calls = [c \in Clients |-> Idle]
    /\ posts = [c \in Clients |-> 0]
    /\ told = [c \in Clients |-> {}]

\* POST /v1/runs.
Post(c, a) ==
    /\ calls[c] = Idle /\ posts[c] < MaxPosts
    /\ calls' = [calls EXCEPT ![c] = [at |-> "sent", artifact |-> a]]
    /\ posts' = [posts EXCEPT ![c] = posts[c] + 1]
    /\ UNCHANGED <<runs, told>>

reply(c, status, validated) ==
    calls' = [calls EXCEPT ![c] = [at |-> "reply", artifact |-> calls[c].artifact,
                                   status |-> status, validated |-> validated]]

\* The end of handleCreateRun: validated without a match is never told.
answerStored(c, a, validated) ==
    IF validated /\ a.overall # "match" THEN reply(c, "failed", FALSE)
    ELSE reply(c, "stored", validated)

\* Decode, the schema check of handleCreateRun, prepareInsert.
accepts(a) == Check(a)

Refuse(c) ==
    /\ calls[c].at = "sent" /\ ~accepts(calls[c].artifact)
    /\ reply(c, "invalid", FALSE)
    /\ UNCHANGED <<runs, posts, told>>

\* insertSQL: a row, or nothing when the id is taken.
Insert(c) ==
    LET a == calls[c].artifact
        id == Prefix(a.digest)
    IN  /\ calls[c].at = "sent" /\ accepts(a)
        /\ IF id \in DOMAIN runs
           THEN /\ calls' = [calls EXCEPT ![c] = [at |-> "conflict", artifact |-> a]]
                /\ UNCHANGED runs
           ELSE /\ runs' = [i \in DOMAIN runs \cup {id} |-> IF i = id THEN a ELSE runs[i]]
                /\ answerStored(c, a, Decision(a))
        /\ UNCHANGED <<posts, told>>

\* Get, which re-derives the decision of what it reads.
Get(id) == [digest |-> runs[id].digest, validated |-> Decision(runs[id])]

\* Mutant: whatever is stored under the id counts as this artifact.
ExistingUnread(c) ==
    /\ calls[c].at = "conflict"
    /\ answerStored(c, calls[c].artifact, Get(Prefix(calls[c].artifact.digest)).validated)
    /\ UNCHANGED <<runs, posts, told>>

\* The rest of Insert after a conflict.
Existing(c) ==
    LET rec == Get(Prefix(calls[c].artifact.digest))
    IN  /\ calls[c].at = "conflict"
        /\ IF rec.digest # calls[c].artifact.digest THEN reply(c, "collision", FALSE)
           ELSE answerStored(c, calls[c].artifact, rec.validated)
        /\ UNCHANGED <<runs, posts, told>>

\* The store or the request's context fails between two statements.
StoreFails(c) ==
    /\ calls[c].at \in {"sent", "conflict"}
    /\ reply(c, "failed", FALSE)
    /\ UNCHANGED <<runs, posts, told>>

\* The client reads the answer.
Answer(c) ==
    /\ calls[c].at = "reply"
    /\ told' = [told EXCEPT ![c] = @ \cup {[artifact |-> calls[c].artifact, status |-> calls[c].status,
                                            validated |-> calls[c].validated]}]
    /\ calls' = [calls EXCEPT ![c] = Idle]
    /\ UNCHANGED <<runs, posts>>

\* The answer or the request is lost, or the control plane restarts under it:
\* the client is told nothing of its upload.
Lose(c) ==
    /\ calls[c] # Idle
    /\ calls' = [calls EXCEPT ![c] = Idle]
    /\ UNCHANGED <<runs, posts, told>>

StoreNext ==
    \E c \in Clients : \/ Refuse(c) \/ Insert(c) \/ Existing(c)
                       \/ StoreFails(c) \/ Answer(c) \/ Lose(c)

\* A client that was told its run is stored finds that run, whole and with
\* the decision it was told, under the run's id from then on, and only an
\* artifact whose claim the policy derives is ever stored; another artifact
\* with the same id is told the collision (Insert in runs/postgres.go,
\* handleCreateRun).
AnsweredIsStored ==
    \A c \in Clients : \A t \in told[c] :
        LET id == Prefix(t.artifact.digest)
            found == id \in DOMAIN runs
        IN  /\ t.status = "stored" => /\ found /\ runs[id] = t.artifact
                                      /\ t.validated = t.artifact.claimed
                                      /\ t.artifact.claimed => t.artifact.overall = "match"
            /\ t.status = "collision" => found /\ runs[id] # t.artifact
=============================================================================
