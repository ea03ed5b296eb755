--------------------------- MODULE MCStudySessions ---------------------------
(* The commands the model-checked clients issue.                            *)
EXTENDS StudySessions, TLC

CONSTANTS Profiles,  \* course profiles
          Texts,     \* contents of notes and of questions
          r1         \* a completed run with a grounded answer and a tutor message

R(op, key, what, run) ==
    [op |-> op, session |-> "s", key |-> key, what |-> what, run |-> run]

Course(op, profile) ==
    [op |-> op, session |-> None, key |-> None, what |-> profile, run |-> None]

\* The life of one session: a run may become an answer or a turn, a turn may reply
\* to a learner's turn or to none.
SessionRequests ==
    {Course("create", "f")}
    \cup {R(op, "x", None, None) : op \in Lifecycle \cup {"start"}}
    \cup {R("learner", "k", "hello", None),
          R("finalize", "l", "why", r1),
          R("assistant", "m", None, r1), R("assistant", "k", "k", r1)}

\* Competing creations, notes and questions that share their keys.
CompetingRequests ==
    {Course(op, p) : op \in {"create", "create_at"}, p \in Profiles}
    \cup {R(op, "x", None, None) : op \in {"start", "end"}}
    \cup {R(op, "k", t, None) : op \in {"note", "ask"}, t \in Texts}

AllRequests == SessionRequests \cup CompetingRequests

VARIABLE issued  \* the commands that the clients of this behaviour issue

MCvars == <<log, running, completed, client, issued>>

MCInit == Init /\ issued \in {SessionRequests, CompetingRequests}

MCNext ==
    /\ Next
    /\ \A c \in Clients : client'[c].req \in issued \cup {None}
    /\ UNCHANGED issued

MCSpec == MCInit /\ [][MCNext]_MCvars

Symmetry == Permutations(Clients) \cup Permutations(Profiles) \cup Permutations(Texts)
=============================================================================
