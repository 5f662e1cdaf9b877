---------------------------- MODULE ApiResource -----------------------------
(***************************************************************************)
(* useApiResource, the hook every panel reads the server with: an effect   *)
(* that fetches, and whose cleanup marks an answer still to come as one to *)
(* ignore.  The including module says when the hook has a URL and what the *)
(* server answers.                                                         *)
(***************************************************************************)
EXTENDS Naturals, FiniteSets

CONSTANTS
    Nothing,     \* no data yet
    Unserved,    \* no answer yet
    Failure,     \* an answer that is an error, or none within reach
    MaxRuns      \* bound: runs of the effect

ASSUME RunsAssumption == MaxRuns \in Nat

VARIABLES
    reloadToken,
    current,     \* the effect in force, 0 when the hook has no URL
    runs,        \* effects run so far
    fetches,     \* their fetches not settled: effect, key, cookie, answer
    data,
    failed,      \* error # null
    completed    \* completedKey

resourceVars == <<reloadToken, current, runs, fetches, data, failed, completed>>

ResourceInit ==
    /\ reloadToken = 0
    /\ current = 0 /\ runs = 0
    /\ fetches = {}
    /\ data = Nothing
    /\ failed = FALSE
    /\ completed = Nothing

\* The effect runs again, for the key of token, and so cleans up the last run.
Rerun(token, cookieSent) ==
    /\ runs < MaxRuns
    /\ runs' = runs + 1
    /\ current' = runs'
    /\ reloadToken' = token
    /\ fetches' = fetches \cup {[run |-> runs', key |-> token,
                                    sent |-> cookieSent, answer |-> Unserved]}
    /\ UNCHANGED <<data, failed, completed>>

\* The URL turns null: the cleanup runs, and nothing is fetched.
Detach ==
    /\ current' = 0
    /\ UNCHANGED <<reloadToken, runs, fetches, data, failed, completed>>

\* reload: by Retry, by the poll's interval, or when the tab becomes visible.
Reload(cookieSent) == current # 0 /\ Rerun(reloadToken + 1, cookieSent)

\* The server takes the request up.
Serve(f, answer) ==
    /\ f.answer = Unserved
    /\ fetches' = (fetches \ {f}) \cup {[f EXCEPT !.answer = answer]}
    /\ UNCHANGED <<reloadToken, current, runs, data, failed, completed>>

\* Mutant of Heeded: no ignore flag.
HeededAlways(f) == TRUE
Heeded(f) == f.run = current

\* Mutant of CompletedBy: a failure does not complete its key.
CompletedByData(f) == IF f.answer = Failure THEN completed ELSE f.key
CompletedBy(f) == f.key

\* The answer, or the failure, arrives.
Settle(f) ==
    /\ f.answer # Unserved
    /\ fetches' = fetches \ {f}
    /\ IF Heeded(f)
       THEN /\ data' = IF f.answer = Failure THEN data ELSE f.answer
            /\ failed' = (f.answer = Failure)
            /\ completed' = CompletedBy(f)
       ELSE UNCHANGED <<data, failed, completed>>
    /\ UNCHANGED <<reloadToken, current, runs>>

Refreshing == current # 0 /\ completed # reloadToken
Loading == Refreshing /\ data = Nothing
=============================================================================
