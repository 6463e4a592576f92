------------------------------- MODULE AtomicMap -------------------------------
(***************************************************************************)
(* What ZHT promises its callers: a call takes effect at one moment between *)
(* its start and its return and returns the answer of that moment.  Only    *)
(* when a server was lost may keys be missing, and a call return without an *)
(* answer.                                                                 *)
(***************************************************************************)
CONSTANTS Thread, Key, Val, NoVal, Calls, NoCall

VARIABLES
    map,     \* map[k]: the value of a key, or NoVal
    call,    \* call[t]: the call of a thread, or NoCall
    answer,  \* answer[t]: None until the call took effect; Lost if it is lost
    ret,     \* ret[t]: what the last call returned
    faulty   \* was a server lost?

vars == <<map, call, answer, ret, faulty>>

Result == [status : {"ok", "missing", "failed", "junk"}, val : Val \union {NoVal}]
NoResult == [status |-> "failed", val |-> NoVal]
None   == [status |-> "none", val |-> NoVal]
Lost   == [status |-> "lost", val |-> NoVal]

\* What a call returns that got no answer.
Unanswered(op) ==
    IF op = "lookup" THEN {[status |-> "failed", val |-> NoVal]}
                     ELSE {[status |-> s, val |-> NoVal] : s \in {"ok", "junk"}}

AnswerTo(r) ==
    [status |-> IF r.op # "insert" /\ map[r.key] = NoVal THEN "missing" ELSE "ok",
     val    |-> IF r.op = "lookup" THEN map[r.key] ELSE NoVal]

Init ==
    /\ map = [k \in Key |-> NoVal]
    /\ call = [t \in Thread |-> NoCall]
    /\ answer = [t \in Thread |-> None]
    /\ ret = [t \in Thread |-> NoResult]
    /\ faulty = FALSE

Invoke(t) ==
    /\ call[t] = NoCall
    /\ \E r \in Calls : call' = [call EXCEPT ![t] = r]
    /\ ret' = [ret EXCEPT ![t] = NoResult]
    /\ UNCHANGED <<map, answer, faulty>>

TakeEffect(t) ==
    /\ call[t] # NoCall /\ answer[t] = None
    /\ LET r == call[t] IN
       /\ answer' = [answer EXCEPT ![t] = AnswerTo(r)]
       /\ map' = CASE r.op = "insert" -> [map EXCEPT ![r.key] = r.val]
                   [] r.op = "remove" -> [map EXCEPT ![r.key] = NoVal]
                   [] OTHER           -> map
    /\ UNCHANGED <<call, ret, faulty>>

Return(t) ==
    /\ call[t] # NoCall
    /\ \/ answer[t] \in Result /\ ret' = [ret EXCEPT ![t] = answer[t]]
       \/ /\ faulty /\ answer[t] \in {None, Lost}
          /\ \E r \in Unanswered(call[t].op) : ret' = [ret EXCEPT ![t] = r]
    /\ call' = [call EXCEPT ![t] = NoCall]
    /\ answer' = [answer EXCEPT ![t] = None]
    /\ UNCHANGED <<map, faulty>>

\* A server goes down, with its keys and answers.
Lose ==
    /\ faulty' = TRUE
    /\ \E ks \in SUBSET Key, ts \in SUBSET {t \in Thread : call[t] # NoCall} :
          /\ map' = [k \in Key |-> IF k \in ks THEN NoVal ELSE map[k]]
          /\ answer' = [t \in Thread |-> IF t \in ts THEN Lost ELSE answer[t]]
    /\ UNCHANGED <<call, ret>>

\* A call finds the server gone.
Miss(t) ==
    /\ faulty /\ call[t] # NoCall /\ answer[t] = None
    /\ answer' = [answer EXCEPT ![t] = Lost]
    /\ UNCHANGED <<map, call, ret, faulty>>

Next == Lose \/ \E t \in Thread : Invoke(t) \/ TakeEffect(t) \/ Return(t) \/ Miss(t)

Spec == Init /\ [][Next]_vars
================================================================================
