------------------------- MODULE MeasurementService -------------------------
(***************************************************************************)
(* What the controller promises the users of UserRequest: a request that   *)
(* finds every block taken is refused at once, any other has a block to    *)
(* itself until it is answered, and it is answered.                        *)
(***************************************************************************)
CONSTANTS Requests,   \* calls of UserRequest
          Pool,       \* the blocks
          NoBlock,    \* the request has no block
          NoCode      \* the request has no answer yet

VARIABLES block,      \* the block each request has
          answer      \* the response code each request got

serviceVars == <<block, answer>>

Taken == { block[r] : r \in Requests } \ {NoBlock}

ServiceInit ==
    /\ block = [r \in Requests |-> NoBlock]
    /\ answer = [r \in Requests |-> NoCode]

Fresh(r) == block[r] = NoBlock /\ answer[r] = NoCode

Accept(r) ==
    /\ Fresh(r)
    /\ \E b \in Pool \ Taken : block' = [block EXCEPT ![r] = b]
    /\ UNCHANGED answer

Refuse(r) ==
    /\ Fresh(r)
    /\ Pool \subseteq Taken
    /\ answer' = [answer EXCEPT ![r] = 500]
    /\ UNCHANGED block

Answer(r) ==
    /\ block[r] # NoBlock
    /\ block' = [block EXCEPT ![r] = NoBlock]
    /\ \E c \in {200, 400, 500} : answer' = [answer EXCEPT ![r] = c]

ServiceNext == \E r \in Requests : Accept(r) \/ Refuse(r) \/ Answer(r)

ServiceSafety == ServiceInit /\ [][ServiceNext]_serviceVars

\* An accepted request is answered sooner or later.
ServiceSpec == ServiceSafety /\ \A r \in Requests : WF_serviceVars(Answer(r))
=============================================================================
