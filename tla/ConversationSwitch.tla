------------------------- MODULE ConversationSwitch -------------------------
(***************************************************************************)
(* The usage preference of one conversation (conversation-usage.ts) and the  *)
(* calls of its adapters (mcp.ts, session-mcp.ts, cli.ts) that sample it.    *)
(* The preference is a file that any adapter of the conversation replaces;   *)
(* nothing orders the writers, and a writer may die at any step.  A call     *)
(* samples the file before it is sent; a semantic action is sampled again by *)
(* the broker, and the result of a read before it is delivered.              *)
(***************************************************************************)
EXTENDS Naturals

CONSTANTS Unset,
          Setters,  \* requests to set the preference; as many may be made
          Calls     \* calls through the conversation's adapters

Modes == {"on", "off"}
SetSteps == {"idle", "asked", "open", "written", "renamed", "status", "answered", "failed", "dead"}
Kinds == {"read", "act", "other"}
Steps == {"idle", "start", "first", "second", "asked", "guarded", "dispatched", "result", "error",
          "sampled", "delivered", "reported", "refused"}

ASSUME SwitchAssumption == Unset \notin Steps

VARIABLES pref,   \* what the file of the conversation holds
          temp,   \* the temporary files, each by the request that names it
          set,    \* ConversationUsage.set, by request
          call,   \* invoke, by call
          since   \* history: where a call was when the off of now came into force

switchVars == <<pref, temp, set, call, since>>

SwitchTypeOK ==
    /\ pref \in Modes \cup {"absent", "bad"}
    /\ temp \in [Setters -> Modes \cup {"absent", "bad"}]
    /\ set \in [Setters -> [step : SetSteps, mode : Modes \cup {Unset}]]
    /\ call \in [Calls -> [kind : Kinds \cup {Unset}, step : Steps]]
    /\ since \in [Calls -> Steps \cup {Unset}]

----------------------------------------------------------------------------
Over == {"answered", "failed", "dead"}

\* status: no file means on; a file that does not parse is an error.
Status == IF pref = "absent" THEN "on" ELSE pref
\* assertEnabled.
Enabled == Status = "on"

\* The preference is off, and no request to turn it on is under way.
InForce == Status = "off" /\ \A s \in Setters : ~(set[s].mode = "on" /\ set[s].step \in {"asked", "open", "written"})
Notes == since' = [c \in Calls |-> IF ~InForce' THEN Unset
                                   ELSE IF since[c] = Unset THEN call[c].step ELSE since[c]]

----------------------------------------------------------------------------
(* ConversationUsage.set *)

SetGoes(s, step) == set' = [set EXCEPT ![s] = [step |-> step, mode |-> @.mode]]

Asks(s) ==
    /\ set[s].step = "idle"
    /\ \E mode \in Modes : set' = [set EXCEPT ![s] = [step |-> "asked", mode |-> mode]]
    /\ UNCHANGED <<pref, temp>>
\* writeFile creates the file and then fills it; its name is the request's own.
Opens(s) ==
    /\ set[s].step = "asked" /\ temp[s] = "absent" /\ temp' = [temp EXCEPT ![s] = "bad"]
    /\ SetGoes(s, "open") /\ UNCHANGED pref
Writes(s) ==
    /\ set[s].step = "open" /\ temp' = [temp EXCEPT ![s] = set[s].mode]
    /\ SetGoes(s, "written") /\ UNCHANGED pref
\* Mutant: the file is replaced as soon as its replacement exists.
RenamesEarly(s) ==
    /\ set[s].step \in {"open", "written"} /\ pref' = temp[s] /\ temp' = [temp EXCEPT ![s] = "absent"]
    /\ SetGoes(s, "renamed")
Renames(s) ==
    /\ set[s].step = "written" /\ pref' = temp[s] /\ temp' = [temp EXCEPT ![s] = "absent"]
    /\ SetGoes(s, "renamed")
\* finally: the temporary file is removed, should it still be there.
Removes(s) ==
    /\ set[s].step = "renamed" /\ temp' = [temp EXCEPT ![s] = "absent"]
    /\ SetGoes(s, "status") /\ UNCHANGED pref
\* A file that another request left is as good an answer; one that cannot be read is not.
Answers(s) ==
    /\ set[s].step = "status" /\ SetGoes(s, IF Status \in Modes THEN "answered" ELSE "failed")
    /\ UNCHANGED <<pref, temp>>
SetFails(s) ==
    /\ set[s].step \in {"asked", "open", "written"} /\ temp' = [temp EXCEPT ![s] = "absent"]
    /\ SetGoes(s, "failed") /\ UNCHANGED pref
SetterDies(s) ==
    /\ set[s].step \notin {"idle"} \cup Over /\ SetGoes(s, "dead") /\ UNCHANGED <<pref, temp>>

Set(s) == Asks(s) \/ Opens(s) \/ Writes(s) \/ Renames(s) \/ Removes(s) \/ Answers(s) \/ SetFails(s) \/ SetterDies(s)

----------------------------------------------------------------------------
(* invoke, callPatient and the broker's guard *)

CallGoes(c, step) == call' = [call EXCEPT ![c] = [kind |-> @.kind, step |-> step]]

Begins(c) ==
    /\ call[c].step = "idle"
    /\ \E kind \in Kinds : call' = [call EXCEPT ![c] = [kind |-> kind, step |-> "start"]]
    /\ since' = [since EXCEPT ![c] = IF InForce THEN "start" ELSE Unset]
\* Before anything, and again before the one attempt.
Samples(c) ==
    /\ call[c].step \in {"start", "first"}
    /\ CallGoes(c, IF ~Enabled THEN "refused" ELSE IF call[c].step = "start" THEN "first" ELSE "second")
    /\ UNCHANGED since
SendsCall(c) ==
    /\ call[c].step = "second" /\ CallGoes(c, "asked") /\ UNCHANGED since
\* Mutant: the adapters have looked.
GuardsNever(c) ==
    /\ call[c].step = "asked" /\ CallGoes(c, IF call[c].kind = "act" THEN "guarded" ELSE "dispatched") /\ UNCHANGED since
\* semanticUsage, for a caller that is a conversation.
Guards(c) ==
    /\ call[c].step = "asked"
    /\ CallGoes(c, IF call[c].kind # "act" THEN "dispatched" ELSE IF Enabled THEN "guarded" ELSE "error")
    /\ UNCHANGED since
Dispatches(c) ==
    /\ call[c].step = "guarded" /\ CallGoes(c, "dispatched") /\ UNCHANGED since
\* The result, or an error of the broker or of the transport.
Ends(c) ==
    /\ call[c].step = "dispatched" /\ \E end \in {"result", "error"} : CallGoes(c, end) /\ UNCHANGED since
\* The result of a read and what its error may carry are for an enabled conversation.
SamplesRead(c) ==
    /\ call[c].step \in {"result", "error"} /\ call[c].kind = "read"
    /\ CallGoes(c, IF ~Enabled THEN "refused" ELSE IF call[c].step = "result" THEN "sampled" ELSE "reported")
    /\ UNCHANGED since
Delivers(c) ==
    /\ call[c].step = "sampled" \/ (call[c].step \in {"result", "error"} /\ call[c].kind # "read")
    /\ CallGoes(c, IF call[c].step = "error" THEN "reported" ELSE "delivered") /\ UNCHANGED since

Call(c) ==
    \/ Begins(c) \/ Samples(c) \/ SendsCall(c) \/ Guards(c) \/ Dispatches(c) \/ Ends(c) \/ SamplesRead(c) \/ Delivers(c)

----------------------------------------------------------------------------
\* An earlier version may have left a file that does not parse.
SwitchInit ==
    /\ pref \in Modes \cup {"absent", "bad"} /\ temp = [s \in Setters |-> "absent"]
    /\ set = [s \in Setters |-> [step |-> "idle", mode |-> Unset]]
    /\ call = [c \in Calls |-> [kind |-> Unset, step |-> "idle"]]
    /\ since = [c \in Calls |-> IF InForce THEN "idle" ELSE Unset]

SwitchNext ==
    \/ \E s \in Setters : Set(s) /\ Notes /\ UNCHANGED call
    \/ \E c \in Calls : Call(c) /\ UNCHANGED <<pref, temp, set>>

SwitchSpec == SwitchInit /\ [][SwitchNext]_switchVars

----------------------------------------------------------------------------
\* Off blocks what comes after it: a call that had not looked for the last time is
\* not sent, a semantic action that the broker had not looked after is not
\* dispatched, and a read whose result had not been looked after is not delivered
\* (mcp.ts invoke, session.ts semanticUsage).
OffBlocks == \A c \in Calls :
    /\ since[c] \in {"start", "first"} => call[c].step \in {"start", "first", "refused"}
    /\ since[c] \in {"second", "asked"} /\ call[c].kind = "act" => call[c].step \notin {"guarded", "dispatched", "result", "delivered"}
    /\ since[c] \in {"second", "asked", "dispatched", "result", "error"} /\ call[c].kind = "read"
         => call[c].step \notin {"sampled", "delivered", "reported"}

\* No writer leaves a file that does not parse, wherever it dies; one that was
\* there is gone with the first that is replaced; and only the dead leave temporary
\* files behind (ConversationUsage.set).
SwitchWhole ==
    /\ SwitchTypeOK
    /\ pref = "bad" => \A s \in Setters : set[s].step \notin {"renamed", "status", "answered"}
    /\ \A s \in Setters : temp[s] # "absent" => set[s].step \in {"open", "written", "dead"}
=============================================================================
