----------------------------- MODULE RulesEngine -----------------------------
(***************************************************************************)
(* The hot reload of gateway/rules_engine.py in one process, against an    *)
(* operator who changes config/rules.yaml in place or by replacing it.     *)
(* The process compares modification times before each request, and reads  *)
(* time and content of the file at different moments.                      *)
(*                                                                         *)
(* The processes of a gateway share the file and nothing else.             *)
(***************************************************************************)
CONSTANTS
    Ruleset,   \* well-formed rule files
    None       \* nothing being written

\* A truncated file parses to nothing; a broken one does not parse.
Content == Ruleset \cup {"empty", "broken", "absent"}

\* What a process works with: the rules of a file, none, or the built-in six
Rules == Ruleset \cup {"none", "defaults"}

ASSUME RulesAssumption ==
    /\ Ruleset \cap {"empty", "broken", "absent", "none", "defaults"} = {}
    /\ None \notin Content

VARIABLES
    content,   \* of the file
    newer,     \* whether its modification time is above _last_mtime
    writing,   \* what an operator is writing in place
    missed,    \* history: the last change brought no newer time, and was not read since
    pc,        \* "load", "read" (inside _load_rules), "idle"
    rules      \* self.rules

fileVars == <<content, newer, writing, missed>>
rulesVars == <<fileVars, pc, rules>>

RulesTypeOK ==
    /\ content \in Content
    /\ newer \in BOOLEAN /\ (content = "absent" => ~newer)
    /\ writing \in {None} \cup Ruleset \cup {"broken"}
    /\ missed \in BOOLEAN
    /\ pc \in {"load", "read", "idle"}
    /\ rules \in Rules

\* A new process: _last_mtime = 0, and the constructor loads.
RulesInit ==
    /\ content \in Ruleset \cup {"broken", "absent"}
    /\ newer = (content # "absent")
    /\ writing = None /\ missed = FALSE
    /\ pc = "load" /\ rules = "none"

-----------------------------------------------------------------------------
(* The operator.  A change made through the file gets the present time,    *)
(* which is the one it had when both fall into one tick of the file        *)
(* system's clock; a file put in place of it may bring an older one.       *)

Changes(new, times) ==
    /\ content' = new
    /\ newer' \in times
    /\ missed' = ~newer'
    /\ UNCHANGED <<pc, rules>>

Truncates(new) ==
    /\ writing = None /\ new \in Ruleset \cup {"broken"}
    /\ writing' = new
    /\ Changes("empty", {TRUE, newer})

Completes ==
    /\ writing # None
    /\ writing' = None
    /\ Changes(writing, {TRUE, newer})

Replaces(new) ==
    /\ writing = None /\ new \in Ruleset \cup {"broken"} /\ new # content
    /\ Changes(new, BOOLEAN)
    /\ UNCHANGED writing

Removes ==
    /\ writing = None /\ content # "absent"
    /\ Changes("absent", {FALSE})
    /\ UNCHANGED writing

Operator ==
    \/ \E new \in Content : Truncates(new) \/ Replaces(new)
    \/ Completes
    \/ Removes

-----------------------------------------------------------------------------
(* The process *)

\* yaml.safe_load(f) or {}, and the defaults when that or building the rules raises
Parsed(text) ==
    CASE text = "empty" -> "none"
      [] text \in {"broken", "absent"} -> "defaults"
      [] OTHER -> text

\* Fault: the built-in rules are never exchanged for those of a file.
NoticesUnlessDefaults ==
    /\ pc = "idle" /\ content # "absent" /\ newer /\ rules # "defaults"
    /\ pc' = "load"
    /\ UNCHANGED <<fileVars, rules>>

\* check_hot_reload at the start of evaluate, if it finds the file changed
NoticesChange ==
    /\ pc = "idle" /\ content # "absent" /\ newer
    /\ pc' = "load"
    /\ UNCHANGED <<fileVars, rules>>

\* Otherwise the request is evaluated with the rules at hand.
EvaluatesAsBefore ==
    /\ pc = "idle" /\ (content = "absent" \/ ~newer)
    /\ UNCHANGED rulesVars

\* _load_rules: the time is remembered first
Stamps ==
    /\ pc = "load"
    /\ IF content = "absent"
         THEN /\ pc' = "idle" /\ rules' = "defaults"
              /\ UNCHANGED newer
         ELSE /\ pc' = "read" /\ newer' = FALSE
              /\ UNCHANGED rules
    /\ UNCHANGED <<content, writing, missed>>

\* and then the file is read.
Reads ==
    /\ pc = "read"
    /\ rules' = Parsed(content)
    /\ missed' = FALSE
    /\ pc' = "idle"
    /\ UNCHANGED <<content, newer, writing>>

Evaluate == NoticesChange \/ EvaluatesAsBefore

\* Fault: the file is read first, and its time remembered then.
StampsLate ==
    \/ /\ pc = "load"
       /\ pc' = "read" /\ rules' = Parsed(content) /\ missed' = FALSE
       /\ UNCHANGED <<content, newer, writing>>
    \/ /\ pc = "read"
       /\ pc' = "idle" /\ newer' = FALSE
       /\ UNCHANGED <<content, writing, missed, rules>>

Load == Stamps \/ Reads

RulesRestart ==
    /\ newer' = (content # "absent")
    /\ missed' = FALSE
    /\ pc' = "load" /\ rules' = "none"
    /\ UNCHANGED <<content, writing>>

-----------------------------------------------------------------------------
\* A process that sees no newer file works with the rules of the present one: a
\* change that falls between its looks, between the time and the content it reads
\* or into its loading is not lost.  The exception is a change that left the
\* modification time where it was or set it back.
ChangesAreSeen ==
    pc = "idle" /\ content # "absent" /\ ~newer /\ ~missed => rules = Parsed(content)

=============================================================================
