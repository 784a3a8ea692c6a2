----------------------------- MODULE ObjectNames -----------------------------
(* Package archive's names: the object that a run makes of its task's path   *)
(* template, and the directory that the task's retention policy looks in.    *)
(*                                                                           *)
(* A path is a sequence of parts, without the separators; a part, like the   *)
(* name of a task, is a sequence of tokens.  The template of a path that     *)
(* ends with a separator ends with an empty part.                            *)
EXTENDS Naturals, SequencesExt, FiniteSetsExt

CONSTANTS
    Kept,         \* tokens of letters, digits and braces, which a name keeps
    Timestamp,    \* the token that each second is printed as ...
    Date,         \* ... and its date
    Key,          \* the key of each task, a sequence of tokens
    Braced        \* tokens with a brace in them

\* What cleanSegment takes off both ends; any other token becomes a "-".
Punctuation == {".", "-", "_"}

\* What stands in a template for the task.
Tokens == {"{task}", "{task_name}", "{task_id}"}

PlainExtension     == <<".", "zip">>
EncryptedExtension == <<".", "zip", ".", "aes", ".", "json">>

\* Seconds and dates are printed in digits and letters, seconds each in its own way.
\* A key has what keyPattern of package config allows.  Braces are kept.
ASSUME NamesAssumption ==
    /\ Kept \cap ({" "} \cup Punctuation) = {}
    /\ {"zip", "aes", "json", "default", "nowledge-mem"} \subseteq Kept
    /\ {".", "-", "zip", "aes", "json", "default", "nowledge-mem"} \subseteq STRING
    /\ DOMAIN Date = DOMAIN Timestamp
    /\ \A s \in DOMAIN Timestamp : {Timestamp[s], Date[s]} \subseteq (Kept \cap STRING) \ {"zip", "aes", "json", "default", "nowledge-mem"}
    /\ \A s, t \in DOMAIN Timestamp : Timestamp[s] # Date[t] /\ (Timestamp[s] = Timestamp[t] => s = t)
    /\ \A t \in DOMAIN Key :
        /\ Key[t] \in Seq(STRING) /\ Key[t] # <<>> /\ Key[t][1] \in Kept
        /\ ToSet(Key[t]) \subseteq (Kept \cup {"-", "_"}) \ (Tokens \cup {"{timestamp}", "{date}"})
    /\ Braced \subseteq Kept

TrimBoth(s, tokens) ==
    LET kept == {i \in DOMAIN s : s[i] \notin tokens}
    IN  IF kept = {} THEN <<>> ELSE SubSeq(s, Min(kept), Max(kept))

CleanSegment(raw) ==
    LET s == TrimBoth(raw, {" "})
    IN  IF s = <<>> THEN <<"default">>
        ELSE TrimBoth([i \in DOMAIN s |-> IF s[i] \in Kept \cup Punctuation THEN s[i] ELSE "-"], Punctuation)

\* cleanObjectPath of package archive: parts of which nothing is left go.
CleanPart(part) == IF TrimBoth(part, {" "}) = <<>> THEN <<>> ELSE CleanSegment(part)

CleanPath(parts) ==
    FlattenSeq([i \in DOMAIN parts |-> LET part == CleanPart(parts[i]) IN IF part = <<>> THEN <<>> ELSE <<part>>])

\* taskPathSegment
TaskSegment(key, name) ==
    IF TrimBoth(name, {" "}) # <<>> THEN CleanSegment(name) ELSE CleanSegment(Key[key])

EndsWith(parts, extension) == IsSuffix(extension, parts[Len(parts)])

Extended(parts, extension) == [parts EXCEPT ![Len(parts)] = @ \o extension]

\* Mutant: the date for the time.
FilledByDate(token, key, segment, second) ==
    CASE token \in {"{task}", "{task_name}"} -> segment
      [] token = "{task_id}"   -> CleanSegment(Key[key])
      [] token \in {"{timestamp}", "{date}"} -> <<Date[second]>>
      [] OTHER                 -> <<token>>

Filled(token, key, segment, second) ==
    CASE token \in {"{task}", "{task_name}"} -> segment
      [] token = "{task_id}"   -> CleanSegment(Key[key])
      [] token = "{timestamp}" -> <<Timestamp[second]>>
      [] token = "{date}"      -> <<Date[second]>>
      [] OTHER                 -> <<token>>

\* What is put for the tokens of a template, for all at once: a name with one of them
\* in it is left alone.
FilledPart(part, key, segment, second) ==
    FlattenSeq([j \in DOMAIN part |-> Filled(part[j], key, segment, second)])

Given(template, key, name, second) ==
    [i \in DOMAIN template |-> FilledPart(template[i], key, TaskSegment(key, name), second)]

\* ObjectName
ObjectName(template, key, name, second, extension) ==
    LET given  == Given(template, key, name, second)
        filled == IF Last(given) # <<>> THEN given
                  ELSE Extended(given, <<"nowledge-mem", "-">> \o TaskSegment(key, name) \o <<"-", Timestamp[second]>>)
    IN  CleanPath(IF EndsWith(filled, PlainExtension) \/ EndsWith(filled, EncryptedExtension)
                  THEN filled ELSE Extended(filled, extension))

\* The parts with a time in them.
Dynamic(parts) == {i \in DOMAIN parts : ToSet(parts[i]) \cap {"{timestamp}", "{date}"} # {}}

\* Mutant: the last time, and not the first, ends what does not change.
StableToLast(parts) == SubSeq(parts, 1, Max(Dynamic(parts) \cup {1}) - 1)

\* What is before the first of them, or before the last part.
Stable(parts) == SubSeq(parts, 1, Min(Dynamic(parts) \cup {Len(parts)}) - 1)

\* Something put for one token.
Swapped(part, token, tokens) ==
    FlattenSeq([j \in DOMAIN part |-> IF part[j] = token THEN tokens ELSE <<part[j]>>])

\* For one token after the other, also where the one before put it.
KeyedPart(part, segment, id) ==
    Swapped(Swapped(Swapped(part, "{task}", segment), "{task_name}", segment), "{task_id}", id)

Keyed(template, key, name) ==
    [i \in DOMAIN template |-> KeyedPart(template[i], TaskSegment(key, name), CleanSegment(Key[key]))]

\* RetentionDirectory; <<>> is the root.
RetentionDirectory(template, key, name) == CleanPath(Stable(Keyed(template, key, name)))

\* isBackupObject and what the listings call encrypted.
IsBackupObject(path)    == EndsWith(path, PlainExtension) \/ EndsWith(path, EncryptedExtension)
IsEncryptedObject(path) == EndsWith(path, EncryptedExtension)

\* importFilename: what an object is called when it is sent.
ImportFilename(path) ==
    LET name == Last(path)
    IN  IF IsEncryptedObject(path) THEN SubSeq(name, 1, Len(name) - 4)
        ELSE IF EndsWith(path, PlainExtension) THEN name ELSE name \o PlainExtension
=============================================================================
