------------------------------ MODULE MCTargets ------------------------------
(* Two tasks, a WebDAV and another target on one account, and templates of    *)
(* every kind.                                                               *)
EXTENDS Targets

CONSTANTS t1, t2, g1, g2, s1

Words  == {"mem", "daily", "weekly", "aes", "json", "zip", "default", "nowledge-mem"}
Braces  == {"{task}", "{task_name}", "{task_id}", "{timestamp}", "{date}"}
Letters == Words \cup {"id1", "id2", "T1", "T2", "T3", "D1", "D2"} \cup Braces
Seconds == <<"T1", "T2">>
Days    == <<"D1", "D1">>
Keys    == t1 :> <<"id1">> @@ t2 :> <<"id2", "-">>

TheTargets == g1 :> [store |-> s1, root |-> <<>>, webdav |-> TRUE, base |-> <<"daily">>, escapes |-> TRUE]
           @@ g2 :> [store |-> s1, root |-> <<<<"mem">>>>, webdav |-> FALSE, base |-> <<>>, escapes |-> FALSE]

Usual == <<<<"mem">>, <<"{task}">>, <<"{timestamp}">>>>

Cfg(name, template, keep, sealed) == [name |-> name, template |-> template, keep |-> keep, sealed |-> sealed]

\* ~ is a letter of another alphabet.
SomeCfgs == {
    Cfg(<<"daily">>, Usual, 1, FALSE),
    Cfg(<<"weekly", " ", "{task_name}", "~">>, Usual, 1, TRUE),
    Cfg(<<"~", "~">>, Usual, 1, FALSE),
    Cfg(<<"{timestamp}">>, <<<<"mem">>, <<"{task}">>, <<"{date}">>, <<"{timestamp}">>>>, 1, TRUE),
    Cfg(<<"mem">>, <<<<"mem">>, <<"mem">>, <<"{task_name}">>, <<>>>>, 1, FALSE),
    Cfg(<<>>, <<<<"mem">>, <<"{task_id}", "-", "{timestamp}">>>>, 1, TRUE),
    Cfg(<<"daily">>, <<<<"{task}", ".", "zip">>>>, 1, TRUE)}
=============================================================================
