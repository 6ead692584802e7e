------------------------------ MODULE MCGateway -----------------------------
EXTENDS Gateway

\* Sorting changes the order within and across the list of three records.
MCKey == <<2, 4, 1, 3>>

Inits(creds, hosts) ==
    [kind : {"init"}, cred : creds, vhosts : hosts, named : {FALSE}]
Searches(dbs, names, replace, piggy) ==
    [kind : {"search"}, db : dbs, named : names, replace : replace, piggy : piggy, syntax : {"xml"}]
Presents(starts, numbers, syntaxes) ==
    [kind : {"present"}, named : {FALSE}, start : starts, number : numbers, syntax : syntaxes]
Scans(dbs) == [kind : {"scan"}, db : dbs]
CloseRequest == [kind |-> "close"]

Chain(f, auth, retrieve, chunk, sort, faulty, asks, pkgs) ==
    [front |-> f, auth |-> auth, retrieve |-> retrieve, chunk |-> chunk, sort |-> sort,
     faulty |-> faulty, discard |-> faulty, asks |-> asks, pkgs |-> pkgs]

\* One client that is slow enough to need four packages, and clients that ask more
\* kinds of things in three; SRU clients.
MCConfs ==
    {Chain("z3950", "none", 3, 2, TRUE, FALSE,
           Inits({"good"}, {{}}) \cup Searches({"own"}, {FALSE}, {TRUE}, {0})
           \cup Presents({1}, {3, 4}, {"xml"}), 4),
     Chain("z3950", "users", 0, 0, FALSE, FALSE,
           Inits({"good", "bad"}, {{}})
           \cup Searches({"own", "other"}, {FALSE, TRUE}, {TRUE}, {0, 2})
           \cup Scans({"own", "other"}) \cup {CloseRequest}, 3),
     Chain("z3950", "targets", 0, 0, TRUE, TRUE,
           Inits({"good"}, {{"own", "other"}}) \cup Inits({"bad"}, {{"own"}})
           \cup Searches({"own"}, {FALSE}, {TRUE, FALSE}, {2})
           \cup Presents({0, 2}, {2}, {"xml"}) \cup Presents({1}, {0}, {"xml"}), 3),
     Chain("z3950", "targets", 0, 2, FALSE, TRUE,
           Inits({"good"}, {{}, {"own"}}) \cup Searches({"own"}, {FALSE}, {TRUE}, {0})
           \cup Presents({2}, {3, 4}, {"xml"}) \cup Presents({1}, {0}, {"grs"}), 3),
     Chain("sru", "users", 0, 2, TRUE, TRUE, {}, 2),
     Chain("sru", "none", 0, 0, TRUE, TRUE, {}, 1),
     Chain("sru", "none", 2, 0, FALSE, FALSE, {}, 3)}
MCHttpRequests == {[start |-> 0, max |-> 1], [start |-> 1, max |-> 4],
                   [start |-> 3, max |-> 3], [start |-> 2, max |-> 0]}
=============================================================================
