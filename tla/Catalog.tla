------------------------------ MODULE Catalog ------------------------------
(***************************************************************************)
(* The catalogue of database types (catalog.go, catalog_spec.go): profiles *)
(* built in and registered at run time, the read-write lock that guards    *)
(* the table, and the configurations built from it.  URLs, hosts and DSNs  *)
(* are sequences of tokens, "open" and "close" the braces of a placeholder *)
(* among them; names are strings.                                          *)
(***************************************************************************)
EXTENDS Naturals, Sequences, SequencesExt

CONSTANTS
    Goroutines,
    Plans,        \* what they may be about to do: functions to operations
    Types,        \* bound: the built-in types of the instance
    Trimmed,      \* what TrimSpace makes of the names it changes
    Lowered,      \* what ToLower makes of them
    Matching,     \* glob -> files whose name matches, numbered in sorted order
    Folder,       \* directory -> the files in it
    NoProfile, NoAnswer

VARIABLES
    plan,         \* the operation of each goroutine
    profiles,     \* the table: type -> profile
    writer,       \* who holds specMu for writing, if any
    readers,      \* who holds it for reading
    pc,           \* start, validate, lock, copy, list, use, done
    left,         \* the names a batch has yet to validate, then to copy
    built,        \* the profiles of the batch
    seen,         \* the types ProfileTypes has visited
    held,         \* the profile a look-up returned
    answer        \* what the operation returned

NoFile == <<>>               \* a file is <<directory, number>>
Failed == [error |-> TRUE]

lockVars  == <<writer, readers>>
batchVars == <<left, built>>
vars == <<plan, profiles, lockVars, pc, batchVars, seen, held, answer>>

-----------------------------------------------------------------------------
(* Seeded faults for the mutation runs *)

CanReadAnyTime      == TRUE
CanWriteOverReaders == writer = NoProfile
NormalKeepsCase(n)  == IF n \in DOMAIN Trimmed THEN Trimmed[n] ELSE n
AnyTemplateWithHost(tpl) ==
    \E i \in 1..(Len(tpl) - 2) : SubSeq(tpl, i, i + 2) = <<"open", "host", "close">>

\* Three replacements one after the other, each reading what the one before
\* put in.
ReplaceOneByOne(tpl, e) ==
    LET all(s, f) ==
            LET hit(i) == i >= 1 /\ i + 2 <= Len(s) /\ SubSeq(s, i, i + 2) = <<"open", f, "close">>
            IN  FlattenSeq([i \in DOMAIN s |->
                    IF hit(i) THEN e[f] ELSE IF hit(i - 1) \/ hit(i - 2) THEN <<>> ELSE <<s[i]>>])
    IN  all(all(all(tpl, "host"), "port"), "database")

-----------------------------------------------------------------------------
(* Names and the built-in profiles *)

Trim(n)   == IF n \in DOMAIN Trimmed THEN Trimmed[n] ELSE n
Lower(n)  == IF n \in DOMAIN Lowered THEN Lowered[n] ELSE n
Normal(n) == Lower(Trim(n))

\* The assignment m[t] = v to a map.
Assign(t, v, m) == [u \in {t} \cup DOMAIN m |-> IF u = t THEN v ELSE m[u]]

Families == {"oracle", "mysql", "postgres"}
Fields   == {"host", "port", "database"}

TrimSpace(s) ==
    LET ink == {i \in DOMAIN s : s[i] # " "}
    IN  IF ink = {} THEN <<>> ELSE SubSeq(s, Min(ink), Max(ink))

HostPort(e) == IF e.port = <<>> THEN e.host ELSE e.host \o <<":">> \o e.port

\* kind: format (built in), template (registered) or dsn.
Profile(driver, family, globs, kind, url) ==
    [driver |-> driver, family |-> family, globs |-> globs, kind |-> kind, url |-> url]

Server   == <<"jdbc", "hostport">>
Database == <<"jdbc", "hostport", "/", "database">>
Options  == Database \o <<"?options">>

BuiltIn ==
    [t \in {"oceanbase-mysql", "oceanbase-oracle", "mysql", "postgres", "oracle", "goldendb-mysql",
            "goldendb-oracle", "dm", "kingbase", "opengaussdb", "timesten"} |->
        CASE t = "oceanbase-mysql"  -> Profile("oceanbase", "mysql", <<"oceanbase-client">>,
                                               "format", Options)
          [] t = "oceanbase-oracle" -> Profile("oceanbase", "oracle", <<"oceanbase-client">>,
                                               "format", Server \o <<"?options">>)
          [] t = "mysql"            -> Profile("mysql", "mysql", <<"mysql-connector">>, "format",
                                               Options)
          [] t = "postgres"         -> Profile("postgres", "postgres", <<"postgresql">>, "format",
                                               Options)
          [] t = "oracle"           -> Profile("oracle", "oracle", <<"ojdbc">>, "format", Database)
          [] t = "goldendb-mysql"   -> Profile("mysql", "mysql", <<"mysql-connector">>, "format",
                                               Options)
          [] t = "goldendb-oracle"  -> Profile("oracle", "oracle", <<"goldendb-jdbc", "ojdbc">>,
                                               "format", Database)
          [] t = "dm"               -> Profile("dm", "oracle", <<"DmJdbcDriver", "dm-jdbc">>,
                                               "format", Server)
          [] t = "kingbase"         -> Profile("kingbase", "postgres", <<"kingbase8">>, "format",
                                               Database)
          [] t = "opengaussdb"      -> Profile("opengauss", "postgres", <<"opengauss-jdbc">>,
                                               "format", Database)
          [] t = "timesten"         -> Profile("timesten", "oracle", <<"ttjdbc">>, "dsn", <<>>)]

\* TrimSpace and ToLower change nothing a second time, and the built-in types
\* are named as they leave them.
ASSUME NamesAssumption ==
    /\ \A n \in DOMAIN Trimmed \cup DOMAIN Lowered : Normal(Normal(n)) = Normal(n)
    /\ \A t \in Types : t \in DOMAIN BuiltIn /\ Normal(t) = t

\* "No writer" is not a goroutine; templates, endpoints and DSNs are texts.
ASSUME PlansAssumption ==
    /\ NoProfile \notin Goroutines
    /\ \A p \in Plans : \A g \in Goroutines :
        /\ p[g].op \in {"register", "list", "look", "build", "probe"}
        /\ p[g].op = "register" =>
              \A n \in DOMAIN p[g].specs : {p[g].specs[n].template, p[g].specs[n].globs} \subseteq Seq(STRING)
        /\ p[g].op = "build" =>
              LET e == p[g].endpoint IN {e.host, e.port, e.database, p[g].dsn} \subseteq Seq(STRING)

ASSUME FilesAssumption == \A x \in DOMAIN Matching : Matching[x] \subseteq Nat

-----------------------------------------------------------------------------
(* Specifications and URLs *)

Placeholder(tpl, i) ==
    /\ i + 2 <= Len(tpl)
    /\ tpl[i] = "open" /\ tpl[i + 1] \in Fields /\ tpl[i + 2] = "close"

\* The brace that closes the one at i, 0 without one.
Closing(tpl, i) ==
    LET closing == {j \in i..Len(tpl) : tpl[j] = "close"}
    IN  IF closing = {} THEN 0 ELSE Min(closing)

\* The loop of validateURLTemplate, from each position on.
Scan(tpl) ==
    LET ok[i \in 1..(Len(tpl) + 1)] ==
            IF i > Len(tpl) THEN TRUE
            ELSE IF tpl[i] # "open" THEN ok[i + 1]
            ELSE LET end == Closing(tpl, i) IN
                 /\ end # 0
                 /\ SubSeq(tpl, i + 1, end - 1) \in {<<f>> : f \in Fields}
                 /\ ok[end + 1]
    IN  ok

validateURLTemplate(tpl) ==
    /\ \E i \in DOMAIN tpl : Placeholder(tpl, i) /\ tpl[i + 1] = "host"
    /\ Scan(tpl)[1]

\* strings.Replacer: from left to right, what it has put in is not read again.
Replace(tpl, e) ==
    LET out[i \in 1..(Len(tpl) + 1)] ==
            IF i > Len(tpl) THEN <<>>
            ELSE IF Placeholder(tpl, i) THEN e[tpl[i + 1]] \o out[i + 3]
            ELSE <<tpl[i]>> \o out[i + 1]
    IN  out[1]

ValidSpec(name, s) ==
    /\ Normal(name) # ""
    /\ Normal(s.family) \in Families
    /\ Trim(s.driver) # ""
    /\ s.globs # <<>>
    /\ \A i \in DOMAIN s.globs : Trim(s.globs[i]) # ""
    /\ s.dsnRaw \/ validateURLTemplate(s.template)

Compiled(s) ==
    Profile(Trim(s.driver), Normal(s.family), s.globs,
            IF s.dsnRaw THEN "dsn" ELSE "template", IF s.dsnRaw THEN <<>> ELSE s.template)

BuildURL(p, e) ==
    IF p.kind = "format"
    THEN FlattenSeq([i \in DOMAIN p.url |->
            CASE p.url[i] = "hostport" -> HostPort(e)
              [] p.url[i] = "database" -> e.database
              [] OTHER                 -> <<p.url[i]>>])
    ELSE IF TrimSpace(e.host) = <<>> THEN <<>> ELSE Replace(p.url, e)

-----------------------------------------------------------------------------
(* Jars and configurations *)

JarSearchDirs(configured) == IF configured = "" THEN <<".">> ELSE <<configured, ".">>

\* What filepath.Glob finds in a directory: nothing in one that is not there.
Files(dir, glob) ==
    IF dir \in DOMAIN Folder /\ glob \in DOMAIN Matching THEN Folder[dir] \cap Matching[glob] ELSE {}

\* The first file in the first directory that has one.
findFile(dirs, glob) ==
    LET hits == {d \in DOMAIN dirs : Files(dirs[d], glob) # {}}
    IN  IF hits = {} THEN NoFile ELSE <<dirs[Min(hits)], Min(Files(dirs[Min(hits)], glob))>>

ResolveDriverJars(dirs, globs) ==
    LET hits == {i \in DOMAIN globs : findFile(dirs, globs[i]) # NoFile}
    IN  IF hits = {} THEN NoFile ELSE findFile(dirs, globs[Min(hits)])

Exists(file) == file[1] \in DOMAIN Folder /\ file[2] \in Folder[file[1]]

ResolveAgentJar(dirs, configured) ==
    IF configured = NoFile THEN findFile(dirs, "owl-agent")
    ELSE IF Exists(configured) THEN configured ELSE NoFile

\* BuildConfig once it has the profile; the first check that fails decides.
BuildConfig(p, call) ==
    LET dirs == JarSearchDirs(call.jarsDir)
        url  == IF p.kind = "dsn" THEN TrimSpace(call.dsn) ELSE BuildURL(p, call.endpoint)
        jar  == ResolveDriverJars(dirs, p.globs)
        own  == ResolveAgentJar(dirs, call.agentJar)
    IN  IF \/ p.kind # "dsn" /\ call.endpoint.host = <<>>
           \/ url = <<>> \/ NoFile \in {jar, own}
        THEN Failed
        ELSE [driver |-> p.driver, family |-> p.family, url |-> url,
              user |-> IF p.kind = "dsn" THEN "" ELSE call.endpoint.user,
              classpath |-> <<jar>>, agentJar |-> own]

FindProfileJars(p, call) == ResolveDriverJars(call.dirs, p.globs)

-----------------------------------------------------------------------------
(* specMu.  A writer that waits keeps new readers out in sync.RWMutex; no   *)
(* operation takes the lock twice, so that only delays them.                *)

CanRead  == writer = NoProfile
CanWrite == writer = NoProfile /\ readers = {}

Answer(g, a) ==
    /\ pc' = [pc EXCEPT ![g] = "done"]
    /\ answer' = [answer EXCEPT ![g] = a]

(* RegisterSpecs; RegisterSpec is a batch of one entry *)

BeginRegister(g) ==
    /\ pc[g] = "start"
    /\ plan[g].op = "register"
    /\ pc' = [pc EXCEPT ![g] = IF DOMAIN plan[g].specs = {} THEN "lock" ELSE "validate"]
    /\ left' = [left EXCEPT ![g] = DOMAIN plan[g].specs]
    /\ UNCHANGED <<plan, profiles, lockVars, built, seen, held, answer>>

\* The entries come in the order of a Go map: any.
Validate(g) ==
    /\ pc[g] = "validate"
    /\ \E n \in left[g] :
        LET s == plan[g].specs[n] IN
        IF ValidSpec(n, s)
        THEN /\ built' = [built EXCEPT ![g] = Assign(Normal(n), Compiled(s), @)]
             /\ left' = [left EXCEPT ![g] = @ \ {n}]
             /\ pc' = IF left'[g] = {} THEN [pc EXCEPT ![g] = "lock"] ELSE pc
             /\ UNCHANGED answer
        ELSE Answer(g, "error") /\ UNCHANGED batchVars
    /\ UNCHANGED <<plan, profiles, lockVars, seen, held>>

Lock(g) ==
    /\ pc[g] = "lock"
    /\ CanWrite
    /\ writer' = g
    /\ pc' = [pc EXCEPT ![g] = "copy"]
    /\ left' = [left EXCEPT ![g] = DOMAIN built[g]]
    /\ UNCHANGED <<plan, profiles, readers, built, seen, held, answer>>

CopyOne(g) ==
    /\ pc[g] = "copy"
    /\ \E t \in left[g] :
        /\ profiles' = Assign(t, built[g][t], profiles)
        /\ left' = [left EXCEPT ![g] = @ \ {t}]
    /\ UNCHANGED <<plan, lockVars, pc, built, seen, held, answer>>

Unlock(g) ==
    /\ pc[g] = "copy"
    /\ left[g] = {}
    /\ writer' = NoProfile
    /\ Answer(g, "ok")
    /\ UNCHANGED <<plan, profiles, readers, batchVars, seen, held>>

(* ProfileTypes *)

BeginList(g) ==
    /\ pc[g] = "start"
    /\ plan[g].op = "list"
    /\ CanRead
    /\ readers' = readers \cup {g}
    /\ pc' = [pc EXCEPT ![g] = "list"]
    /\ UNCHANGED <<plan, profiles, writer, batchVars, seen, held, answer>>

VisitOne(g) ==
    /\ pc[g] = "list"
    /\ \E t \in DOMAIN profiles \ seen[g] : seen' = [seen EXCEPT ![g] = @ \cup {t}]
    /\ UNCHANGED <<plan, profiles, lockVars, pc, batchVars, held, answer>>

EndList(g) ==
    /\ pc[g] = "list"
    /\ DOMAIN profiles \subseteq seen[g]
    /\ readers' = readers \ {g}
    /\ Answer(g, seen[g])
    /\ UNCHANGED <<plan, profiles, writer, batchVars, seen, held>>

(* ProfileFor, which HasProfile and ProfileFamily read a part of, and what  *)
(* is made of the profile without the lock                                  *)

Lookup(g) ==
    LET t == Normal(plan[g].type) IN
    /\ pc[g] = "start"
    /\ plan[g].op \in {"look", "build", "probe"}
    /\ CanRead
    /\ held' = [held EXCEPT ![g] = IF t \in DOMAIN profiles THEN profiles[t] ELSE NoProfile]
    /\ pc' = [pc EXCEPT ![g] = "use"]
    /\ UNCHANGED <<plan, profiles, lockVars, batchVars, seen, answer>>

Use(g) ==
    /\ pc[g] = "use"
    /\ Answer(g, IF held[g] = NoProfile THEN Failed
                 ELSE CASE plan[g].op = "look"  -> held[g]
                        [] plan[g].op = "build" -> BuildConfig(held[g], plan[g])
                        [] plan[g].op = "probe" -> FindProfileJars(held[g], plan[g]))
    /\ UNCHANGED <<plan, profiles, lockVars, batchVars, seen, held>>

-----------------------------------------------------------------------------

Init ==
    /\ plan \in Plans
    /\ profiles = [t \in Types |-> BuiltIn[t]]
    /\ writer = NoProfile
    /\ readers = {}
    /\ pc = [g \in Goroutines |-> "start"]
    /\ left = [g \in Goroutines |-> {}]
    /\ built = [g \in Goroutines |-> <<>>]
    /\ seen = [g \in Goroutines |-> {}]
    /\ held = [g \in Goroutines |-> NoAnswer]
    /\ answer = [g \in Goroutines |-> NoAnswer]

Register(g) == BeginRegister(g) \/ Validate(g) \/ Lock(g) \/ CopyOne(g) \/ Unlock(g)
List(g)     == BeginList(g) \/ VisitOne(g) \/ EndList(g)
Read(g)     == Lookup(g) \/ Use(g)
Finished    == (\A g \in Goroutines : pc[g] = "done") /\ UNCHANGED vars

Next == (\E g \in Goroutines : Register(g) \/ List(g) \/ Read(g)) \/ Finished

Spec == Init /\ [][Next]_vars

-----------------------------------------------------------------------------
(* Properties *)

\* The state stays within its types; every type is known under its normalised
\* name only (catalog_spec.go:49), with one of the three families.
TypeOK ==
    /\ \A t \in DOMAIN profiles :
        /\ Lower(Trim(t)) = t
        /\ profiles[t].family \in Families
        /\ profiles[t].kind \in {"format", "template", "dsn"}
    /\ writer \in Goroutines \cup {NoProfile}
    /\ readers \subseteq Goroutines
    /\ \A g \in Goroutines :
        /\ pc[g] \in {"start", "validate", "lock", "copy", "list", "use", "done"}
        /\ seen[g] \subseteq DOMAIN profiles
        /\ pc[g] = "copy" => left[g] \subseteq DOMAIN built[g]

\* What a template means, position by position: a brace only where a placeholder
\* starts, its name stands for the field, its braces for nothing.
WellFormed(tpl) ==
    /\ \A i \in DOMAIN tpl : tpl[i] = "open" => Placeholder(tpl, i)
    /\ \E i \in DOMAIN tpl : tpl[i] = "open" /\ tpl[i + 1] = "host"

Expanded(tpl, e) ==
    LET open(i) == i >= 1 /\ tpl[i] = "open"
    IN  FlattenSeq([i \in DOMAIN tpl |->
            CASE open(i - 1)            -> e[tpl[i]]
              [] open(i) \/ open(i - 2) -> <<>>
              [] OTHER                  -> <<tpl[i]>>])

Meaningful(n, s) ==
    /\ Normal(n) # "" /\ Trim(s.driver) # "" /\ s.globs # <<>>
    /\ \A i \in DOMAIN s.globs : Trim(s.globs[i]) # ""
    /\ Normal(s.family) \in Families
    /\ s.dsnRaw \/ WellFormed(s.template)

\* The tables a batch may add.
Outcomes(specs) ==
    LET types   == {Normal(n) : n \in DOMAIN specs}
        winners == {w \in [types -> DOMAIN specs] : \A t \in types : Normal(w[t]) = t}
    IN  IF \A n \in DOMAIN specs : Meaningful(n, specs[n])
        THEN {[t \in types |-> Compiled(specs[w[t]])] : w \in winners} ELSE {}

\* The table the writer is going to leave, and what each goroutine was told of it.
Table ==
    IF writer = NoProfile THEN profiles
    ELSE [t \in DOMAIN built[writer] \cup DOMAIN profiles |->
             IF t \in DOMAIN built[writer] THEN built[writer][t] ELSE profiles[t]]

Told ==
    [g \in Goroutines |->
        IF pc[g] = "copy" THEN "ok"
        ELSE IF plan[g].op \in {"register", "list"} THEN answer[g] ELSE held[g]]

\* A batch takes effect at once when its writer has the lock, and what a
\* goroutine is told of the table is the table at one moment of its call:
\* comments at catalog_spec.go:39 and 53.
Registry == INSTANCE ProfileRegistry WITH
    kind    <- [g \in Goroutines |->
                    IF plan[g].op \in {"register", "list"} THEN plan[g].op ELSE "look"],
    offered <- [g \in Goroutines |->
                    IF plan[g].op = "register" THEN Outcomes(plan[g].specs) ELSE {}],
    wanted  <- [g \in Goroutines |->
                    IF plan[g].op \in {"register", "list"} THEN "" ELSE Normal(plan[g].type)],
    table   <- Table,
    answer  <- Told
KeepsRegistry == Registry!RegistrySpec

\* The jars to choose from, by glob, directory and file; the one that path names
\* comes first.
Jars(globs, dirs) ==
    UNION {{<<i, d, f>> : f \in Files(dirs[d], globs[i])} : i \in DOMAIN globs, d \in DOMAIN dirs}

First(path, globs, dirs) ==
    \E jar \in Jars(globs, dirs) :
        /\ path = <<dirs[jar[2]], jar[3]>>
        /\ \A other \in Jars(globs, dirs) :
              \/ jar[1] < other[1]
              \/ jar[1] = other[1] /\ jar[2] < other[2]
              \/ jar[1] = other[1] /\ jar[2] = other[2] /\ jar[3] <= other[3]

Blank(s) == \A i \in DOMAIN s : s[i] = " "

\* A call is refused for want of a DSN, of a host (a template's may not be
\* blank), of a driver or of the agent.
Refused(p, call) ==
    LET dirs == JarSearchDirs(call.jarsDir) IN
    \/ p.kind = "dsn" /\ Blank(call.dsn)
    \/ p.kind = "format" /\ call.endpoint.host = <<>>
    \/ p.kind = "template" /\ Blank(call.endpoint.host)
    \/ Jars(p.globs, dirs) = {}
    \/ IF call.agentJar = NoFile THEN Jars(<<"owl-agent">>, dirs) = {} ELSE ~Exists(call.agentJar)

\* The configuration c is p's and nothing else's: driver, family, a URL in which
\* every placeholder of the template is replaced once and nothing else touched,
\* credentials in it or beside it, and the first jars there are, from the
\* configured directory if it has one.
Whole(c, p, call) ==
    LET dirs == JarSearchDirs(call.jarsDir) IN
    /\ c.driver = p.driver /\ c.family = p.family
    /\ c.url # <<>>
    /\ p.kind = "template" => c.url = Expanded(p.url, call.endpoint)
    /\ c.user = IF p.kind = "dsn" THEN "" ELSE call.endpoint.user
    /\ Len(c.classpath) = 1 /\ First(c.classpath[1], p.globs, dirs)
    /\ IF call.agentJar = NoFile THEN First(c.agentJar, <<"owl-agent">>, dirs)
       ELSE c.agentJar = call.agentJar

\* A call is refused exactly for want of something, and a configuration is whole,
\* also when its type is registered again meanwhile (BuildConfig, catalog.go:161).
ConfigWhole ==
    \A g \in {h \in Goroutines : pc[h] = "done" /\ plan[h].op = "build"} :
        IF held[g] = NoProfile \/ Refused(held[g], plan[g])
        THEN answer[g] = Failed
        ELSE answer[g] # Failed /\ Whole(answer[g], held[g], plan[g])
=============================================================================
