------------------------------- MODULE Setup -------------------------------
(***************************************************************************)
(* Getting a checkout ready to serve: the commands setup, gen --secrets    *)
(* and seed (src/cli) on the files .env and monitoring/prometheus.yml, the *)
(* generation of secrets (infra/secrets.rs), and what the server then      *)
(* reads.  Commands may be interrupted at any step, files are written in   *)
(* place, and the operator edits .env between commands.                    *)
(*                                                                         *)
(* A file is the sequence of its lines that name a variable.  A line is    *)
(* live when dotenvy reads it, and found when the generation of secrets    *)
(* takes it for a line of that name: NAME=text is both, `# NAME=text` is   *)
(* only found, and `export NAME=text` or `NAME = text` is only live.       *)
(* Every secret generated by a command is new, so it is named by the       *)
(* number of the command.                                                  *)
(***************************************************************************)
EXTENDS Configuration, SequencesExt

CONSTANTS Template,     \* .env.example
          EditLine,     \* the lines an operator may put into .env
          Prometheus,   \* what monitoring/prometheus.yml may be at first
          Shell,        \* the real environment variables, as sets of names and texts
          MaxCommands,  \* bound: commands in a behaviour
          MaxEdits      \* bound: edits by hand in a behaviour

Secrets == {"JWT_SECRET", "METRICS_TOKEN", "ADMIN_PASSWORD"}

Line(x, live, text) == [name |-> x, live |-> live, found |-> TRUE, text |-> text]

Exported(x, text) == [name |-> x, live |-> TRUE, found |-> FALSE, text |-> text]

\* A text that is empty, and one that is not but whose value is blank (quotes, spaces).
Empty == Text("blank", 0)

Hollow == Text("blank", 1)

\* prometheus.yml is not there, has no credentials line, or has one that was cut short and so
\* presents nothing; otherwise it is its token.
NoFile == Text("nofile", 0)

NoCredentials == Text("nocredentials", 0)

CutCredentials == Text("cutcredentials", 0)

NoToken == {NoFile, NoCredentials, CutCredentials}

TextType == [kind : Kind, n : Int]

VarName == Secrets \cup {l.name : l \in EditLine \cup {Template[i] : i \in DOMAIN Template}}

LineType == [name : VarName, live : BOOLEAN, found : BOOLEAN, text : TextType]

ASSUME ConstantsAssumption == /\ Template \in Seq(LineType) /\ EditLine \subseteq LineType
                              /\ MaxCommands \in Nat /\ MaxEdits \in Nat

\* .env.example sets every variable once, and leaves these empty.
ASSUME TemplateAssumption ==
    /\ \A i \in DOMAIN Template : Template[i].live /\ Template[i].found
    /\ \A i, j \in DOMAIN Template : Template[i].name = Template[j].name => i = j
    /\ \A x \in {"JWT_SECRET", "METRICS_TOKEN", "ADMIN_EMAIL"} :
          \E i \in DOMAIN Template : Template[i] = Line(x, TRUE, Empty)

VARIABLES exists,    \* .env is there
          file,      \* its lines
          prom,      \* the scrape token in prometheus.yml
          shell,     \* the real environment
          db,        \* what is in the database: the schema, own data, seed data
          cmd,       \* the command that runs, if any
          lines,     \* .env as the command has it in memory
          changed,   \* the secrets the command has generated
          commands,  \* how many commands have run
          edits,     \* how many times .env was edited by hand
          kept,      \* history: the values the command promised to leave alone
          ready,     \* history: what the last setup loaded before it said Ready
          rejected,  \* history: the last setup could not load its configuration
          torn,      \* history: a write of .env was interrupted half-way
          rotated    \* history: a rotation was interrupted once prometheus.yml had the new token

vars == <<exists, file, prom, shell, db, cmd, lines, changed, commands, edits,
          kept, ready, rejected, torn, rotated>>

Step == {"idle", "copy", "read", "sync", "write", "load", "reset", "seed"}

Idle == [step |-> "idle", op |-> "none", force |-> FALSE, seed |-> FALSE]

TypeOK == /\ exists \in BOOLEAN /\ torn \in BOOLEAN /\ rotated \in BOOLEAN
          /\ rejected \in BOOLEAN
          /\ file \in Seq(LineType) /\ lines \in Seq(LineType)
          /\ shell \in Shell
          /\ cmd \in [step : Step, op : {"none", "setup", "gen", "seed"},
                      force : BOOLEAN, seed : BOOLEAN]
          /\ changed \subseteq Secrets
          /\ db \subseteq {"schema", "own", "seed"}
          /\ commands \in 0..MaxCommands /\ edits \in 0..MaxEdits

Init == /\ exists = FALSE /\ file = <<>> /\ lines = <<>>
        /\ prom \in Prometheus
        /\ shell \in Shell
        /\ db = {}
        /\ cmd = Idle
        /\ changed = {}
        /\ commands = 0 /\ edits = 0
        /\ kept = << >> /\ ready = {}
        /\ rejected = FALSE /\ torn = FALSE /\ rotated = FALSE

-----------------------------------------------------------------------------
(* Reading .env *)

LinesOf(ls, x) == {i \in DOMAIN ls : ls[i].name = x}

Matching(ls, x) == {i \in LinesOf(ls, x) : ls[i].found}

Live(ls, x) == {i \in LinesOf(ls, x) : ls[i].live}

Names(ls) == {ls[i].name : i \in {j \in DOMAIN ls : ls[j].live}}

Least(S) == CHOOSE i \in S : \A j \in S : i <= j

Greatest(S) == CHOOSE i \in S : \A j \in S : i >= j

\* dotenvy::dotenv never replaces a variable that is set, so the first line of a name counts.
FirstWins(ls) == [x \in Names(ls) |-> ls[Least(Live(ls, x))].text]

\* dotenvy::from_path_override always does, so the last one counts.
LastWins(ls) == [x \in Names(ls) |-> ls[Greatest(Live(ls, x))].text]

Over(f, g) == [x \in DOMAIN f \cup DOMAIN g |-> IF x \in DOMAIN f THEN f[x] ELSE g[x]]

\* .env.example with these two texts filled in.
Filled(jwt, metrics) ==
    [i \in DOMAIN Template |->
        CASE Template[i].name = "JWT_SECRET"    -> Line("JWT_SECRET", TRUE, jwt)
          [] Template[i].name = "METRICS_TOKEN" -> Line("METRICS_TOKEN", TRUE, metrics)
          [] OTHER                              -> Template[i]]

\* secret_token::generate, in the n-th command.
Generated(n) == Text("secret", n)

\* Nothing but its secrets is missing from .env.example, in the environments considered.
ASSUME CompleteAssumption ==
    \A s \in Shell : \A m, n \in 1..MaxCommands :
        Accepts(Over(LastWins(Filled(Generated(m), Generated(n))), s))

\* main: what serve and seed see.
ServeEnv == Over(shell, FirstWins(file))

\* setup: .env goes over the real environment.
SetupEnv == Over(LastWins(file), shell)

-----------------------------------------------------------------------------
(* Generating secrets *)

New(x) == Line(x, TRUE, Generated(commands))

\* Seeded fault: an existing value is never asked for.
SetsAlways(ls, x, force) == TRUE

\* Whether set_env_var changes a line: the first one it finds for the name is a comment, is empty,
\* or is to be replaced; or it finds none, and adds one.
Sets(ls, x, force) ==
    Matching(ls, x) # {} =>
        LET first == ls[Least(Matching(ls, x))]
        IN first.live /\ first.text # Empty => force

\* Seeded fault: a new line is added instead of filling in the one that is there.
AddsLine(ls, x, force) == IF Sets(ls, x, force) THEN Append(ls, New(x)) ELSE ls

SetEnvVar(ls, x, force) ==
    IF ~Sets(ls, x, force) THEN ls
    ELSE IF Matching(ls, x) = {} THEN Append(ls, New(x))
    ELSE [ls EXCEPT ![Least(Matching(ls, x))] = New(x)]

\* Seeded fault: any line of that name will do.
MentionsValue(ls, x) == Live(ls, x) # {}

HasNonEmptyValue(ls, x) == \E i \in Live(ls, x) \cap Matching(ls, x) : ls[i].text # Empty

-----------------------------------------------------------------------------
(* The commands *)

quiet == <<prom, shell, db, edits>>

At(step) == cmd' = [cmd EXCEPT !.step = step]

\* The values of .env that must survive: all that are set, less those a forced generation
\* replaces and those that a commented-out line of their name precedes.
Promised(force) ==
    LET now == FirstWins(file)
        safe == {x \in DOMAIN now : /\ NonEmpty(now, x)
                                    /\ force => x \notin Secrets
                                    /\ \A i \in Matching(file, x) : Least(Live(file, x)) <= i}
    IN [x \in safe |-> now[x]]

Start(op, step, force, seed) ==
    /\ cmd.step = "idle" /\ commands < MaxCommands
    /\ cmd' = [step |-> step, op |-> op, force |-> force, seed |-> seed]
    /\ commands' = commands + 1
    /\ kept' = Promised(force)
    /\ ready' = {} /\ rejected' = FALSE
    /\ UNCHANGED <<quiet, exists, file, lines, changed, torn, rotated>>

End == cmd' = Idle /\ lines' = <<>> /\ changed' = {}

\* setup [--seed]: a .env that is not there yet is copied, and its secrets then replaced.
StartSetup(seed) == Start("setup", IF exists THEN "read" ELSE "copy", ~exists, seed)

\* gen --secrets [--force]
StartGen(force) == Start("gen", "read", force, FALSE)

CopyTemplate == /\ cmd.step = "copy"
                /\ exists' = TRUE /\ file' = Template
                /\ At("read")
                /\ UNCHANGED <<quiet, lines, changed, commands, kept, ready, rejected,
                               torn, rotated>>

\* secrets::generate up to the scrape token: .env is read and changed in memory.
Generate ==
    LET ls == SetEnvVar(file, "JWT_SECRET", cmd.force)
        sets == {x \in {"JWT_SECRET", "METRICS_TOKEN"} : Sets(file, x, cmd.force)}
    IN /\ cmd.step = "read"
       /\ IF exists
          THEN /\ lines' = SetEnvVar(ls, "METRICS_TOKEN", cmd.force)
               /\ changed' = sets
               /\ At(IF "METRICS_TOKEN" \in sets THEN "sync" ELSE "write")
          ELSE End
       /\ UNCHANGED <<quiet, exists, file, commands, kept, ready, rejected, torn, rotated>>

\* Seeded fault: the scrape token is another new secret.
SyncOther == /\ cmd.step = "sync"
             /\ prom' = IF prom \in {NoFile, NoCredentials} THEN prom
                        ELSE Generated(commands + 1)
             /\ At("write")
             /\ UNCHANGED <<exists, file, shell, db, lines, changed, commands, edits, kept,
                            ready, rejected, torn, rotated>>

\* sync_prometheus_token, before .env is written.
SyncPrometheusToken ==
    /\ cmd.step = "sync"
    /\ prom' = IF prom \in {NoFile, NoCredentials} THEN prom ELSE Generated(commands)
    /\ At("write")
    /\ UNCHANGED <<exists, file, shell, db, lines, changed, commands, edits, kept, ready,
                   rejected, torn, rotated>>

\* The rest of generate: a password for an administrator who has an address, then .env.
AdminSet == HasNonEmptyValue(lines, "ADMIN_EMAIL") /\ Sets(lines, "ADMIN_PASSWORD", cmd.force)

Final == IF AdminSet THEN SetEnvVar(lines, "ADMIN_PASSWORD", cmd.force) ELSE lines

WriteEnv ==
    /\ cmd.step = "write"
    /\ file' = IF changed # {} \/ AdminSet THEN Final ELSE file
    /\ rotated' = (rotated /\ "METRICS_TOKEN" \notin changed)
    /\ IF cmd.op = "setup"
       THEN At("load") /\ lines' = <<>> /\ changed' = {}
       ELSE End
    /\ UNCHANGED <<quiet, exists, commands, kept, ready, rejected, torn>>

\* The rest of setup: load the configuration, connect, migrate and, if asked to, seed.
LoadConfig ==
    /\ cmd.step = "load"
    /\ IF Accepts(SetupEnv)
       THEN /\ db' = db \cup {"schema"} \cup (IF cmd.seed THEN {"seed"} ELSE {})
            /\ ready' = {Loaded(SetupEnv)} /\ UNCHANGED rejected
       ELSE /\ rejected' = TRUE /\ UNCHANGED <<db, ready>>
    /\ End
    /\ UNCHANGED <<exists, file, prom, shell, commands, edits, kept, torn, rotated>>

\* seed [--fresh [--yes]]: the configuration must load; a wipe must be confirmed, by --yes or by
\* the answer to the question, and --yes is an error without it.
StartSeed(fresh, confirmed) ==
    /\ Accepts(ServeEnv)
    /\ fresh <=> confirmed
    /\ Start("seed", IF fresh THEN "reset" ELSE "seed", FALSE, TRUE)

Reset == /\ cmd.step = "reset"
         /\ db' = {"schema"}
         /\ At("seed")
         /\ UNCHANGED <<exists, file, prom, shell, lines, changed, commands, edits, kept,
                        ready, rejected, torn, rotated>>

SeedRun == /\ cmd.step = "seed"
           /\ db' = db \cup {"schema", "seed"}
           /\ End
           /\ UNCHANGED <<exists, file, prom, shell, commands, edits, kept, ready, rejected,
                          torn, rotated>>

-----------------------------------------------------------------------------
(* The server, the operator and interruptions *)

\* The server starts, migrates and is used.
Serve == /\ cmd.step = "idle" /\ Accepts(ServeEnv)
         /\ db' = db \cup {"schema", "own"}
         /\ UNCHANGED <<exists, file, prom, shell, cmd, lines, changed, commands, edits, kept,
                        ready, rejected, torn, rotated>>

\* cp .env.example .env
Copy == /\ cmd.step = "idle" /\ ~exists
        /\ exists' = TRUE /\ file' = Template
        /\ UNCHANGED <<quiet, cmd, lines, changed, commands, kept, ready, rejected, torn, rotated>>

\* A line is put first or last, replaced or removed.
Edit ==
    /\ cmd.step = "idle" /\ exists /\ edits < MaxEdits
    /\ \/ \E l \in EditLine : \/ file' = <<l>> \o file
                              \/ file' = Append(file, l)
                              \/ \E i \in LinesOf(file, l.name) : file' = [file EXCEPT ![i] = l]
       \/ \E i \in DOMAIN file : file' = RemoveAt(file, i)
    /\ edits' = edits + 1
    /\ kept' = << >> /\ ready' = {} /\ rejected' = FALSE
    /\ UNCHANGED <<exists, prom, shell, db, cmd, lines, changed, commands, torn, rotated>>

\* What is left of lines whose writing was cut short, in a line or between two.
Cuts(ls) ==
    LET heads == {SubSeq(ls, 1, k) : k \in 0..(Len(ls) - 1)}
        cut(l) == {[l EXCEPT !.text = Empty]} \cup
                  (IF l.text.kind = "secret" THEN {[l EXCEPT !.text = Text("word", 5)]} ELSE {})
    IN heads \cup UNION {{Append(SubSeq(ls, 1, k - 1), l) : l \in cut(ls[k])} : k \in DOMAIN ls}

\* A failed call or a stopped process ends the command.  A file that was being written is the
\* old one, or a part of the new one, which for prometheus.yml may have the credentials line
\* already; a command that uses the database may have migrated it.
Interrupt ==
    /\ cmd.step # "idle"
    /\ \/ UNCHANGED <<exists, file, prom, torn>>
       \/ /\ cmd.step = "copy"
          /\ exists' = TRUE /\ file' \in Cuts(Template) /\ torn' = TRUE
          /\ UNCHANGED prom
       \/ /\ cmd.step = "sync" /\ prom \notin {NoFile, NoCredentials}
          /\ prom' \in {NoCredentials, CutCredentials, Generated(commands)}
          /\ UNCHANGED <<exists, file, torn>>
       \/ /\ cmd.step = "write" /\ (changed # {} \/ AdminSet)
          /\ file' \in Cuts(Final) /\ torn' = TRUE
          /\ UNCHANGED <<exists, prom>>
    /\ kept' = IF torn' THEN << >> ELSE kept
    /\ rotated' = (rotated \/ (/\ \/ cmd.step = "write" /\ "METRICS_TOKEN" \in changed
                                  \/ cmd.step = "sync" /\ prom' = Generated(commands)
                               /\ NonEmpty(FirstWins(file), "METRICS_TOKEN")))
    /\ \/ UNCHANGED db
       \/ /\ cmd.step \in {"load", "reset", "seed"} /\ (cmd.step = "load" => Accepts(SetupEnv))
          /\ db' = db \cup {"schema"}
    /\ End
    /\ UNCHANGED <<shell, commands, edits, ready, rejected>>

-----------------------------------------------------------------------------

Next == \/ \E b \in BOOLEAN : StartSetup(b) \/ StartGen(b)
        \/ \E fresh, confirmed \in BOOLEAN : StartSeed(fresh, confirmed)
        \/ CopyTemplate \/ Generate \/ SyncPrometheusToken \/ WriteEnv \/ LoadConfig
        \/ Reset \/ SeedRun
        \/ Serve \/ Copy \/ Edit \/ Interrupt

Spec == Init /\ [][Next]_vars

-----------------------------------------------------------------------------
(* Properties *)

\* "Leaves anything already set untouched unless force is given, so it is safe to re-run"
\* (secrets.rs): once a command has started, the values it promised to leave alone are those the
\* server reads from .env, through interruptions and re-runs, until the file is edited by hand.
\* A commented-out line above a value is taken for it, which Promised leaves out.
SetValuesStay == \A x \in DOMAIN kept : Value(FirstWins(file), x) = kept[x]

Repeats(ls) == \E i, j \in DOMAIN ls : i # j /\ ls[i].live /\ ls[j].live /\ ls[i].name = ls[j].name

\* "Ready. Run `cargo run` to start the server" (setup.rs): what setup has loaded is what the
\* server will load, although one reads .env over the real environment and the last line of a
\* name, and the other neither; so the database it migrated is the server's.  This leaves out a
\* name that an operator has put twice into .env, or also into the real environment, or in a form
\* that set_env_var does not find, beside which it adds a line of its own.  What the server does
\* after it has its configuration (object store, mail, port) can still fail.
ReadyIsWhatServes ==
    ready # {} /\ (edits > 0 => ~Repeats(file)) /\ Names(file) \cap DOMAIN shell = {} =>
        /\ Accepts(ServeEnv) /\ Loaded(ServeEnv) \in ready
        /\ "schema" \in db

\* "Idempotent: safe to run again" (setup.rs): setup refuses only what an operator wrote, or what
\* an interrupted write left of .env.  Interrupted anywhere else, it completes when run again.
SetupFailsForCause == rejected => edits > 0 \/ torn

\* "A rotated token does not leave local Prometheus scraping stuck on a 401" (secrets.rs): what
\* prometheus.yml presents is accepted by the server that reads .env, also after an interruption
\* between the two files, unless that interrupted a rotation of a token already in use.
ScrapesWork ==
    cmd.step # "write" /\ prom \notin NoToken /\ edits = 0 /\ ~torn /\ ~rotated =>
        Render(FirstWins(file), prom)

=============================================================================
