------------------------------ MODULE MCSetup ------------------------------
(* An instance of Setup for TLC. *)
EXTENDS Setup

\* The lines of .env.example that matter here.
MCTemplate == << Line("DATABASE_URL", TRUE, Text("word", 50)),
                 Line("JWT_SECRET", TRUE, Empty),
                 Line("ADMIN_EMAIL", TRUE, Empty),
                 Line("ADMIN_PASSWORD", TRUE, Empty),
                 Line("METRICS_TOKEN", TRUE, Empty) >>

MCEditLine == { Line("JWT_SECRET", TRUE, Text("word", 40)),
                Line("JWT_SECRET", FALSE, Text("word", 40)),
                Line("JWT_SECRET", TRUE, Hollow),
                Exported("JWT_SECRET", Text("word", 40)),
                Line("ADMIN_EMAIL", TRUE, Text("word", 17)),
                Line("ADMIN_EMAIL", TRUE, Hollow),
                Line("MAX_CONCURRENT_HASHES", TRUE, Text("number", 0)) }

MCPrometheus == {NoFile, Text("word", 43)}

MCShell == {[x \in {"MAX_CONCURRENT_HASHES"} |-> Text("number", 4)]}

=============================================================================
