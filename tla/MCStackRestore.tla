---------------------------- MODULE MCStackRestore ----------------------------
EXTENDS StackRestore

CONSTANTS kdb, udb, env, v0, v1, u, s1, s2

\* knowledge.db, which only the memory gateway writes; usage.db, which the Model
\* Gateway writes whether or not a restore is pending; and settings.env, which
\* commands write; in the order of the archive.
MCArchived == <<kdb, udb, env>>

=============================================================================
