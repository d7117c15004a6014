---------------------------- MODULE MCShareLoader ----------------------------
EXTENDS ShareLoader

CONSTANTS a

MCShareIds == {a}

\* Every combination of column values.
MCRows == Row

\* The five schema versions the elif chain of _load_shares names.
MCSchemas == SchemaVersions

=============================================================================
