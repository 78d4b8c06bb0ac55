-------------------------- MODULE MCLanguageServer --------------------------
EXTENDS LanguageServer
CONSTANTS t1, t2, j1, j2
==============================================================================
