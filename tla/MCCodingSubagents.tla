-------------------------- MODULE MCCodingSubagents --------------------------
EXTENDS CodingSubagents
CONSTANTS c1, c2
=============================================================================
