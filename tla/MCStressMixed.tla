--------------------------- MODULE MCStressMixed ---------------------------
EXTENDS StressMixed

MCPeriod == [c \in Classes |-> IF c \in TTLClasses THEN 2 ELSE 4]
=============================================================================
