--------------------------- MODULE MCAcpStartup ---------------------------
EXTENDS AcpStartup
=============================================================================
