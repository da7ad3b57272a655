---------------------------- MODULE MCDesktopShell ----------------------------
\* DesktopShell needs no definitions for TLC: its constants are numbers.
EXTENDS DesktopShell
=============================================================================
