---------------------------- MODULE MCSiController ----------------------------
EXTENDS SiController, TLC

CONSTANTS t1, t2

\* Pads polled next to every other use of the same record; paks; the EEPROM; the
\* voice unit, which belongs to one thread.
Uses == {
  t1 :> {"POLL", "QUERY", "RESET", "SETCH"} @@ t2 :> {"READ_PAK", "MOTOR", "CH_RESET", "PLUG"},
  t1 :> {"READ_PAK", "WRITE_PAK"} @@ t2 :> {"READ_PAK", "STATUS", "POLL"},
  t1 :> {"EEP_READ", "EEP_WRITE", "EEP_PROBE"} @@ t2 :> {"POLL", "READ_PAK"},
  t1 :> {"VOICE_STATUS", "VOICE_READ", "VOICE_WRITE"} @@ t2 :> {"POLL", "READ_PAK"}
}

\* A search for a file, which asks for the status without the token, next to one that
\* takes it.
Bare == { t1 :> {"STATUS_BARE"} @@ t2 :> {"READ_PAK"} }

\* A voice unit whose checksums fail.
BadVoice == { t1 :> {"VOICE_READ"} @@ t2 :> {"POLL"} }
===============================================================================
