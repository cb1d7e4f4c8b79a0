---------------------------- MODULE MCRedaction ----------------------------
EXTENDS Redaction

MCRoot == <<"home", "account", "checkout">>
MCWords == {"x", "bad", "crlf", "lf", "fffd"}
MCReading == [w \in MCWords |-> CASE w = "bad" -> "fffd"
                                  [] w = "crlf" -> "lf"
                                  [] OTHER -> w]
=============================================================================
