----------------------------- MODULE MCAltCalls -----------------------------
(* AltCalls with the names of its devices and of a file system, whose ends
   and beginnings are alike. *)
EXTENDS AltCalls

CONSTANTS d1, d2, fs, tx, rx, flash

MCChannels == <<flash, rx, tx>>
MCListOf == [c \in {tx, rx, flash} |-> CASE c = tx -> "txchan"
                                          [] c = rx -> "rxchan"
                                          [] c = flash -> "flash"]

(* Both channels of a DMA controller have its name. *)
MCName == [d \in Nodes \cup {tx, rx, flash} |-> CASE d = d1 -> <<"/", "u">>
                             [] d = d2 -> <<"/", "u", "1">>
                             [] d = fs -> <<"/", "m", "/">>
                             [] d \in {tx, rx} -> <<"/", "u">>
                             [] d = flash -> <<"/", "m">>
                             [] d = Null -> <<"/", "n">>]

MCProvides == [d \in Nodes |-> CASE d = d1 -> JtagUartProvides(FALSE)
                                 [] d = d2 -> {"read", "write", "fstat"}
                                 [] d = fs -> {"read", "lseek", "fstat"}
                                 [] d = Null -> {"write"}]

MCKinds == [d \in Nodes |-> IF d = fs THEN {"reg", "fails"}
                            ELSE IF d = d2 THEN {"chr"} ELSE {}]

MCPaths == { <<"/", "u">>, <<"/", "u", "1">>, <<"/", "m">>, <<"/", "m", "m">>,
             <<"/", "m", "/", "u">>, <<"/">> }
=============================================================================
