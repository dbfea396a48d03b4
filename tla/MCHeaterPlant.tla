--------------------------- MODULE MCHeaterPlant ---------------------------
(***************************************************************************)
(* A small tank, a heater close to its limits, and four ways to connect    *)
(* to them.                                                                *)
(***************************************************************************)
EXTENDS HeaterPlant

\* int(temp ** 1.3) of 94 to 97 degrees.
MCPressureAt == [t \in 94 .. 97 |-> <<367, 372, 377, 382>>[t - 93]]

MCDeployments ==
    [controlled |-> {"plc", "reset"}, pressed |-> {"plc", "button"},
     published |-> {"opcua", "modbus"},
     watched |-> {"page", "modbus"}]

Read(table, start, count) ==
    [table |-> table, start |-> start, count |-> count, write |-> FALSE]
Write(start, values) ==
    [table |-> "co", start |-> start, count |-> Len(values), values |-> values, write |-> TRUE]

\* Requests on both sides of every boundary of the tables.
MCRequests ==
    [read_coils |-> Read("co", 0, 4), read_beyond |-> Read("co", 4, 1),
     read_gauges |-> Read("ir", 0, 2), read_levels |-> Read("di", 1, 2), read_holding |-> Read("hr", 0, 1),
     fill |-> Write(1, <<TRUE>>), stop_and_press |-> Write(1, <<FALSE, FALSE, TRUE>>),
     write_across |-> Write(3, <<TRUE, TRUE>>)]
=============================================================================
