-------------------------- MODULE MCOpshopSources --------------------------
EXTENDS OpshopSources

CONSTANTS a, a_rd, b, g, h, weekly, monthly

row(s, list, frequency, assigned) ==
    [spelling |-> s, list |-> list, frequency |-> frequency,
     assigned |-> assigned]
form(s, list, frequency) ==
    [spelling |-> s, list |-> list, frequency |-> frequency]

MCcoarse == [s \in Spellings |-> IF s = a THEN a_rd ELSE s]
MCForms == {form(a, "REGULAR", weekly), form(a, "REGULAR", monthly),
            form(a_rd, g, weekly), form(b, "ON_CALL", weekly)}
MCRegularBooks == {{}, {row(a, "REGULAR", weekly, TRUE),
                        row(b, "REGULAR", weekly, TRUE)}}
MCOncallBooks == {{row(a, "ON_CALL", weekly, TRUE),
                   row(a, "ON_CALL", monthly, TRUE),
                   row(a_rd, "ON_CALL", weekly, TRUE)}}
MCRouteBooks == {{}, {row(a_rd, g, weekly, TRUE)}}
MCSheet1Books == {{row(a_rd, "REGULAR", weekly, FALSE)}}
==============================================================================
