CONSTANTS
    a = a
    a_rd = a_rd
    b = b
    g = g
    h = h
    weekly = weekly
    monthly = monthly
    None = None
    Spellings = {a, a_rd, b}
    Groups = {g, h}
    Frequencies = {weekly, monthly}
    MaxChanges = 4
    coarse <- MCcoarse
    Forms <- MCForms
    RegularBooks <- MCRegularBooks
    OncallBooks <- MCOncallBooks
    RouteBooks <- MCRouteBooks
    Sheet1Books <- MCSheet1Books
SPECIFICATION Spec
INVARIANTS TypeOK ShopsStayApart
PROPERTIES RegularBookIsTheList
CHECK_DEADLOCK FALSE
