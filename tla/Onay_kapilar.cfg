\* One request of each kind in turn; two events, of them one fault and one cancellation.
SPECIFICATION AdilSpec
CONSTANTS
    p1 = p1
    p2 = p2
    k1 = k1
    y1 = y1
    Yok = Yok
    SmartSurec = {p1}
    OcoSurec = {p1}
    Kayit = {k1}
    Dogrudan = {y1}
    EnCokTalep = 1
    EnCokAriza = 1
    EnCokBasma = 1
    EnCokOlay = 2

INVARIANTS TypeOK TekIs TekBilet ErkenBaslamaz TetiklendiDogru SahipIptaliKesin
PROPERTIES TekKarar BiletSonuclanir KayitSonuclanir
\* Requests are made once each: the system comes to rest.
CHECK_DEADLOCK FALSE
