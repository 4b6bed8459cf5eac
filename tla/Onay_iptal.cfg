\* One scheduled request, no fault, one cancellation.
SPECIFICATION Spec
CONSTANTS
    p1 = p1
    p2 = p2
    k1 = k1
    y1 = y1
    Yok = Yok
    SmartSurec = {p1}
    OcoSurec = {p1}
    Kayit = {k1}
    Dogrudan = {}
    EnCokTalep = 1
    EnCokAriza = 0
    EnCokBasma = 1
    EnCokOlay = 1

PROPERTY IptalEdilenTetiklenmez
\* Requests are made once each: the system comes to rest.
CHECK_DEADLOCK FALSE
