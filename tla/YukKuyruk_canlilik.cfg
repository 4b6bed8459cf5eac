\* Liveness of one item with up to two runs, two processes, one fault.
SPECIFICATION AdilSpec
CONSTANTS
    p1 = p1
    p2 = p2
    o1 = o1
    o2 = o2
    Yok = Yok
    Surec = {p1, p2}
    Oge = {o1}
    EnCokKosu = 2
    GECICI_DENEME_SINIRI = 2
    ADIM_SINIRI = 2
    KUYRUK_HATA_SINIRI = 1
    EnCokAriza = 1
    EnCokOlay = 1
    EnCokBasma = 1
PROPERTIES OgeYetimKalmaz KuyrukBiter
CHECK_DEADLOCK FALSE
